------------------------ MODULE ExternalStreamsProofs ------------------------
(***************************************************************************)
(* The kernel survives every client of a provider that behaves; and what a  *)
(* client receives is in order, and ends with an end, whatever happens.     *)
(* For any number of streams and clients, and every capacity of the queues. *)
(***************************************************************************)
EXTENDS ExternalStreams, SequenceTheorems, TLAPS

USE DEF Unasked

\* What is next in a plan, and what is left of it.
LEMMA PlanFacts ==
  /\ Head(<<"deliver">>) = "deliver"
  /\ Head(<<"drop", "close">>) = "drop" /\ Tail(<<"drop", "close">>) = <<"close">>
  /\ Head(<<"close", "drop">>) = "close" /\ Tail(<<"close", "drop">>) = <<"drop">>
  /\ Head(<<"drop">>) = "drop" /\ Tail(<<"drop">>) = <<>>
  /\ Head(<<"close">>) = "close" /\ Tail(<<"close">>) = <<>>
  /\ <<"deliver">> # <<>> /\ <<"close">> # <<>> /\ <<"drop">> # <<>>
  /\ <<"drop", "close">> # <<>> /\ <<"close", "drop">> # <<>>
  /\ <<"deliver">> # <<"close">> /\ <<"deliver">> # <<"drop">> /\ <<"close">> # <<"drop">>
  /\ <<"drop", "close">> # <<"close", "drop">>
  /\ \A a, b, c \in STRING : <<a, b>> # <<c>>
OBVIOUS

\* A goroutine with a plan has a frame; a step of its plan is the first of it.
LEMMA BusyFacts ==
  ASSUME TypeOK, NEW t \in Threads, thread[t] # Idle
  PROVE  /\ thread[t] = <<Plan(t), FrameOf(t)>> /\ Plan(t) \in Plans /\ FrameOf(t) \in Frame
         /\ FrameOf(t).of \in Streams
         /\ Doing(t, "deliver") => Plan(t) = <<"deliver">>
         /\ Doing(t, "drop") => Plan(t) \in {<<"drop", "close">>, <<"drop">>}
         /\ Doing(t, "close") => Plan(t) \in {<<"close", "drop">>, <<"close">>}
<1>1. thread[t] \in Plans \X Frame BY DEF TypeOK
<1>2. thread[t] = <<Plan(t), FrameOf(t)>> /\ Plan(t) \in Plans /\ FrameOf(t) \in Frame
  BY <1>1 DEF Plan, FrameOf
<1>3. FrameOf(t).of \in Streams BY <1>2 DEF Frame
<1>4. Doing(t, "deliver") => Plan(t) = <<"deliver">> BY <1>2, PlanFacts DEF Doing, Plan, Plans
<1>5. Doing(t, "drop") => Plan(t) \in {<<"drop", "close">>, <<"drop">>}
  BY <1>2, PlanFacts DEF Doing, Plan, Plans
<1>6. Doing(t, "close") => Plan(t) \in {<<"close", "drop">>, <<"close">>}
  BY <1>2, PlanFacts DEF Doing, Plan, Plans
<1>. QED BY <1>2, <1>3, <1>4, <1>5, <1>6

\* The two loops are no streams.
LEMMA Loops ==
  /\ "events" \in Threads /\ "control" \in Threads /\ "events" # "control"
  /\ "events" \notin Streams /\ "control" \notin Streams /\ Streams \subseteq Threads
BY StreamsAssumption DEF Threads, StreamsAssumption

\* What becomes of a goroutine that goes on with its frame.
LEMMA GoesFacts ==
  ASSUME TypeOK, NEW t \in Threads, thread[t] # Idle, NEW plan, Goes(t, plan)
  PROVE  /\ plan # <<>> => thread' = [thread EXCEPT ![t] = <<plan, FrameOf(t)>>]
                           /\ overflow' = overflow
         /\ plan = <<>> => thread' = [thread EXCEPT ![t] = Idle]
                           /\ overflow' = IF t = "control" THEN {} ELSE overflow
BY DEF Goes, Step, Done

\* A delivery: the frame is put on an open channel, or a closed one kills the kernel.
LEMMA DeliverFacts ==
  ASSUME TypeOK, ThreadInv, NEW t \in Threads, Deliver(t)
  PROVE  LET f == FrameOf(t)  s == f.of IN
         /\ thread[t] # Idle /\ Plan(t) = <<"deliver">> /\ s \in Streams
         /\ ~crashed /\ overflow' = overflow
         /\ \/ s \in shut /\ crashed' /\ UNCHANGED <<chan, thread>>
            \/ /\ s \notin shut /\ Len(chan[s]) < Room /\ UNCHANGED crashed
               /\ chan' = [chan EXCEPT ![s] = Append(@, f)]
               /\ thread' = [thread EXCEPT ![t] =
                    IF t \in Streams THEN <<<<"close">>, f>>
                    ELSE IF f.kind = "data" THEN Idle ELSE <<<<"close", "drop">>, f>>]
<1> DEFINE f == FrameOf(t)  s == f.of
<1>1. thread[t] # Idle /\ Doing(t, "deliver") BY DEF Deliver, Doing
<1>2. Plan(t) = <<"deliver">> /\ s \in Streams /\ ~crashed BY <1>1, BusyFacts DEF Doing
<1>3. CASE s \in shut BY <1>1, <1>2, <1>3 DEF Deliver
<1>4. CASE s \notin shut
  <2>1. /\ Len(chan[s]) < Room /\ UNCHANGED crashed
        /\ chan' = [chan EXCEPT ![s] = Append(@, f)] /\ Goes(t, AfterDelivery(t))
    BY <1>4 DEF Deliver, HasRoom
  <2>2. AfterDelivery(t) = IF t \in Streams THEN <<"close">>
                           ELSE IF f.kind = "data" THEN <<>> ELSE <<"close", "drop">>
    BY DEF AfterDelivery
  <2>3. t = "control" => f.kind # "data" BY <1>1 DEF ThreadInv
  <2>4. t = "control" => t \notin Streams BY Loops
  <2>. QED BY <1>1, <1>2, <1>4, <2>1, <2>2, <2>3, <2>4, GoesFacts, PlanFacts
<1>. QED BY <1>3, <1>4

\* A delivery that timed out leaves the frame and goes on to the close.
LEMMA GiveUpFacts ==
  ASSUME TypeOK, NEW t \in Threads, GiveUp(t)
  PROVE  LET f == FrameOf(t)  s == f.of IN
         /\ thread[t] # Idle /\ Plan(t) = <<"deliver">> /\ s \in Streams
         /\ ~crashed /\ overflow' = overflow /\ s \notin shut /\ MayGiveUp(t)
         /\ thread' = [thread EXCEPT ![t] =
              IF t \in Streams THEN <<<<"close">>, f>> ELSE <<<<"drop", "close">>, f>>]
<1>1. thread[t] # Idle /\ Doing(t, "deliver") BY DEF GiveUp, Doing
<1>2. Plan(t) = <<"deliver">> /\ FrameOf(t).of \in Streams /\ ~crashed BY <1>1, BusyFacts DEF Doing
<1>3. Goes(t, AfterTimeout(t)) BY DEF GiveUp
<1>4. AfterTimeout(t) = IF t \in Streams THEN <<"close">> ELSE <<"drop", "close">>
  BY DEF AfterTimeout
<1>. QED BY <1>1, <1>2, <1>3, <1>4, GoesFacts, PlanFacts DEF GiveUp

\* A route dropped.
LEMMA DropFacts ==
  ASSUME TypeOK, NEW t \in Threads, DropRoute(t)
  PROVE  LET f == FrameOf(t)  s == f.of IN
         /\ thread[t] # Idle /\ s \in Streams /\ routes' = routes \ {s}
         /\ \/ /\ Plan(t) = <<"drop", "close">> /\ overflow' = overflow
               /\ thread' = [thread EXCEPT ![t] = <<<<"close">>, f>>]
            \/ /\ Plan(t) = <<"drop">> /\ overflow' = IF t = "control" THEN {} ELSE overflow
               /\ thread' = [thread EXCEPT ![t] = Idle]
<1>1. thread[t] # Idle /\ Doing(t, "drop") BY DEF DropRoute, Doing
<1>2. Plan(t) \in {<<"drop", "close">>, <<"drop">>} /\ FrameOf(t).of \in Streams BY <1>1, BusyFacts
<1>3. Goes(t, Rest(t)) /\ routes' = routes \ {FrameOf(t).of} BY DEF DropRoute
<1>4. Rest(t) = Tail(Plan(t)) BY DEF Rest, Plan
<1>5. CASE Plan(t) = <<"drop", "close">>
  <2>1. Rest(t) = <<"close">> /\ Rest(t) # <<>> BY <1>4, <1>5, PlanFacts
  <2>2. thread' = [thread EXCEPT ![t] = <<Rest(t), FrameOf(t)>>] /\ overflow' = overflow
    BY <1>1, <1>3, <2>1, GoesFacts
  <2>. QED BY <1>1, <1>2, <1>3, <1>5, <2>1, <2>2
<1>6. CASE Plan(t) = <<"drop">>
  <2>1. Rest(t) = <<>> BY <1>4, <1>6, PlanFacts
  <2>. QED BY <1>1, <1>2, <1>3, <1>6, <2>1, GoesFacts
<1>. QED BY <1>2, <1>5, <1>6

\* A channel closed once, and the rest of the plan.
LEMMA CloseFacts ==
  ASSUME TypeOK, NEW t \in Threads, CloseExternalOnce(t)
  PROVE  LET f == FrameOf(t)  s == f.of IN
         /\ thread[t] # Idle /\ s \in Streams /\ once' = once \cup {s}
         /\ \/ s \in once /\ UNCHANGED <<shut, crashed>>
            \/ s \notin once /\ s \in shut /\ crashed' = TRUE /\ UNCHANGED shut
            \/ s \notin once /\ s \notin shut /\ shut' = shut \cup {s} /\ UNCHANGED crashed
         /\ \/ /\ Plan(t) = <<"close", "drop">> /\ overflow' = overflow
               /\ thread' = [thread EXCEPT ![t] = <<<<"drop">>, f>>]
            \/ /\ Plan(t) = <<"close">> /\ overflow' = IF t = "control" THEN {} ELSE overflow
               /\ thread' = [thread EXCEPT ![t] = Idle]
<1>1. thread[t] # Idle /\ Doing(t, "close") BY DEF CloseExternalOnce, Doing
<1>2. Plan(t) \in {<<"close", "drop">>, <<"close">>} /\ FrameOf(t).of \in Streams
  BY <1>1, BusyFacts
<1>3. Goes(t, Rest(t)) /\ once' = once \cup {FrameOf(t).of} BY DEF CloseExternalOnce
<1>4. Rest(t) = Tail(Plan(t)) BY DEF Rest, Plan
<1>5. LET s == FrameOf(t).of IN
      \/ s \in once /\ UNCHANGED <<shut, crashed>>
      \/ s \notin once /\ s \in shut /\ crashed' = TRUE /\ UNCHANGED shut
      \/ s \notin once /\ s \notin shut /\ shut' = shut \cup {s} /\ UNCHANGED crashed
  BY DEF CloseExternalOnce, Close
<1>6. CASE Plan(t) = <<"close", "drop">>
  <2>1. Rest(t) = <<"drop">> /\ Rest(t) # <<>> BY <1>4, <1>6, PlanFacts
  <2>2. thread' = [thread EXCEPT ![t] = <<Rest(t), FrameOf(t)>>] /\ overflow' = overflow
    BY <1>1, <1>3, <2>1, GoesFacts
  <2>. QED BY <1>1, <1>2, <1>3, <1>5, <1>6, <2>1, <2>2
<1>7. CASE Plan(t) = <<"close">>
  <2>1. Rest(t) = <<>> BY <1>4, <1>7, PlanFacts
  <2>. QED BY <1>1, <1>2, <1>3, <1>5, <1>7, <2>1, GoesFacts
<1>. QED BY <1>2, <1>6, <1>7

\* What has been sent stays so, and keeps its rank.
LEMMA SentStays ==
  ASSUME TypeOK, [Next]_vars, NEW s \in Streams
  PROVE  /\ sent[s] <= sent'[s] /\ (source[s] # "streaming" => sent'[s] = sent[s])
         /\ source[s] # "no" => source'[s] # "no"
         /\ source[s] = "over" => source'[s] = "over" /\ sent'[s] = sent[s]
         /\ \A k, f : Sent(s, k, f) => Sent(s, k, f)'
<1>1. /\ sent \in [Streams -> 0 .. MaxData] /\ MaxData \in Nat
      /\ source \in [Streams -> {"no", "streaming", "over"}]
  BY StreamsAssumption DEF TypeOK, StreamsAssumption
<1>2. /\ sent[s] <= sent'[s] /\ (source[s] # "streaming" => sent'[s] = sent[s])
      /\ source[s] # "no" => source'[s] # "no"
      /\ source[s] = "over" => source'[s] = "over"
  <2>1. CASE \E u \in Streams : OpenStream(u)
    BY <1>1, <2>1 DEF OpenStream
  <2>2. CASE \E u \in Streams : Reject(u)
    BY <1>1, <2>2 DEF Reject
  <2>3. CASE \E u \in Streams : SendData(u)
    <3>1. PICK u \in Streams : SendData(u) BY <2>3
    <3>2. source' = source /\ sent' = [sent EXCEPT ![u] = @ + 1] /\ source[u] = "streaming"
      BY <3>1 DEF SendData
    <3>3. sent[u] \in Nat /\ sent[s] \in Nat BY <1>1
    <3>. QED BY <1>1, <3>2, <3>3
  <2>4. CASE \E u \in Streams : SendClose(u)
    BY <1>1, <2>4 DEF SendClose
  <2>5. CASE UNCHANGED <<source, sent>> BY <1>1, <2>5
  <2>. QED
    BY <2>1, <2>2, <2>3, <2>4, <2>5
    DEF Next, Thread, vars, provider, Request, RefuseEarly, RefuseKind, InvokeFails, Answer,
        Receive, SeeEnd, ClientCancel, Disconnect, LoseAnswer, Die, TakeFrame, TakeOverflow,
        RemoveClient, Deliver, GiveUp, DropRoute, CloseExternalOnce
<1>3. sent[s] \in Nat /\ sent'[s] \in Nat
  <2>1. sent[s] \in Nat BY <1>1
  <2>2. CASE \E u \in Streams : SendData(u)
    <3>1. PICK u \in Streams : SendData(u) BY <2>2
    <3>. QED BY <1>1, <2>1, <3>1 DEF SendData
  <2>3. CASE sent' = sent BY <2>1, <2>3
  <2>. QED
    BY <2>2, <2>3
    DEF Next, Thread, vars, provider, Request, RefuseEarly, RefuseKind, InvokeFails, OpenStream,
        Answer, Reject, SendClose, Receive, SeeEnd, ClientCancel, Disconnect, LoseAnswer, Die,
        TakeFrame, TakeOverflow, RemoveClient, Deliver, GiveUp, DropRoute, CloseExternalOnce
<1>4. source[s] = "over" => sent'[s] = sent[s] BY <1>2
<1>5. ASSUME NEW k, NEW f, Sent(s, k, f) PROVE Sent(s, k, f)'
  <2>1. CASE k \in 1 .. sent[s] /\ f = Data(s, k)
    <3>1. k \in 1 .. sent'[s] BY <1>2, <1>3, <2>1
    <3>. QED BY <2>1, <3>1 DEF Sent
  <2>2. CASE k = sent[s] + 1 /\ source[s] = "over" /\ f = Other(s, "close")
    BY <1>2, <1>4, <2>2 DEF Sent
  <2>. QED BY <1>5, <2>1, <2>2 DEF Sent
<1>. QED BY <1>2, <1>4, <1>5

\* The rank of a frame that has been sent is its place.
LEMMA RankOfSent ==
  ASSUME TypeOK, NEW s \in Streams, NEW k, NEW f, Sent(s, k, f)
  PROVE  /\ k \in Nat \ {0} /\ f \in Frame /\ f.of = s /\ Rank(f) = k /\ f.kind \in {"data", "close"}
         /\ k <= sent[s] + 1
         /\ f.kind = "data" <=> k <= sent[s]
         /\ f.kind = "close" => k = sent[s] + 1 /\ source[s] = "over"
<1>1. sent[s] \in Nat BY StreamsAssumption DEF TypeOK, StreamsAssumption
<1>2. CASE k \in 1 .. sent[s] /\ f = Data(s, k) BY <1>1, <1>2 DEF Data, Frame, Rank
<1>3. CASE k = sent[s] + 1 /\ source[s] = "over" /\ f = Other(s, "close")
  BY <1>1, <1>3 DEF Other, Frame, Rank
<1>. QED BY <1>2, <1>3 DEF Sent

(***************************************************************************)
(* The types.                                                               *)
(***************************************************************************)
LEMMA QueueTypes ==
  ASSUME TypeOK, NEW f \in Frame, Queue(f), Heard
  PROVE  /\ ingress' \in Seq(Frame) /\ Len(ingress') <= Ingress
         /\ dropped' \subseteq Streams
         /\ overflow' = {} \/ \E s \in dropped' : overflow' = {s}
<1>1. ingress \in Seq(Frame) /\ Len(ingress) <= Ingress /\ Ingress \in Nat /\ f.of \in Streams
  BY StreamsAssumption DEF TypeOK, StreamsAssumption, Frame
<1>2. CASE Len(ingress) < Ingress
  <2>1. ingress' = Append(ingress, f) /\ UNCHANGED <<overflow, dropped>> BY <1>2 DEF Queue
  <2>. QED BY <1>1, <1>2, <2>1 DEF TypeOK
<1>3. CASE ~ (Len(ingress) < Ingress)
  <2>1. overflow' = {f.of} /\ dropped' = dropped \cup {f.of} /\ UNCHANGED ingress
    BY <1>3 DEF Queue
  <2>. QED BY <1>1, <2>1 DEF TypeOK
<1>. QED BY <1>2, <1>3

\* A goroutine that goes on has a plan, and the same frame.
LEMMA ThreadTypes ==
  ASSUME TypeOK, NEW t \in Threads, thread[t] # Idle,
         NEW v \in {Idle} \cup {<<p, FrameOf(t)>> : p \in Plans}, thread' = [thread EXCEPT ![t] = v]
  PROVE  thread' \in [Threads -> {Idle} \cup (Plans \X Frame)]
<1>1. FrameOf(t) \in Frame BY BusyFacts
<1>2. v \in {Idle} \cup (Plans \X Frame) BY <1>1
<1>. QED BY <1>2 DEF TypeOK

\* A goroutine given a plan and a frame.
LEMMA PutTypes ==
  ASSUME TypeOK, NEW t, NEW v \in {Idle} \cup (Plans \X Frame)
  PROVE  [thread EXCEPT ![t] = v] \in [Threads -> {Idle} \cup (Plans \X Frame)]
<1>1. thread \in [Threads -> {Idle} \cup (Plans \X Frame)] BY DEF TypeOK
<1>. QED BY <1>1

\* Every step keeps the types.
LEMMA StepKeepsTypes ==
  ASSUME StreamsAssumption, TypeOK, ThreadInv, [Next]_vars
  PROVE  TypeOK'
<1> USE DEF TypeOK, provider, gateway, channels, notes
<1>1. ASSUME NEW s \in Streams, Request(s) \/ RefuseEarly(s) \/ RefuseKind(s) \/ InvokeFails(s)
      PROVE  TypeOK'
  <2>1. CASE Request(s) BY <2>1 DEF Request
  <2>2. CASE RefuseEarly(s)
    <3>0. Close(s) BY <2>2 DEF RefuseEarly
    <3>1. shut' \subseteq Streams /\ crashed' \in BOOLEAN
      <4>1. CASE s \in shut BY <3>0, <4>1 DEF Close
      <4>2. CASE s \notin shut BY <3>0, <4>2 DEF Close
      <4>. QED BY <4>1, <4>2
    <3>2. invoke' = [invoke EXCEPT ![s] = "refused"] BY <2>2 DEF RefuseEarly
    <3>. QED BY <2>2, <3>1, <3>2 DEF RefuseEarly
  <2>3. CASE InvokeFails(s)
    <3>1. troubles' \in 0 .. MaxTroubles /\ UNCHANGED <<dropped, outrun>>
      BY <2>3 DEF InvokeFails, Fails, Trouble, StreamsAssumption
    <3>2. stop' \subseteq Streams BY <2>3 DEF InvokeFails, Fails
    <3>3. shut' \subseteq Streams /\ crashed' \in BOOLEAN
      <4>0. Close(s) BY <2>3 DEF InvokeFails
      <4>1. CASE s \in shut BY <4>0, <4>1 DEF Close
      <4>2. CASE s \notin shut BY <4>0, <4>2 DEF Close
      <4>. QED BY <4>1, <4>2
    <3>4. invoke' = [invoke EXCEPT ![s] = "failed"] BY <2>3 DEF InvokeFails
    <3>. QED BY <2>3, <3>1, <3>2, <3>3, <3>4 DEF InvokeFails
  <2>4. CASE RefuseKind(s) BY <2>4 DEF RefuseKind
  <2>. QED BY <1>1, <2>1, <2>2, <2>3, <2>4
<1>2. ASSUME NEW s \in Streams, OpenStream(s) PROVE TypeOK' BY <1>2 DEF OpenStream
<1>3. ASSUME NEW s \in Streams, Answer(s) \/ Reject(s) PROVE TypeOK'
  <2>1. CASE Answer(s) BY <2>1 DEF Answer, Answers
  <2>2. CASE Reject(s) BY <2>2 DEF Reject, Answers
  <2>. QED BY <1>3, <2>1, <2>2
<1>4. ASSUME NEW s \in Streams, SendData(s) PROVE TypeOK'
  <2>1. sent[s] \in Nat /\ MaxData \in Nat BY DEF StreamsAssumption
  <2>2. Data(s, sent[s] + 1) \in Frame BY <2>1 DEF Data, Frame
  <2>3. sent' \in [Streams -> 0 .. MaxData] BY <1>4, <2>1 DEF SendData
  <2>4. Queue(Data(s, sent[s] + 1)) /\ Heard BY <1>4 DEF SendData
  <2>5. /\ ingress' \in Seq(Frame) /\ Len(ingress') <= Ingress
        /\ dropped' \subseteq Streams
        /\ overflow' = {} \/ \E u \in dropped' : overflow' = {u}
    BY <2>2, <2>4, QueueTypes
  <2>. QED BY <1>4, <2>3, <2>5 DEF SendData
<1>5. ASSUME NEW s \in Streams, SendClose(s) PROVE TypeOK'
  <2>1. Other(s, "close") \in Frame BY DEF Other, Frame
  <2>2. Queue(Other(s, "close")) /\ Heard BY <1>5 DEF SendClose
  <2>3. /\ ingress' \in Seq(Frame) /\ Len(ingress') <= Ingress
        /\ dropped' \subseteq Streams
        /\ overflow' = {} \/ \E u \in dropped' : overflow' = {u}
    BY <2>1, <2>2, QueueTypes
  <2>. QED BY <1>5, <2>3 DEF SendClose
<1>6. ASSUME NEW s \in Streams, Receive(s) \/ Disconnect(s) PROVE TypeOK'
  <2>1. chan[s] \in Seq(Frame) /\ chan[s] # <<>> BY <1>6 DEF Receive, Disconnect
  <2>2. /\ Tail(chan[s]) \in Seq(Frame) /\ Len(Tail(chan[s])) <= Len(chan[s])
        /\ Head(chan[s]) \in Frame
    BY <2>1
  <2>3. chan' = [chan EXCEPT ![s] = Tail(chan[s])] BY <1>6 DEF Receive, Disconnect
  <2>4. /\ chan' \in [Streams -> Seq(Frame)]
        /\ \A u \in Streams : Len(chan'[u]) <= Room
    <3>1. Len(chan[s]) \in Nat /\ Len(Tail(chan[s])) \in Nat /\ Room \in Nat
      BY <2>1, <2>2 DEF StreamsAssumption
    <3>. QED BY <2>2, <2>3, <3>1
  <2>5. CASE Receive(s)
    <3>1. Append(got[s], Head(chan[s])) \in Seq(Frame) BY <2>2
    <3>2. got' \in [Streams -> Seq(Frame)] BY <2>5, <3>1 DEF Receive
    <3>. QED BY <2>4, <2>5, <3>2 DEF Receive
  <2>6. CASE Disconnect(s)
    <3>1. troubles' \in 0 .. MaxTroubles BY <2>6 DEF Disconnect, Trouble, StreamsAssumption
    <3>2. stop' \subseteq Streams BY <2>6 DEF Disconnect, CancelExternalStream
    <3>. QED BY <2>4, <2>6, <3>1, <3>2 DEF Disconnect, Trouble
  <2>. QED BY <1>6, <2>5, <2>6
<1>7. ASSUME NEW s \in Streams, SeeEnd(s) \/ ClientCancel(s) \/ LoseAnswer(s) PROVE TypeOK'
  <2>1. CASE SeeEnd(s) BY <2>1 DEF SeeEnd
  <2>2. CASE ClientCancel(s)
    BY <2>2 DEF ClientCancel, Trouble, CancelExternalStream, StreamsAssumption
  <2>3. CASE LoseAnswer(s) BY <2>3 DEF LoseAnswer, Trouble, StreamsAssumption
  <2>. QED BY <1>7, <2>1, <2>2, <2>3
<1>8. ASSUME NEW t \in Threads, Deliver(t) PROVE TypeOK'
  <2> DEFINE f == FrameOf(t)  s == f.of
  <2>1. /\ thread[t] # Idle /\ s \in Streams /\ overflow' = overflow
        /\ \/ crashed' = TRUE /\ UNCHANGED <<chan, thread>>
           \/ /\ Len(chan[s]) < Room /\ UNCHANGED crashed
              /\ chan' = [chan EXCEPT ![s] = Append(@, f)]
              /\ thread' = [thread EXCEPT ![t] =
                    IF t \in Streams THEN <<<<"close">>, f>>
                    ELSE IF f.kind = "data" THEN Idle ELSE <<<<"close", "drop">>, f>>]
    <3>1. s \in shut => crashed' = TRUE /\ UNCHANGED <<chan, thread>> BY <1>8 DEF Deliver
    <3>. QED BY <1>8, <3>1, DeliverFacts
  <2>2. f \in Frame BY <2>1, BusyFacts
  <2> HIDE DEF f
  <2>3. thread' \in [Threads -> {Idle} \cup (Plans \X Frame)]
    <3>1. CASE UNCHANGED thread BY <3>1
    <3>2. CASE ~ UNCHANGED thread
      <4> DEFINE v == IF t \in Streams THEN <<<<"close">>, f>>
                      ELSE IF f.kind = "data" THEN Idle ELSE <<<<"close", "drop">>, f>>
      <4>1. v \in {Idle} \cup {<<p, f>> : p \in Plans} BY DEF Plans
      <4>2. thread' = [thread EXCEPT ![t] = v] BY <2>1, <3>2
      <4> HIDE DEF v
      <4>. QED BY <2>1, <4>1, <4>2, ThreadTypes DEF f
    <3>. QED BY <3>1, <3>2
  <2>4. /\ chan' \in [Streams -> Seq(Frame)]
        /\ \A u \in Streams : Len(chan'[u]) <= Room
    <3>1. CASE UNCHANGED chan BY <3>1
    <3>2. CASE Len(chan[s]) < Room /\ chan' = [chan EXCEPT ![s] = Append(@, f)]
      <4>1. chan[s] \in Seq(Frame) BY <2>1
      <4>2. Append(chan[s], f) \in Seq(Frame) /\ Len(Append(chan[s], f)) = Len(chan[s]) + 1
        BY <2>2, <4>1
      <4>3. Len(Append(chan[s], f)) <= Room
        BY <3>2, <4>1, <4>2 DEF StreamsAssumption
      <4>. QED BY <2>1, <3>2, <4>2, <4>3
    <3>. QED BY <2>1, <3>1, <3>2
  <2>5. crashed' \in BOOLEAN BY <2>1
  <2>. QED BY <1>8, <2>1, <2>3, <2>4, <2>5 DEF Deliver
<1>9. ASSUME NEW t \in Threads, GiveUp(t) PROVE TypeOK'
  <2>1. /\ thread[t] # Idle /\ FrameOf(t).of \in Streams /\ overflow' = overflow
        /\ thread' = [thread EXCEPT ![t] = IF t \in Streams THEN <<<<"close">>, FrameOf(t)>>
                                           ELSE <<<<"drop", "close">>, FrameOf(t)>>]
    BY <1>9, GiveUpFacts
  <2>2. thread' \in [Threads -> {Idle} \cup (Plans \X Frame)]
    <3>1. {<<<<"close">>, FrameOf(t)>>, <<<<"drop", "close">>, FrameOf(t)>>}
            \subseteq {Idle} \cup {<<p, FrameOf(t)>> : p \in Plans}
      BY DEF Plans
    <3>. QED BY <2>1, <3>1, ThreadTypes
  <2>3. stop' \subseteq Streams /\ outrun' \subseteq Streams BY <1>9, <2>1 DEF GiveUp
  <2>. QED BY <1>9, <2>1, <2>2, <2>3 DEF GiveUp
<1>10. ASSUME NEW t \in Threads, DropRoute(t) PROVE TypeOK'
  <2>1. /\ thread[t] # Idle /\ routes' \subseteq routes
        /\ overflow' \in {{}, overflow}
        /\ \/ thread' = [thread EXCEPT ![t] = <<<<"close">>, FrameOf(t)>>]
           \/ thread' = [thread EXCEPT ![t] = Idle]
    BY <1>10, DropFacts
  <2>2. thread' \in [Threads -> {Idle} \cup (Plans \X Frame)]
    <3>1. {Idle, <<<<"close">>, FrameOf(t)>>} \subseteq {Idle} \cup {<<p, FrameOf(t)>> : p \in Plans}
      BY DEF Plans
    <3>. QED BY <2>1, <3>1, ThreadTypes
  <2>. QED BY <1>10, <2>1, <2>2 DEF DropRoute
<1>11. ASSUME NEW t \in Threads, CloseExternalOnce(t) PROVE TypeOK'
  <2>1. /\ thread[t] # Idle /\ FrameOf(t).of \in Streams /\ once' = once \cup {FrameOf(t).of}
        /\ shut' \in {shut, shut \cup {FrameOf(t).of}} /\ crashed' \in {crashed, TRUE}
        /\ overflow' \in {{}, overflow}
        /\ \/ thread' = [thread EXCEPT ![t] = <<<<"drop">>, FrameOf(t)>>]
           \/ thread' = [thread EXCEPT ![t] = Idle]
    BY <1>11, CloseFacts
  <2>2. thread' \in [Threads -> {Idle} \cup (Plans \X Frame)]
    <3>1. {Idle, <<<<"drop">>, FrameOf(t)>>} \subseteq {Idle} \cup {<<p, FrameOf(t)>> : p \in Plans}
      BY DEF Plans
    <3>. QED BY <2>1, <3>1, ThreadTypes
  <2>. QED BY <1>11, <2>1, <2>2 DEF CloseExternalOnce
<1>12. CASE Die BY <1>12 DEF Die, Trouble, StreamsAssumption
<1>13. CASE TakeFrame
  <2>1. ingress # <<>> /\ ingress' = Tail(ingress) /\ Head(ingress) \in Frame
        /\ Tail(ingress) \in Seq(Frame) /\ Len(Tail(ingress)) = Len(ingress) - 1
    BY <1>13 DEF TakeFrame
  <2>2. Len(ingress') <= Ingress BY <2>1 DEF StreamsAssumption
  <2>3. thread' \in [Threads -> {Idle} \cup (Plans \X Frame)]
    BY <1>13, <2>1 DEF TakeFrame, LookUp, Step, Plans
  <2>. QED BY <1>13, <2>1, <2>2, <2>3 DEF TakeFrame
<1>14. CASE TakeOverflow
  <2>1. thread' \in [Threads -> {Idle} \cup (Plans \X Frame)]
    <3>1. PICK s \in Streams : LookUp("control", Other(s, "broken"))
      BY <1>14 DEF TakeOverflow
    <3>2. Other(s, "broken") \in Frame BY DEF Other, Frame
    <3>3. \E v \in {Idle} \cup (Plans \X Frame) : thread' = [thread EXCEPT !["control"] = v]
      BY <3>1, <3>2 DEF LookUp, Step, Plans
    <3>4. PICK v \in {Idle} \cup (Plans \X Frame) : thread' = [thread EXCEPT !["control"] = v]
      BY <3>3
    <3> HIDE DEF TypeOK
    <3>. QED BY <3>4, PutTypes
  <2>. QED BY <1>14, <2>1 DEF TakeOverflow
<1>15. CASE RemoveClient
  <2>1. \A t \in Affected : Other(t, "broken") \in Frame BY DEF Affected, Other, Frame
  <2>2. thread' \in [Threads -> {Idle} \cup (Plans \X Frame)]
    BY <1>15, <2>1 DEF RemoveClient, Plans
  <2>. QED BY <1>15, <2>2 DEF RemoveClient
<1>16. CASE UNCHANGED vars BY <1>16 DEF vars
<1>. QED
  BY <1>1, <1>2, <1>3, <1>4, <1>5, <1>6, <1>7, <1>8, <1>9, <1>10, <1>11, <1>12, <1>13, <1>14,
     <1>15, <1>16
  DEF Next, Thread

(***************************************************************************)
(* The ingress queue.                                                       *)
(***************************************************************************)
LEMMA RankStays ==
  ASSUME TypeOK, [Next]_vars, NEW s \in Streams, NEW k, NEW f, Sent(s, k, f)
  PROVE  Rank(f) = k /\ Rank(f)' = k /\ f.of = s
<1>1. Rank(f) = k /\ f.of = s /\ f.kind \in {"data", "close"} BY RankOfSent
<1>2. CASE f.kind = "data" BY <1>1, <1>2 DEF Rank
<1>3. CASE f.kind # "data"
  <2>1. source[s] = "over" BY <1>1, <1>3, RankOfSent
  <2>2. sent'[s] = sent[s] BY <2>1, SentStays
  <2>. QED BY <1>1, <1>3, <2>2 DEF Rank
<1>. QED BY <1>1, <1>2, <1>3

\* What is queued, one by one.
LEMMA QueuedFacts ==
  ASSUME TypeOK, QueueInv
  PROVE  /\ Len(ingress) \in Nat /\ DOMAIN ingress = 1 .. Len(ingress)
         /\ \A i \in DOMAIN ingress :
              /\ ingress[i] \in Frame /\ ingress[i].of \in Streams
              /\ Sent(ingress[i].of, Rank(ingress[i]), ingress[i])
              /\ Rank(ingress[i]) \in Nat \ {0} /\ Rank(ingress[i]) <= sent[ingress[i].of] + 1
              /\ source[ingress[i].of] # "over" => Rank(ingress[i]) <= sent[ingress[i].of]
<1>1. ingress \in Seq(Frame) BY DEF TypeOK
<1>2. Len(ingress) \in Nat /\ DOMAIN ingress = 1 .. Len(ingress) BY <1>1
<1>3. ASSUME NEW i \in DOMAIN ingress
      PROVE  /\ ingress[i] \in Frame /\ ingress[i].of \in Streams
             /\ Sent(ingress[i].of, Rank(ingress[i]), ingress[i])
             /\ Rank(ingress[i]) \in Nat \ {0} /\ Rank(ingress[i]) <= sent[ingress[i].of] + 1
             /\ source[ingress[i].of] # "over" => Rank(ingress[i]) <= sent[ingress[i].of]
  <2>1. ingress[i] \in Frame BY <1>1
  <2>2. ingress[i].of \in Streams BY <2>1 DEF Frame
  <2>3. Sent(ingress[i].of, Rank(ingress[i]), ingress[i]) BY DEF QueueInv
  <2>4. /\ Rank(ingress[i]) \in Nat \ {0} /\ Rank(ingress[i]) <= sent[ingress[i].of] + 1
        /\ source[ingress[i].of] # "over" => Rank(ingress[i]) <= sent[ingress[i].of]
    BY <2>2, <2>3, RankOfSent
  <2>. QED BY <2>1, <2>2, <2>3, <2>4
<1>. QED BY <1>2, <1>3

\* The frame that the provider sends next, and what it makes of the queue.
LEMMA SendFacts ==
  ASSUME TypeOK, QueueInv, NEW s \in Streams, SendData(s) \/ SendClose(s)
  PROVE  \E f \in Frame :
           /\ Heard /\ Queue(f) /\ f.of = s /\ Rank(f)' = sent[s] + 1 /\ Sent(s, Rank(f), f)'
           /\ source[s] = "streaming"
           /\ \A i \in DOMAIN ingress : ingress[i].of = s => Rank(ingress[i]) <= sent[s]
           /\ \A u \in Streams \ {s} : sent'[u] = sent[u] /\ source'[u] = source[u]
           /\ UNCHANGED <<thread, routes, shut, once, chan, got, client, invoke, process, answered,
                          stop, crashed>>
<1>0. /\ sent \in [Streams -> 0 .. MaxData] /\ MaxData \in Nat /\ sent[s] \in Nat
      /\ source \in [Streams -> {"no", "streaming", "over"}]
  BY StreamsAssumption DEF TypeOK, StreamsAssumption
<1>1. source[s] = "streaming" BY DEF SendData, SendClose
<1>2. \A i \in DOMAIN ingress : ingress[i].of = s => Rank(ingress[i]) <= sent[s]
  BY <1>1, QueuedFacts
<1>3. CASE SendData(s)
  <2>0. PICK f : f = Data(s, sent[s] + 1) OBVIOUS
  <2>1. Heard /\ Queue(f) BY <1>3, <2>0 DEF SendData
  <2>2. f \in Frame /\ f.of = s /\ f.kind = "data" /\ f.n = sent[s] + 1
    BY <1>0, <2>0 DEF Data, Frame
  <2>3. sent'[s] = sent[s] + 1 BY <1>0, <1>3 DEF SendData
  <2>4. Rank(f)' = sent[s] + 1 BY <2>2 DEF Rank
  <2>5. Sent(s, Rank(f), f)' BY <1>0, <2>0, <2>3, <2>4 DEF Sent
  <2>6. \A u \in Streams \ {s} : sent'[u] = sent[u] /\ source'[u] = source[u]
    BY <1>0, <1>3 DEF SendData
  <2>. QED BY <1>1, <1>2, <1>3, <2>1, <2>2, <2>4, <2>5, <2>6 DEF SendData, channels, gateway
<1>4. CASE SendClose(s)
  <2> DEFINE f == Other(s, "close")
  <2>1. Heard /\ Queue(f) BY <1>4 DEF SendClose
  <2>2. f \in Frame /\ f.of = s /\ f.kind = "close" BY DEF Other, Frame
  <2>3. sent'[s] = sent[s] /\ source'[s] = "over" BY <1>0, <1>4 DEF SendClose
  <2>4. Rank(f)' = sent[s] + 1 BY <2>2, <2>3 DEF Rank
  <2>5. Sent(s, Rank(f), f)' BY <2>3, <2>4 DEF Sent
  <2>6. \A u \in Streams \ {s} : sent'[u] = sent[u] /\ source'[u] = source[u]
    BY <1>0, <1>4 DEF SendClose
  <2> HIDE DEF f
  <2>. QED BY <1>1, <1>2, <1>4, <2>1, <2>2, <2>4, <2>5, <2>6 DEF SendClose, channels, gateway
<1>. QED BY <1>3, <1>4

\* A frame that has been sent, in a later state.
LEMMA FrameStays ==
  ASSUME TypeOK, [Next]_vars, NEW f \in Frame, Sent(f.of, Rank(f), f)
  PROVE  Sent(f.of, Rank(f), f)' /\ Rank(f)' = Rank(f)
<1>1. f.of \in Streams BY DEF Frame
<1>2. PICK k : k = Rank(f) OBVIOUS
<1>3. Sent(f.of, k, f)' /\ Rank(f)' = k BY <1>1, <1>2, RankStays, SentStays
<1>. QED BY <1>2, <1>3

\* The queue when a frame joins it.
LEMMA QueueGrows ==
  ASSUME TypeOK, NEW f \in Frame, Queue(f)
  PROVE  \/ /\ Len(ingress) < Ingress /\ UNCHANGED <<overflow, dropped>>
            /\ Len(ingress') = Len(ingress) + 1 /\ DOMAIN ingress' = 1 .. Len(ingress) + 1
            /\ DOMAIN ingress = 1 .. Len(ingress)
            /\ ingress'[Len(ingress) + 1] = f
            /\ \A i \in DOMAIN ingress : i \in DOMAIN ingress' /\ ingress'[i] = ingress[i]
         \/ UNCHANGED ingress /\ overflow' = {f.of} /\ dropped' = dropped \cup {f.of}
<1>1. ingress \in Seq(Frame) BY DEF TypeOK
<1>2. CASE Len(ingress) < Ingress
  <2>1. ingress' = Append(ingress, f) /\ UNCHANGED <<overflow, dropped>> BY <1>2 DEF Queue
  <2>. QED BY <1>1, <1>2, <2>1
<1>3. CASE ~ (Len(ingress) < Ingress) BY <1>3 DEF Queue
<1>. QED BY <1>2, <1>3

\* Every step keeps the queue in the order its frames were sent in.
LEMMA StepKeepsQueue ==
  ASSUME StreamsAssumption, TypeOK, QueueInv, [Next]_vars
  PROVE  QueueInv'
<1>1. ASSUME NEW i \in DOMAIN ingress, NEW f, f = ingress[i]
      PROVE  Sent(f.of, Rank(f), f)' /\ Rank(f)' = Rank(f) /\ f \in Frame
  <2>1. f \in Frame /\ Sent(f.of, Rank(f), f) BY <1>1, QueuedFacts
  <2>. QED BY <2>1, FrameStays
<1>2. CASE UNCHANGED ingress
  BY <1>1, <1>2 DEF QueueInv
<1>3. CASE TakeFrame
  <2>1. /\ ingress \in Seq(Frame) /\ ingress # <<>> /\ ingress' = Tail(ingress)
        /\ DOMAIN ingress = 1 .. Len(ingress) /\ Len(ingress) \in Nat
    BY <1>3, QueuedFacts DEF TakeFrame, TypeOK
  <2>2. \A i \in DOMAIN ingress' : i \in Nat /\ i + 1 \in DOMAIN ingress /\ ingress'[i] = ingress[i + 1]
    BY <2>1
  <2>3. ASSUME NEW i \in DOMAIN ingress'
        PROVE  /\ Sent(ingress[i].of, Rank(ingress[i]), ingress[i])'
               /\ Rank(ingress[i])' = Rank(ingress[i + 1])
    <3>1. PICK f : f = ingress'[i] OBVIOUS
    <3>2. f = ingress[i + 1] /\ i + 1 \in DOMAIN ingress BY <2>2, <3>1
    <3>3. Sent(f.of, Rank(f), f)' /\ Rank(f)' = Rank(f) BY <1>1, <3>2
    <3>. QED BY <3>1, <3>2, <3>3 DEF Sent, Rank
  <2>. QED BY <2>2, <2>3 DEF QueueInv
<1>4. CASE \E s \in Streams : SendData(s) \/ SendClose(s)
  <2>1. PICK s \in Streams : SendData(s) \/ SendClose(s) BY <1>4
  <2>2. PICK f \in Frame :
           /\ Queue(f) /\ f.of = s /\ Rank(f)' = sent[s] + 1 /\ Sent(s, Rank(f), f)'
           /\ \A i \in DOMAIN ingress : ingress[i].of = s => Rank(ingress[i]) <= sent[s]
    BY <2>1, SendFacts
  <2>3. CASE UNCHANGED ingress BY <1>2, <2>3
  <2>4. CASE ~ UNCHANGED ingress
    <3>1. /\ DOMAIN ingress' = 1 .. Len(ingress) + 1 /\ DOMAIN ingress = 1 .. Len(ingress)
          /\ ingress'[Len(ingress) + 1] = f
          /\ \A i \in DOMAIN ingress : ingress'[i] = ingress[i]
      BY <2>2, <2>4, QueueGrows
    <3>2. Len(ingress) \in Nat /\ sent[s] \in Nat
      BY QueuedFacts, StreamsAssumption DEF TypeOK, StreamsAssumption
    <3>3. ASSUME NEW i \in DOMAIN ingress'
          PROVE  Sent(ingress[i].of, Rank(ingress[i]), ingress[i])'
      <4>1. CASE i \in DOMAIN ingress
        <5>1. PICK g : g = ingress[i] OBVIOUS
        <5>2. Sent(g.of, Rank(g), g)' BY <1>1, <4>1, <5>1
        <5>. QED BY <3>1, <4>1, <5>1, <5>2 DEF Sent, Rank
      <4>2. CASE i = Len(ingress) + 1
        BY <2>2, <3>1, <4>2 DEF Sent, Rank
      <4>. QED BY <3>1, <3>2, <4>1, <4>2
    <3>4. ASSUME NEW i \in DOMAIN ingress', NEW j \in DOMAIN ingress', i < j,
                 ingress'[i].of = ingress'[j].of
          PROVE  Rank(ingress[i])' < Rank(ingress[j])'
      <4>1. i \in DOMAIN ingress /\ ingress'[i] = ingress[i] BY <3>1, <3>2, <3>4
      <4>2. Rank(ingress[i])' = Rank(ingress[i])
        <5>1. PICK g : g = ingress[i] OBVIOUS
        <5>2. Rank(g)' = Rank(g) BY <1>1, <4>1, <5>1
        <5>. QED BY <4>1, <5>1, <5>2 DEF Rank
      <4>3. CASE j \in DOMAIN ingress
        <5>1. Rank(ingress[j])' = Rank(ingress[j])
          <6>1. PICK g : g = ingress[j] OBVIOUS
          <6>2. Rank(g)' = Rank(g) BY <1>1, <4>3, <6>1
          <6>. QED BY <3>1, <4>3, <6>1, <6>2 DEF Rank
        <5>2. Rank(ingress[i]) < Rank(ingress[j])
          BY <3>1, <3>4, <4>1, <4>3 DEF QueueInv
        <5>. QED BY <4>2, <5>1, <5>2
      <4>4. CASE j = Len(ingress) + 1
        <5>1. Rank(ingress[j])' = sent[s] + 1 BY <2>2, <3>1, <4>4 DEF Rank
        <5>2. Rank(ingress[i]) <= sent[s] /\ Rank(ingress[i]) \in Nat
          BY <2>2, <3>1, <3>4, <4>1, <4>4, QueuedFacts
        <5>. QED BY <3>2, <4>2, <5>1, <5>2
      <4>. QED BY <3>1, <3>2, <4>3, <4>4
    <3>. QED BY <3>3, <3>4 DEF QueueInv
  <2>. QED BY <2>3, <2>4
<1>. QED
  BY <1>2, <1>3, <1>4
  DEF Next, Thread, vars, Request, RefuseEarly, RefuseKind, InvokeFails, OpenStream, Answer, Reject,
      Receive, SeeEnd, ClientCancel, Disconnect, LoseAnswer, Die,
      TakeOverflow, RemoveClient, Deliver, GiveUp, DropRoute, CloseExternalOnce

(***************************************************************************)
(* The goroutines, and how far a stream has come.                           *)
(***************************************************************************)
\* Who changes what a goroutine has at hand.
LEMMA ThreadMoves ==
  ASSUME TypeOK, ThreadInv, [Next]_vars, NEW t \in Threads
  PROVE  \/ thread'[t] = thread[t]
         \/ Thread(t)
         \/ t = "events" /\ TakeFrame
         \/ t = "control" /\ TakeOverflow
         \/ RemoveClient /\ t \in routes
<1>0. thread \in [Threads -> {Idle} \cup (Plans \X Frame)] BY DEF TypeOK
<1>1. ASSUME NEW u \in Threads, Thread(u), u # t PROVE thread'[t] = thread[t]
  <2>1. CASE Deliver(u) BY <1>0, <1>1, <2>1, DeliverFacts
  <2>2. CASE GiveUp(u) BY <1>0, <1>1, <2>2, GiveUpFacts
  <2>3. CASE DropRoute(u) BY <1>0, <1>1, <2>3, DropFacts
  <2>4. CASE CloseExternalOnce(u)
    <3>1. \E v : thread' = [thread EXCEPT ![u] = v] BY <2>4, CloseFacts
    <3>. QED BY <1>0, <1>1, <3>1
  <2>. QED BY <1>1, <2>1, <2>2, <2>3, <2>4 DEF Thread
<1>2. CASE TakeFrame BY <1>0, <1>2 DEF TakeFrame, LookUp, Step
<1>3. CASE TakeOverflow BY <1>0, <1>3 DEF TakeOverflow, LookUp, Step
<1>4. CASE RemoveClient BY <1>4 DEF RemoveClient, Affected
<1>. QED
  BY <1>1, <1>2, <1>3, <1>4
  DEF Next, vars, Request, RefuseEarly, RefuseKind, InvokeFails, OpenStream, Answer, Reject,
      SendData, SendClose, Receive, SeeEnd, ClientCancel, Disconnect, LoseAnswer, Die

\* What the removal of a provider, and a frame taken, give to a goroutine.
LEMMA TakeFacts ==
  ASSUME TypeOK, TakeFrame
  PROVE  LET f == Head(ingress) IN
         /\ thread["events"] = Idle /\ ingress # <<>> /\ f = ingress[1] /\ 1 \in DOMAIN ingress
         /\ f.of \in routes => thread' = [thread EXCEPT !["events"] = <<<<"deliver">>, f>>]
         /\ f.of \notin routes => thread' = [thread EXCEPT !["events"] = Idle]
         /\ \A i \in DOMAIN ingress' :
              i \in Nat /\ i + 1 \in DOMAIN ingress /\ ingress'[i] = ingress[i + 1] /\ 1 < i + 1
         /\ \A i \in DOMAIN ingress : i > 1 => i - 1 \in DOMAIN ingress' /\ ingress'[i - 1] = ingress[i]
<1>1. /\ ingress \in Seq(Frame) /\ ingress # <<>> /\ ingress' = Tail(ingress)
      /\ thread["events"] = Idle
      /\ LookUp("events", Head(ingress))
  BY DEF TakeFrame, TypeOK
<1>2. <<"deliver">> # <<>> OBVIOUS
<1>3. /\ Head(ingress).of \in routes =>
           thread' = [thread EXCEPT !["events"] = <<<<"deliver">>, Head(ingress)>>]
      /\ Head(ingress).of \notin routes => thread' = [thread EXCEPT !["events"] = Idle]
  BY <1>1, <1>2 DEF LookUp, Step
<1>4. Len(ingress) \in Nat \ {0} /\ DOMAIN ingress = 1 .. Len(ingress) /\ Head(ingress) = ingress[1]
  BY <1>1
<1>5. DOMAIN ingress' = 1 .. Len(ingress) - 1
      /\ \A i \in 1 .. Len(ingress) - 1 : ingress'[i] = ingress[i + 1]
  BY <1>1, <1>4
<1>. QED BY <1>1, <1>3, <1>4, <1>5

\* The control loop takes the made-up close there is.
LEMMA OverflowFacts ==
  ASSUME TypeOK, TakeOverflow
  PROVE  \E s \in Streams :
           /\ thread["control"] = Idle /\ overflow = {s}
           /\ s \in routes => /\ thread' = [thread EXCEPT !["control"] =
                                    <<<<"deliver">>, Other(s, "broken")>>]
                              /\ overflow' = overflow
           /\ s \notin routes => thread' = [thread EXCEPT !["control"] = Idle] /\ overflow' = {}
<1>1. PICK s \in overflow : /\ LookUp("control", Other(s, "broken"))
                            /\ overflow' = IF s \in routes THEN overflow ELSE {}
  BY DEF TakeOverflow
<1>2. overflow = {s} /\ s \in Streams BY <1>1 DEF TypeOK
<1>3. <<"deliver">> # <<>> OBVIOUS
<1>4. Other(s, "broken").of = s BY DEF Other
<1>. QED BY <1>1, <1>2, <1>3, <1>4 DEF LookUp, Step, TakeOverflow

\* What the ingress loop holds stays ahead of what is queued.
LEMMA EventsKeep ==
  ASSUME StreamsAssumption, TypeOK, QueueInv, ThreadInv, StageInv, [Next]_vars, TypeOK',
         thread["events"] # Idle, NEW f, f = FrameOf("events"), thread'["events"] # Idle,
         FrameOf("events")' = f,
         Plan("events")' \in {<<"close", "drop">>, <<"drop">>} => f.kind = "close",
         Plan("events")' = <<"close">> => f.of \notin routes'
  PROVE  EventsHold(f)'
<1>0. f \in Frame /\ f.of \in Streams BY Loops, BusyFacts
<1>1. /\ Sent(f.of, Rank(f), f) /\ \A i \in DOMAIN ingress : ingress[i].of = f.of => Rank(f) < Rank(ingress[i])
  BY DEF ThreadInv, EventsHold
<1>2. Sent(f.of, Rank(f), f)' /\ Rank(f)' = Rank(f) BY <1>0, <1>1, FrameStays
<1>3. ASSUME NEW i \in DOMAIN ingress, NEW g, g = ingress[i]
      PROVE  Rank(g)' = Rank(g)
  <2>1. g \in Frame /\ Sent(g.of, Rank(g), g) BY <1>3, QueuedFacts
  <2>. QED BY <2>1, FrameStays
<1>4. \A i \in DOMAIN ingress' : ingress'[i].of = f.of => Rank(f)' < Rank(ingress[i])'
  <2>1. CASE UNCHANGED ingress
    <3> SUFFICES ASSUME NEW i \in DOMAIN ingress, ingress[i].of = f.of
                 PROVE  Rank(f)' < Rank(ingress[i])'
      BY <2>1
    <3>1. PICK g : g = ingress[i] OBVIOUS
    <3>2. Rank(g)' = Rank(g) /\ Rank(f) < Rank(g) BY <1>1, <1>3, <3>1
    <3>3. Rank(ingress[i])' = Rank(g)' BY <2>1, <3>1 DEF Rank
    <3>. QED BY <1>2, <3>2, <3>3
  <2>2. CASE \E s \in Streams : SendData(s) \/ SendClose(s)
    <3>1. PICK s \in Streams : SendData(s) \/ SendClose(s) BY <2>2
    <3>2. PICK g \in Frame :
            /\ Queue(g) /\ g.of = s /\ Rank(g)' = sent[s] + 1 /\ source[s] = "streaming"
      BY <3>1, SendFacts
    <3> SUFFICES ASSUME NEW i \in DOMAIN ingress', ingress'[i].of = f.of, ~ UNCHANGED ingress
                 PROVE  Rank(f)' < Rank(ingress[i])'
      BY <2>1
    <3>3. CASE i \in DOMAIN ingress /\ ingress'[i] = ingress[i]
      <4>1. PICK h : h = ingress[i] OBVIOUS
      <4>2. Rank(h)' = Rank(h) /\ Rank(f) < Rank(h) BY <1>1, <1>3, <3>3, <4>1
      <4>3. Rank(ingress[i])' = Rank(h)' BY <3>3, <4>1 DEF Rank
      <4>. QED BY <1>2, <4>2, <4>3
    <3>4. CASE ingress'[i] = g
      <4>1. f.of = s BY <3>2, <3>4
      <4>2. Rank(f) \in Nat /\ sent[s] \in Nat /\ Rank(f) <= sent[s]
        <5>1. f.kind # "close" BY <1>1, <3>2, <4>1, RankOfSent
        <5>2. f.kind = "data" /\ Rank(f) <= sent[f.of] /\ Rank(f) \in Nat
          BY <1>0, <1>1, <5>1, RankOfSent
        <5>3. sent[s] \in Nat BY StreamsAssumption DEF TypeOK, StreamsAssumption
        <5>. QED BY <4>1, <5>2, <5>3
      <4>3. Rank(ingress[i])' = Rank(g)' BY <3>4 DEF Rank
      <4>. QED BY <1>2, <3>2, <4>2, <4>3
    <3>5. (i \in DOMAIN ingress /\ ingress'[i] = ingress[i]) \/ ingress'[i] = g
      <4>1. Len(ingress) \in Nat BY QueuedFacts
      <4>. QED BY <3>2, <4>1, QueueGrows
    <3>. QED BY <3>3, <3>4, <3>5
  <2>. QED
    BY <2>1, <2>2
    DEF Next, Thread, vars, Request, RefuseEarly, RefuseKind, InvokeFails, OpenStream, Answer,
        Reject, Receive, SeeEnd, ClientCancel, Disconnect, LoseAnswer, Die, TakeFrame, TakeOverflow,
        RemoveClient, Deliver, GiveUp, DropRoute, CloseExternalOnce
<1>. QED BY <1>2, <1>4 DEF EventsHold

\* The frame at hand in a goroutine that takes a step of its plan, and the plan after it.
LEMMA StepFacts ==
  ASSUME TypeOK, ThreadInv, NEW t \in Threads, Thread(t)
  PROVE  /\ thread[t] # Idle /\ FrameOf(t).of \in Streams /\ Plan(t) \in Plans
         /\ thread \in [Threads -> {Idle} \cup (Plans \X Frame)]
         /\ UNCHANGED <<ingress, source, sent, answered, invoke, client, got, process, dropped>>
         /\ routes' \subseteq routes
         /\ \/ thread'[t] = Idle /\ overflow' = IF t = "control" THEN {} ELSE overflow
            \/ /\ thread'[t] # Idle /\ FrameOf(t)' = FrameOf(t) /\ overflow' = overflow
               /\ \/ Plan(t) = <<"deliver">> /\ Plan(t)' = Plan(t)
                  \/ /\ Plan(t) = <<"deliver">> /\ t \in Streams /\ Plan(t)' = <<"close">>
                  \/ /\ Plan(t) = <<"deliver">> /\ t \notin Streams
                     /\ \/ Plan(t)' = <<"close", "drop">> /\ FrameOf(t).kind # "data"
                        \/ Plan(t)' = <<"drop", "close">>
                  \/ Plan(t) = <<"drop", "close">> /\ Plan(t)' = <<"close">>
                     /\ routes' = routes \ {FrameOf(t).of}
                  \/ Plan(t) = <<"close", "drop">> /\ Plan(t)' = <<"drop">>
<1>0. thread \in [Threads -> {Idle} \cup (Plans \X Frame)] BY DEF TypeOK
<1>1. /\ thread[t] # Idle /\ FrameOf(t).of \in Streams /\ Plan(t) \in Plans
      /\ UNCHANGED <<ingress, source, sent, answered, invoke, client, got, process, dropped>>
      /\ routes' \subseteq routes
  <2>1. thread[t] # Idle
    BY DEF Thread, Deliver, GiveUp, DropRoute, CloseExternalOnce, Doing
  <2>2. UNCHANGED <<ingress, source, sent, answered, invoke, client, got, process, dropped>>
    BY DEF Thread, Deliver, GiveUp, DropRoute, CloseExternalOnce, provider, gateway, notes
  <2>3. routes' \subseteq routes
    BY DEF Thread, Deliver, GiveUp, DropRoute, CloseExternalOnce, provider, gateway, notes
  <2>. QED BY <2>1, <2>2, <2>3, BusyFacts
<1> DEFINE f == FrameOf(t)
<1>2. ASSUME NEW p \in Plans, thread' = [thread EXCEPT ![t] = <<p, f>>]
      PROVE  thread'[t] # Idle /\ FrameOf(t)' = f /\ Plan(t)' = p
  BY <1>0, <1>2 DEF FrameOf, Plan, Idle
<1>3. thread' = [thread EXCEPT ![t] = Idle] => thread'[t] = Idle BY <1>0
<1>4. {<<"deliver">>, <<"close">>, <<"drop">>, <<"drop", "close">>, <<"close", "drop">>} \subseteq Plans
  BY DEF Plans
<1>5. CASE Deliver(t)
  <2>1. CASE thread' = thread /\ crashed'
    <3>1. overflow' = overflow /\ Plan(t) = <<"deliver">> BY <1>5, DeliverFacts
    <3>2. FrameOf(t)' = FrameOf(t) /\ Plan(t)' = Plan(t) /\ thread'[t] = thread[t]
      BY <2>1 DEF FrameOf, Plan
    <3>. QED BY <1>0, <1>1, <3>1, <3>2
  <2>2. CASE thread' = [thread EXCEPT ![t] =
                    IF t \in Streams THEN <<<<"close">>, f>>
                    ELSE IF f.kind = "data" THEN Idle ELSE <<<<"close", "drop">>, f>>]
    <3>1. Plan(t) = <<"deliver">> /\ overflow' = overflow BY <1>5, DeliverFacts
    <3>2. CASE t \in Streams BY <1>0, <1>1, <1>2, <1>4, <2>2, <3>1, <3>2
    <3>3. CASE t \notin Streams /\ f.kind = "data"
      <4>1. t # "control" BY <1>1, <3>3 DEF ThreadInv
      <4>. QED BY <1>0, <1>1, <1>3, <2>2, <3>1, <3>3, <4>1
    <3>4. CASE t \notin Streams /\ f.kind # "data"
      BY <1>0, <1>1, <1>2, <1>4, <2>2, <3>1, <3>4
    <3>. QED BY <3>2, <3>3, <3>4
  <2>. QED BY <1>5, <2>1, <2>2, DeliverFacts
<1>6. CASE GiveUp(t)
  <2>1. Plan(t) = <<"deliver">> /\ overflow' = overflow
        /\ thread' = [thread EXCEPT ![t] =
              IF t \in Streams THEN <<<<"close">>, f>> ELSE <<<<"drop", "close">>, f>>]
    BY <1>6, GiveUpFacts
  <2>2. CASE t \in Streams BY <1>0, <1>1, <1>2, <1>4, <2>1, <2>2
  <2>3. CASE t \notin Streams BY <1>0, <1>1, <1>2, <1>4, <2>1, <2>3
  <2>. QED BY <2>2, <2>3
<1>7. CASE DropRoute(t) BY <1>0, <1>1, <1>2, <1>3, <1>4, <1>7, DropFacts
<1>8. CASE CloseExternalOnce(t) BY <1>0, <1>1, <1>2, <1>3, <1>4, <1>8, CloseFacts
<1>. QED BY <1>5, <1>6, <1>7, <1>8 DEF Thread

\* A stream that is not asked for yet is in nobody's hands, and has sent nothing.
LEMMA AskedFacts ==
  ASSUME TypeOK, QueueInv, ThreadInv, StageInv, NEW s \in Streams
  PROVE  /\ source[s] # "no" => invoke[s] \notin {"no", "refused", "mismatch"}
         /\ Queued(s) \/ (\E t \in Threads : Busy(t, s)) \/ s \in routes \cup once \cup overflow
              => invoke[s] \notin {"no", "refused", "mismatch"}
         /\ Queued(s) => source[s] # "no"
<1>1. ASSUME NEW i \in DOMAIN ingress, ingress[i].of = s PROVE source[s] # "no"
  <2>1. sent[s] \in Nat BY StreamsAssumption DEF TypeOK, StreamsAssumption
  <2>2. Rank(ingress[i]) \in Nat \ {0} /\ (source[s] # "over" => Rank(ingress[i]) <= sent[s])
    BY <1>1, QueuedFacts
  <2>. QED BY <2>1, <2>2 DEF StageInv
<1>. QED BY <1>1 DEF StageInv, Queued

\* Every step keeps what the goroutines have at hand.
LEMMA StepKeepsThreads ==
  ASSUME StreamsAssumption, TypeOK, QueueInv, ThreadInv, StageInv, [Next]_vars, TypeOK'
  PROVE  ThreadInv'
<1>0. thread \in [Threads -> {Idle} \cup (Plans \X Frame)] BY DEF TypeOK
<1>1. ASSUME thread'["events"] # Idle PROVE EventsHold(FrameOf("events"))'
  <2>1. CASE thread'["events"] = thread["events"]
    <3>1. PICK f : f = FrameOf("events") OBVIOUS
    <3>2. FrameOf("events")' = f /\ Plan("events")' = Plan("events") BY <2>1, <3>1 DEF FrameOf, Plan
    <3>3. f.of \in Streams /\ Busy("events", f.of) BY <1>1, <2>1, <3>1, Loops, BusyFacts DEF Busy
    <3>4. Plan("events")' = <<"close">> => f.of \notin routes'
      <4>1. f.of \notin routes' \/ f.of \in routes \/ Request(f.of)
        BY <3>3
        DEF Next, Thread, vars, Request, RefuseEarly, RefuseKind, InvokeFails, OpenStream, Answer,
            Reject, SendData, SendClose, Receive, SeeEnd, ClientCancel, Disconnect, LoseAnswer, Die,
            TakeFrame, TakeOverflow, RemoveClient, Deliver, GiveUp, DropRoute, CloseExternalOnce
      <4>2. ~ Request(f.of) BY <3>3, Loops DEF StageInv, Request
      <4>. QED BY <1>1, <2>1, <3>1, <3>2, <4>1, <4>2 DEF ThreadInv, EventsHold
    <3>5. EventsHold(f)'
      BY <1>1, <2>1, <3>1, <3>2, <3>4, EventsKeep DEF ThreadInv, EventsHold
    <3>. QED BY <3>2, <3>5 DEF EventsHold, Sent, Rank, Plan
  <2>2. CASE Thread("events")
    <3>1. PICK f : f = FrameOf("events") OBVIOUS
    <3>2. thread["events"] # Idle /\ FrameOf("events")' = f
      BY <1>1, <2>2, <3>1, Loops, StepFacts
    <3>3. Plan("events")' \in {<<"close", "drop">>, <<"drop">>} => f.kind = "close"
      <4>1. Plan("events") \in {<<"close", "drop">>, <<"drop">>} => f.kind = "close"
        BY <3>1, <3>2 DEF ThreadInv, EventsHold
      <4>2. f.kind # "data" => f.kind = "close"
        <5>1. Sent(f.of, Rank(f), f) /\ f.of \in Streams
          BY <3>1, <3>2, Loops, BusyFacts DEF ThreadInv, EventsHold
        <5>. QED BY <5>1, RankOfSent
      <4>. QED BY <1>1, <2>2, <3>1, <4>1, <4>2, Loops, PlanFacts, StepFacts
    <3>4. Plan("events")' = <<"close">> => f.of \notin routes'
      BY <1>1, <2>2, <3>1, Loops, PlanFacts, StepFacts
    <3>5. EventsHold(f)' BY <1>1, <3>1, <3>2, <3>3, <3>4, EventsKeep
    <3>. QED BY <3>2, <3>5 DEF EventsHold, Sent, Rank, Plan
  <2>3. CASE TakeFrame
    <3>1. PICK f : f = Head(ingress) OBVIOUS
    <3>2. f = ingress[1] /\ 1 \in DOMAIN ingress
          /\ thread' = [thread EXCEPT !["events"] = <<<<"deliver">>, f>>]
      BY <1>0, <1>1, <2>3, <3>1, Loops, TakeFacts
    <3>3. f \in Frame /\ Sent(f.of, Rank(f), f) BY <3>2, QueuedFacts
    <3>4. Sent(f.of, Rank(f), f)' /\ Rank(f)' = Rank(f) BY <3>3, FrameStays
    <3>5. FrameOf("events")' = f /\ Plan("events")' = <<"deliver">>
      BY <1>0, <3>2, Loops DEF FrameOf, Plan
    <3>6. ASSUME NEW i \in DOMAIN ingress', ingress'[i].of = f.of
          PROVE  Rank(f)' < Rank(ingress[i])'
      <4>1. PICK g : g = ingress[i + 1] OBVIOUS
      <4>2. /\ i + 1 \in DOMAIN ingress /\ 1 < i + 1 /\ ingress'[i] = g
        BY <2>3, <4>1, TakeFacts
      <4>3. Rank(f) < Rank(g) BY <3>2, <3>6, <4>1, <4>2 DEF QueueInv
      <4>4. g \in Frame /\ Sent(g.of, Rank(g), g) BY <4>1, <4>2, QueuedFacts
      <4>5. Rank(g)' = Rank(g) BY <4>4, FrameStays
      <4>. QED BY <3>4, <4>2, <4>3, <4>5 DEF Rank
    <3>. QED BY <3>4, <3>5, <3>6, PlanFacts DEF EventsHold, Sent, Rank, Plan
  <2>4. ~ (RemoveClient /\ "events" \in routes) BY Loops DEF TypeOK
  <2>. QED BY <2>1, <2>2, <2>3, <2>4, Loops, ThreadMoves
<1>2. ASSUME thread'["control"] # Idle
      PROVE  FrameOf("control")'.kind = "broken" /\ overflow' = {FrameOf("control")'.of}
  <2>1. CASE thread'["control"] = thread["control"]
    <3>1. FrameOf("control")' = FrameOf("control") BY <2>1 DEF FrameOf
    <3>2. FrameOf("control").kind = "broken" /\ overflow = {FrameOf("control").of}
      BY <1>2, <2>1 DEF ThreadInv
    <3>3. overflow' = overflow
      <4>1. CASE \E t \in Threads : Thread(t)
        <5>1. PICK t \in Threads : Thread(t) BY <4>1
        <5>. QED BY <1>2, <5>1, StepFacts
      <4>2. CASE \E s \in Streams : SendData(s) \/ SendClose(s)
        BY <3>2, <4>2 DEF SendData, SendClose, Heard
      <4>3. CASE TakeOverflow BY <1>2, <2>1, <4>3 DEF TakeOverflow
      <4>. QED
        BY <4>1, <4>2, <4>3
        DEF Next, vars, Request, RefuseEarly, RefuseKind, InvokeFails, OpenStream, Answer, Reject,
            Receive, SeeEnd, ClientCancel, Disconnect, LoseAnswer, Die, TakeFrame, RemoveClient
    <3>. QED BY <3>1, <3>2, <3>3
  <2>2. CASE Thread("control")
    <3>1. FrameOf("control")' = FrameOf("control") /\ overflow' = overflow
          /\ thread["control"] # Idle
      BY <1>2, <2>2, Loops, StepFacts
    <3>. QED BY <3>1 DEF ThreadInv
  <2>3. CASE TakeOverflow
    <3>1. PICK s \in Streams :
            /\ overflow = {s} /\ overflow' = overflow
            /\ thread' = [thread EXCEPT !["control"] = <<<<"deliver">>, Other(s, "broken")>>]
      BY <1>0, <1>2, <2>3, Loops, OverflowFacts
    <3>2. FrameOf("control")' = Other(s, "broken") BY <1>0, <3>1, Loops DEF FrameOf
    <3>. QED BY <3>1, <3>2 DEF Other
  <2>4. ~ (RemoveClient /\ "control" \in routes) BY Loops DEF TypeOK
  <2>. QED BY <2>1, <2>2, <2>3, <2>4, Loops, ThreadMoves
<1>3. ASSUME NEW t \in Streams, thread'[t] # Idle
      PROVE  /\ FrameOf(t)' = Other(t, "broken") /\ process' = "removed"
             /\ Plan(t)' \in {<<"deliver">>, <<"close">>}
  <2>0. t \in Threads /\ t # "events" /\ t # "control" BY Loops
  <2>1. CASE thread'[t] = thread[t]
    <3>1. FrameOf(t)' = FrameOf(t) /\ Plan(t)' = Plan(t) BY <2>1 DEF FrameOf, Plan
    <3>2. FrameOf(t) = Other(t, "broken") /\ process = "removed"
          /\ Plan(t) \in {<<"deliver">>, <<"close">>}
      BY <1>3, <2>1 DEF ThreadInv
    <3>3. process' = process
      BY <3>2
      DEF Next, Thread, vars, Request, RefuseEarly, RefuseKind, InvokeFails, OpenStream, Answer,
          Reject, SendData, SendClose, Receive, SeeEnd, ClientCancel, Disconnect, LoseAnswer, Die,
          TakeFrame, TakeOverflow, RemoveClient, Deliver, GiveUp, DropRoute, CloseExternalOnce
    <3>. QED BY <3>1, <3>2, <3>3
  <2>2. CASE Thread(t)
    <3>1. FrameOf(t)' = FrameOf(t) /\ process' = process /\ thread[t] # Idle
      BY <1>3, <2>0, <2>2, StepFacts
    <3>2. FrameOf(t) = Other(t, "broken") /\ process = "removed"
          /\ Plan(t) \in {<<"deliver">>, <<"close">>}
      BY <3>1 DEF ThreadInv
    <3>3. Plan(t)' \in {<<"deliver">>, <<"close">>}
      BY <1>3, <2>0, <2>2, <3>2, PlanFacts, StepFacts
    <3>. QED BY <3>1, <3>2, <3>3
  <2>3. CASE RemoveClient /\ t \in routes
    <3>1. thread'[t] = <<<<"deliver">>, Other(t, "broken")>> /\ process' = "removed"
      BY <2>0, <2>3 DEF RemoveClient, Affected
    <3>. QED BY <3>1 DEF FrameOf, Plan
  <2>. QED BY <2>0, <2>1, <2>2, <2>3, ThreadMoves
<1>4. ASSUME process' = "removed" PROVE routes' = {}
  <2>1. CASE RemoveClient BY <2>1 DEF RemoveClient
  <2>2. CASE process = "removed"
    <3>1. CASE \E t \in Threads : Thread(t) BY <2>2, <3>1, StepFacts DEF ThreadInv
    <3>2. CASE UNCHANGED routes BY <2>2, <3>2 DEF ThreadInv
    <3>. QED
      BY <1>4, <2>1, <2>2, <3>1, <3>2
      DEF Next, vars, Request, RefuseEarly, RefuseKind, InvokeFails, OpenStream, Answer, Reject,
          SendData, SendClose, Receive, SeeEnd, ClientCancel, Disconnect, LoseAnswer, Die,
          TakeFrame, TakeOverflow
  <2>. QED
    BY <1>4, <2>1, <2>2
    DEF Next, Thread, vars, Request, RefuseEarly, RefuseKind, InvokeFails, OpenStream, Answer,
        Reject, SendData, SendClose, Receive, SeeEnd, ClientCancel, Disconnect, LoseAnswer, Die,
        TakeFrame, TakeOverflow, Deliver, GiveUp, DropRoute, CloseExternalOnce
<1>. QED BY <1>1, <1>2, <1>3, <1>4, Zenon DEF ThreadInv

\* Every step keeps how far a stream can have come.
LEMMA StepKeepsStages ==
  ASSUME StreamsAssumption, TypeOK, QueueInv, ThreadInv, StageInv, [Next]_vars, TypeOK', ThreadInv'
  PROVE  StageInv'
<1> SUFFICES ASSUME NEW s \in Streams
             PROVE
    /\ source'[s] = "no" => sent'[s] = 0 /\ s \notin answered'
    /\ invoke'[s] \in {"no", "refused", "mismatch"} =>
         /\ source'[s] = "no" /\ got'[s] = <<>> /\ chan'[s] = <<>>
         /\ s \notin routes' \cup once' \cup overflow' /\ \A t \in Threads : ~ Busy(t, s)'
    /\ invoke'[s] \in {"no", "mismatch"} => s \notin shut'
    /\ invoke'[s] = "calling" => s \notin answered'
    /\ client'[s] # "reading" => invoke'[s] \in {"accepted", "error", "mismatch"}
    /\ client'[s] = "done" => s \in shut'
    /\ client'[s] \in {"gone", "lost"} => s \in Wedgeable
  BY DEF StageInv
<1>0. /\ sent \in [Streams -> 0 .. MaxData] /\ MaxData \in Nat
      /\ source \in [Streams -> {"no", "streaming", "over"}]
      /\ invoke \in [Streams -> {"no", "calling", "refused", "mismatch", "accepted", "error",
                              "failed"}]
      /\ client \in [Streams -> {"reading", "gone", "lost", "done"}]
      /\ {chan, got} \subseteq [Streams -> Seq(Frame)]
      /\ thread \in [Threads -> {Idle} \cup (Plans \X Frame)]
  BY StreamsAssumption DEF TypeOK, StreamsAssumption
<1>1. /\ source[s] = "no" => sent[s] = 0 /\ s \notin answered
      /\ invoke[s] \in {"no", "refused", "mismatch"} =>
           /\ source[s] = "no" /\ got[s] = <<>> /\ chan[s] = <<>>
           /\ s \notin routes \cup once \cup overflow /\ \A t \in Threads : ~ Busy(t, s)
      /\ invoke[s] \in {"no", "mismatch"} => s \notin shut
      /\ invoke[s] = "calling" => s \notin answered
      /\ client[s] # "reading" => invoke[s] \in {"accepted", "error", "mismatch"}
      /\ client[s] = "done" => s \in shut
      /\ client[s] \in {"gone", "lost"} => s \in Wedgeable
  BY DEF StageInv
<1>2. /\ source'[s] = "no" => sent'[s] = 0 /\ s \notin answered'
      /\ invoke'[s] = "calling" => s \notin answered'
  <2>1. CASE \E u \in Streams : OpenStream(u) BY <1>0, <1>1, <2>1 DEF OpenStream
  <2>2. CASE \E u \in Streams : Answer(u) BY <1>0, <1>1, <2>2 DEF Answer, Answers
  <2>3. CASE \E u \in Streams : Reject(u) BY <1>0, <1>1, <2>3 DEF Reject, Answers
  <2>4. CASE \E u \in Streams : SendData(u)
    <3>1. PICK u \in Streams : SendData(u) BY <2>4
    <3>2. UNCHANGED <<source, answered, invoke>> /\ source[u] = "streaming"
          /\ sent' = [sent EXCEPT ![u] = @ + 1]
      BY <3>1 DEF SendData
    <3>. QED BY <1>0, <1>1, <3>2
  <2>5. CASE \E u \in Streams : SendClose(u)
    <3>1. PICK u \in Streams : SendClose(u) BY <2>5
    <3>2. UNCHANGED <<sent, answered, invoke>> /\ source[u] = "streaming"
          /\ source' = [source EXCEPT ![u] = "over"]
      BY <3>1 DEF SendClose
    <3>. QED BY <1>0, <1>1, <3>2
  <2>6. CASE \E u \in Streams : Request(u) \/ RefuseEarly(u) \/ RefuseKind(u) \/ InvokeFails(u)
    BY <1>0, <1>1, <2>6 DEF Request, RefuseEarly, RefuseKind, InvokeFails, Unsent, provider
  <2>7. CASE UNCHANGED <<source, sent, answered, invoke>> BY <1>1, <2>7
  <2>. QED
    BY <2>1, <2>2, <2>3, <2>4, <2>5, <2>6, <2>7
    DEF Next, Thread, vars, provider, Receive, SeeEnd, ClientCancel, Disconnect, LoseAnswer, Die,
        TakeFrame, TakeOverflow, RemoveClient, Deliver, GiveUp, DropRoute, CloseExternalOnce
\* What a call that has not been made, or was refused, finds.
<1>3. ASSUME invoke'[s] \in {"no", "refused", "mismatch"}
      PROVE  /\ invoke[s] \in {"no", "refused", "mismatch"}
             /\ invoke'[s] \in {"no", "mismatch"} => invoke[s] \in {"no", "mismatch"}
  <2>1. CASE \E u \in Streams : Request(u) \/ RefuseEarly(u) \/ RefuseKind(u) \/ InvokeFails(u)
    BY <1>0, <1>3, <2>1 DEF Request, RefuseEarly, RefuseKind, InvokeFails, Unsent
  <2>2. CASE \E u \in Streams : Answer(u) \/ Reject(u)
    BY <1>0, <1>3, <2>2 DEF Answer, Reject, Answers
  <2>3. CASE UNCHANGED invoke BY <1>3, <2>3
  <2>. QED
    BY <2>1, <2>2, <2>3
    DEF Next, Thread, vars, OpenStream, SendData, SendClose, Receive, SeeEnd, ClientCancel,
        Disconnect, LoseAnswer, Die, TakeFrame, TakeOverflow, RemoveClient, Deliver, GiveUp,
        DropRoute, CloseExternalOnce
<1>4. ASSUME invoke'[s] \in {"no", "refused", "mismatch"}
      PROVE  /\ source'[s] = "no" /\ got'[s] = <<>> /\ chan'[s] = <<>>
             /\ s \notin routes' \cup once' \cup overflow' /\ \A t \in Threads : ~ Busy(t, s)'
             /\ invoke'[s] \in {"no", "mismatch"} => s \notin shut'
  <2>1. /\ source[s] = "no" /\ got[s] = <<>> /\ chan[s] = <<>>
        /\ s \notin routes \cup once \cup overflow /\ \A t \in Threads : ~ Busy(t, s)
        /\ invoke'[s] \in {"no", "mismatch"} => s \notin shut
    BY <1>1, <1>3, <1>4
  <2>2. source'[s] = "no"
    <3>1. CASE \E u \in Streams : OpenStream(u) \/ Reject(u)
      BY <1>0, <1>3, <1>4, <2>1, <3>1 DEF OpenStream, Reject
    <3>2. CASE \E u \in Streams : SendClose(u) BY <1>0, <2>1, <3>2 DEF SendClose
    <3>3. CASE UNCHANGED source BY <2>1, <3>3
    <3>. QED
      BY <3>1, <3>2, <3>3
      DEF Next, Thread, vars, provider, Request, RefuseEarly, RefuseKind, InvokeFails, Answer,
          SendData, Receive, SeeEnd, ClientCancel, Disconnect, LoseAnswer, Die, TakeFrame,
          TakeOverflow, RemoveClient, Deliver, GiveUp, DropRoute, CloseExternalOnce
  <2>3. got'[s] = <<>> /\ chan'[s] = <<>>
    <3>1. CASE \E u \in Streams : Receive(u) \/ Disconnect(u)
      BY <1>0, <1>3, <1>4, <2>1, <3>1 DEF Receive, Disconnect, Receives
    <3>2. CASE \E t \in Threads : Deliver(t)
      <4>1. PICK t \in Threads : Deliver(t) BY <3>2
      <4>2. FrameOf(t).of # s BY <2>1, <4>1, DeliverFacts DEF Busy
      <4>3. got' = got BY <4>1 DEF Deliver, gateway
      <4>4. chan'[s] = chan[s]
        <5>1. chan' = chan \/ \E v : chan' = [chan EXCEPT ![FrameOf(t).of] = v]
          BY <4>1, DeliverFacts
        <5>. QED BY <1>0, <4>2, <5>1
      <4>. QED BY <2>1, <4>3, <4>4
    <3>3. CASE UNCHANGED <<got, chan>> BY <2>1, <3>3
    <3>. QED
      BY <3>1, <3>2, <3>3
      DEF Next, Thread, vars, gateway, channels, Request, RefuseEarly, RefuseKind, InvokeFails,
          OpenStream, Answer, Reject, SendData, SendClose, SeeEnd, ClientCancel, LoseAnswer, Die,
          TakeFrame, TakeOverflow, RemoveClient, GiveUp, DropRoute, CloseExternalOnce
  <2>4. s \notin routes' \cup once' \cup overflow'
    <3>1. CASE \E u \in Streams : Request(u)
      BY <1>0, <1>4, <2>1, <3>1 DEF Request, channels
    <3>2. CASE \E t \in Threads : Thread(t)
      <4>1. PICK t \in Threads : Thread(t) BY <3>2
      <4>2. routes' \subseteq routes /\ overflow' \in {{}, overflow} BY <4>1, StepFacts
      <4>3. s \notin once'
        <5>1. CASE CloseExternalOnce(t)
          BY <2>1, <5>1, CloseFacts DEF Busy
        <5>2. CASE UNCHANGED once BY <2>1, <5>2
        <5>. QED BY <4>1, <5>1, <5>2 DEF Thread, Deliver, GiveUp, DropRoute, channels
      <4>. QED BY <2>1, <4>2, <4>3
    <3>3. CASE \E u \in Streams : SendData(u) \/ SendClose(u)
      <4>1. PICK u \in Streams : SendData(u) \/ SendClose(u) BY <3>3
      <4>2. PICK f \in Frame : /\ Queue(f) /\ f.of = u /\ source[u] = "streaming"
                               /\ UNCHANGED <<routes, once>>
        BY <4>1, SendFacts
      <4>3. overflow' \in {overflow, {u}} BY <4>2, QueueGrows
      <4>. QED BY <2>1, <4>2, <4>3
    <3>4. CASE TakeOverflow
      <4>1. overflow' \in {{}, overflow} BY <3>4, OverflowFacts
      <4>. QED BY <2>1, <3>4, <4>1 DEF TakeOverflow, channels
    <3>5. CASE RemoveClient BY <2>1, <3>5 DEF RemoveClient, channels
    <3>6. CASE UNCHANGED <<routes, once, overflow>> BY <2>1, <3>6
    <3>. QED
      BY <3>1, <3>2, <3>3, <3>4, <3>5, <3>6
      DEF Next, vars, channels, RefuseEarly, RefuseKind, InvokeFails, OpenStream, Answer, Reject,
          Receive, SeeEnd, ClientCancel, Disconnect, LoseAnswer, Die, TakeFrame
  <2>5. ASSUME NEW t \in Threads PROVE ~ Busy(t, s)'
    <3>1. CASE thread'[t] = thread[t] BY <2>1, <3>1 DEF Busy, FrameOf
    <3>2. CASE Thread(t)
      <4>1. thread[t] # Idle /\ (thread'[t] = Idle \/ FrameOf(t)' = FrameOf(t)) BY <3>2, StepFacts
      <4>. QED BY <2>1, <4>1 DEF Busy
    <3>3. CASE t = "events" /\ TakeFrame
      <4>1. Head(ingress).of # s
        <5>1. Head(ingress) = ingress[1] /\ 1 \in DOMAIN ingress BY <3>3, TakeFacts
        <5>. QED BY <2>1, <5>1, AskedFacts DEF Queued
      <4>2. thread' = [thread EXCEPT !["events"] = <<<<"deliver">>, Head(ingress)>>]
            \/ thread' = [thread EXCEPT !["events"] = Idle]
        BY <3>3, TakeFacts
      <4>. QED BY <1>0, <3>3, <4>1, <4>2 DEF Busy, FrameOf
    <3>4. CASE t = "control" /\ TakeOverflow
      <4>1. PICK u \in Streams :
              /\ overflow = {u}
              /\ \/ thread' = [thread EXCEPT !["control"] = <<<<"deliver">>, Other(u, "broken")>>]
                 \/ thread' = [thread EXCEPT !["control"] = Idle]
        BY <3>4, OverflowFacts
      <4>2. u # s BY <2>1, <4>1
      <4>. QED BY <1>0, <3>4, <4>1, <4>2 DEF Busy, FrameOf, Other
    <3>5. CASE RemoveClient /\ t \in routes
      <4>1. thread'[t] = <<<<"deliver">>, Other(t, "broken")>> BY <3>5 DEF RemoveClient, Affected
      <4>. QED BY <2>1, <3>5, <4>1 DEF Busy, FrameOf, Other
    <3>. QED BY <3>1, <3>2, <3>3, <3>4, <3>5, ThreadMoves
  <2>6. ASSUME invoke'[s] \in {"no", "mismatch"} PROVE s \notin shut'
    <3>1. s \notin shut BY <2>1, <2>6
    <3>2. CASE \E u \in Streams : RefuseEarly(u) \/ InvokeFails(u)
      BY <1>0, <2>6, <3>1, <3>2 DEF RefuseEarly, RefuseKind, InvokeFails, Close
    <3>3. CASE \E t \in Threads : CloseExternalOnce(t)
      BY <2>1, <3>1, <3>3, CloseFacts DEF Busy
    <3>4. CASE UNCHANGED shut BY <3>1, <3>4
    <3>. QED
      BY <3>2, <3>3, <3>4
      DEF Next, Thread, vars, channels, Request, RefuseKind, OpenStream, Answer, Reject, SendData,
          SendClose, Receive, SeeEnd, ClientCancel, Disconnect, LoseAnswer, Die, TakeFrame,
          TakeOverflow, RemoveClient, Deliver, GiveUp, DropRoute
  <2>. QED BY <2>2, <2>3, <2>4, <2>5, <2>6
<1>5. client'[s] = "done" => s \in shut'
  <2>1. client'[s] = "done" => s \in shut
    <3>1. CASE \E u \in Streams : SeeEnd(u) BY <1>0, <1>1, <3>1 DEF SeeEnd
    <3>2. CASE \E u \in Streams : Disconnect(u) \/ LoseAnswer(u)
      BY <1>0, <1>1, <3>2 DEF Disconnect, LoseAnswer
    <3>3. CASE UNCHANGED client BY <1>1, <3>3
    <3>. QED
      BY <3>1, <3>2, <3>3
      DEF Next, Thread, vars, gateway, Request, RefuseEarly, RefuseKind, InvokeFails, OpenStream,
          Answer, Reject, SendData, SendClose, Receive, ClientCancel, Die, TakeFrame, TakeOverflow,
          RemoveClient, Deliver, GiveUp, DropRoute, CloseExternalOnce
  <2>2. shut \subseteq shut'
    BY DEF Next, Thread, vars, channels, Close, Request, RefuseEarly, RefuseKind, InvokeFails,
           OpenStream, Answer, Reject, SendData, SendClose, Receive, SeeEnd, ClientCancel,
           Disconnect, LoseAnswer, Die, TakeFrame, TakeOverflow, RemoveClient, Deliver, GiveUp,
           DropRoute, CloseExternalOnce
  <2>. QED BY <2>1, <2>2
<1>7. client'[s] # "reading" => invoke'[s] \in {"accepted", "error", "mismatch"}
  <2>1. CASE \E u \in Streams : SeeEnd(u) \/ Disconnect(u) \/ LoseAnswer(u)
    BY <1>0, <1>1, <2>1 DEF SeeEnd, Disconnect, LoseAnswer, Receives
  <2>2. CASE \E u \in Streams : Request(u) \/ RefuseEarly(u) \/ RefuseKind(u) \/ InvokeFails(u)
    BY <1>0, <1>1, <2>2 DEF Request, RefuseEarly, RefuseKind, InvokeFails, Unsent, gateway
  <2>3. CASE \E u \in Streams : Answer(u) \/ Reject(u)
    BY <1>0, <1>1, <2>3 DEF Answer, Reject, Answers, gateway
  <2>4. CASE UNCHANGED <<client, invoke>> BY <1>1, <2>4
  <2>. QED
    BY <2>1, <2>2, <2>3, <2>4
    DEF Next, Thread, vars, gateway, OpenStream, SendData, SendClose, Receive, ClientCancel, Die,
        TakeFrame, TakeOverflow, RemoveClient, Deliver, GiveUp, DropRoute, CloseExternalOnce
<1>6. client'[s] \in {"gone", "lost"} => s \in Wedgeable
  <2>1. CASE \E u \in Streams : SeeEnd(u) BY <1>0, <1>1, <2>1 DEF SeeEnd
  <2>2. CASE \E u \in Streams : Disconnect(u) \/ LoseAnswer(u)
    BY <1>0, <1>1, <2>2 DEF Disconnect, LoseAnswer
  <2>3. CASE UNCHANGED client BY <1>1, <2>3
  <2>. QED
    BY <2>1, <2>2, <2>3
    DEF Next, Thread, vars, gateway, Request, RefuseEarly, RefuseKind, InvokeFails, OpenStream,
        Answer, Reject, SendData, SendClose, Receive, ClientCancel, Die, TakeFrame, TakeOverflow,
        RemoveClient, Deliver, GiveUp, DropRoute, CloseExternalOnce
<1>. QED BY <1>2, <1>4, <1>5, <1>6, <1>7

(***************************************************************************)
(* The kernel survives a provider that behaves.                             *)
(***************************************************************************)
LEMMA QueuedBefore ==
  ASSUME TypeOK, QueueInv, [Next]_vars, NEW s \in Streams, Queued(s)'
  PROVE  Queued(s) \/ ((SendData(s) \/ SendClose(s)) /\ source[s] = "streaming")
<1>1. CASE UNCHANGED ingress BY <1>1 DEF Queued
<1>2. CASE TakeFrame BY <1>2, TakeFacts DEF Queued
<1>3. CASE \E u \in Streams : SendData(u) \/ SendClose(u)
  <2>1. PICK u \in Streams : SendData(u) \/ SendClose(u) BY <1>3
  <2>2. PICK f \in Frame : Queue(f) /\ f.of = u /\ source[u] = "streaming" BY <2>1, SendFacts
  <2>3. CASE UNCHANGED ingress BY <1>1, <2>3
  <2>4. CASE ~ UNCHANGED ingress
    <3>1. /\ DOMAIN ingress' = 1 .. Len(ingress) + 1 /\ DOMAIN ingress = 1 .. Len(ingress)
          /\ ingress'[Len(ingress) + 1] = f
          /\ \A i \in DOMAIN ingress : ingress'[i] = ingress[i]
      BY <2>2, <2>4, QueueGrows
    <3>2. PICK i \in DOMAIN ingress' : ingress'[i].of = s BY DEF Queued
    <3>3. Len(ingress) \in Nat BY QueuedFacts
    <3>4. i \in DOMAIN ingress \/ i = Len(ingress) + 1 BY <3>1, <3>2, <3>3
    <3>5. CASE i \in DOMAIN ingress BY <3>1, <3>2, <3>5 DEF Queued
    <3>6. CASE i = Len(ingress) + 1
      <4>1. u = s BY <2>2, <3>1, <3>2, <3>6
      <4>. QED BY <2>1, <2>2, <4>1
    <3>. QED BY <3>4, <3>5, <3>6
  <2>. QED BY <2>3, <2>4
<1>. QED
  BY <1>1, <1>2, <1>3
  DEF Next, Thread, vars, Request, RefuseEarly, RefuseKind, InvokeFails, OpenStream, Answer, Reject,
      Receive, SeeEnd, ClientCancel, Disconnect, LoseAnswer, Die, TakeOverflow, RemoveClient,
      Deliver, GiveUp, DropRoute, CloseExternalOnce

\* A provider that behaves has behaved, and then only the ingress loop delivers frames.
LEMMA BehavesFacts ==
  ASSUME TypeOK, ThreadInv, [Next]_vars
  PROVE  /\ Behaves' => Behaves
         /\ Behaves => \A t \in Threads : thread[t] # Idle => t = "events"
<1>1. ASSUME Behaves, NEW t \in Threads, thread[t] # Idle PROVE t = "events"
  <2>1. t # "control" BY <1>1 DEF ThreadInv, TypeOK, Behaves
  <2>2. t \notin Streams BY <1>1 DEF ThreadInv, Behaves
  <2>. QED BY <2>1, <2>2 DEF Threads
<1>2. process' = "running" => process = "running"
  BY DEF Next, Thread, vars, Request, RefuseEarly, RefuseKind, InvokeFails, OpenStream, Answer,
         Reject, SendData, SendClose, Receive, SeeEnd, ClientCancel, Disconnect, LoseAnswer, Die,
         TakeFrame, TakeOverflow, RemoveClient, Deliver, GiveUp, DropRoute, CloseExternalOnce
<1>3. dropped \subseteq dropped'
  <2>1. CASE \E s \in Streams : SendData(s) \/ SendClose(s)
    BY <2>1 DEF SendData, SendClose, Queue
  <2>2. CASE UNCHANGED dropped BY <2>2
  <2>. QED
    BY <2>1, <2>2
    DEF Next, Thread, vars, notes, Trouble, Fails, Request, RefuseEarly, RefuseKind, InvokeFails,
        OpenStream, Answer, Reject, Receive, SeeEnd, ClientCancel, Disconnect, LoseAnswer, Die,
        TakeFrame, TakeOverflow, RemoveClient, Deliver, GiveUp, DropRoute, CloseExternalOnce
<1>4. ASSUME NEW s \in Streams, invoke[s] = "failed" PROVE invoke'[s] = "failed"
  <2>0. invoke \in [Streams -> {"no", "calling", "refused", "mismatch", "accepted", "error",
                              "failed"}]
    BY DEF TypeOK
  <2>1. CASE \E u \in Streams : Request(u) \/ RefuseEarly(u) \/ RefuseKind(u) \/ InvokeFails(u)
    BY <1>4, <2>0, <2>1 DEF Request, RefuseEarly, RefuseKind, InvokeFails, Unsent
  <2>2. CASE \E u \in Streams : Answer(u) \/ Reject(u)
    BY <1>4, <2>0, <2>2 DEF Answer, Reject, Answers
  <2>3. CASE UNCHANGED invoke BY <1>4, <2>3
  <2>. QED
    BY <2>1, <2>2, <2>3
    DEF Next, Thread, vars, OpenStream, SendData, SendClose, Receive, SeeEnd, ClientCancel,
        Disconnect, LoseAnswer, Die, TakeFrame, TakeOverflow, RemoveClient, Deliver, GiveUp,
        DropRoute, CloseExternalOnce
<1>. QED BY <1>1, <1>2, <1>3, <1>4 DEF Behaves

\* While the provider behaves, every step leaves a closed channel alone.
LEMMA StepKeepsClosed ==
  ASSUME StreamsAssumption, TypeOK, QueueInv, ThreadInv, StageInv, CloseInv, [Next]_vars, TypeOK',
         ThreadInv'
  PROVE  CloseInv'
<1> SUFFICES ASSUME Behaves'
             PROVE  /\ ~crashed'
                    /\ \A s \in shut' : s \in once' \/ invoke'[s] = "refused"
                    /\ \A s \in once' :
                         ~ Delivers("events", s)' /\ (s \in routes' => source'[s] = "over" /\ ~ Queued(s)')
  BY DEF CloseInv
<1>0. /\ invoke \in [Streams -> {"no", "calling", "refused", "mismatch", "accepted", "error",
                              "failed"}]
      /\ thread \in [Threads -> {Idle} \cup (Plans \X Frame)]
      /\ shut \subseteq Streams /\ once \subseteq Streams
  BY DEF TypeOK
<1>1. Behaves /\ \A t \in Threads : thread[t] # Idle => t = "events" BY BehavesFacts
<1>2. /\ ~crashed
      /\ \A s \in shut : s \in once \/ invoke[s] = "refused"
      /\ \A s \in once : ~ Delivers("events", s) /\ (s \in routes => source[s] = "over" /\ ~ Queued(s))
  BY <1>1 DEF CloseInv
<1>3. \A s \in Streams : ~ InvokeFails(s)
  BY <1>0 DEF InvokeFails, Behaves
\* The stream of the frame at hand has been accepted.
<1>4. \A t \in Threads : thread[t] # Idle =>
        invoke[FrameOf(t).of] # "refused" /\ FrameOf(t).of \in Streams
  BY BusyFacts, AskedFacts DEF Busy
<1>5. ~crashed'
  <2>1. ASSUME NEW s \in Streams, RefuseEarly(s) PROVE ~crashed'
    <3>1. s \notin shut /\ Close(s) BY <2>1 DEF RefuseEarly, Unsent, StageInv
    <3>. QED BY <1>2, <3>1 DEF Close
  <2>2. ASSUME NEW t \in Threads, Deliver(t) PROVE ~crashed'
    <3>1. t = "events" /\ Delivers("events", FrameOf("events").of)
      BY <1>1, <2>2, DeliverFacts DEF Delivers, Busy
    <3>2. FrameOf(t).of \notin shut BY <1>2, <1>4, <3>1, <2>2, DeliverFacts
    <3>. QED BY <1>2, <2>2, <3>2, DeliverFacts
  <2>3. ASSUME NEW t \in Threads, CloseExternalOnce(t) PROVE ~crashed'
    BY <1>2, <1>4, <2>3, CloseFacts
  <2>4. CASE UNCHANGED crashed BY <1>2, <2>4
  <2>. QED
    BY <1>3, <2>1, <2>2, <2>3, <2>4
    DEF Next, Thread, vars, channels, Request, RefuseKind, OpenStream, Answer, Reject, SendData,
        SendClose, Receive, SeeEnd, ClientCancel, Disconnect, LoseAnswer, Die, TakeFrame,
        TakeOverflow, RemoveClient, GiveUp, DropRoute
<1>6. once \subseteq once' /\ (UNCHANGED once \/ \E t \in Threads : CloseExternalOnce(t))
  <2>1. CASE \E t \in Threads : CloseExternalOnce(t) BY <2>1, CloseFacts
  <2>2. CASE UNCHANGED once BY <2>2
  <2>. QED
    BY <2>1, <2>2
    DEF Next, Thread, vars, channels, Request, RefuseEarly, RefuseKind, InvokeFails, OpenStream,
        Answer, Reject, SendData, SendClose, Receive, SeeEnd, ClientCancel, Disconnect, LoseAnswer,
        Die, TakeFrame, TakeOverflow, RemoveClient, Deliver, GiveUp, DropRoute
<1>7. ASSUME NEW s \in shut' PROVE s \in once' \/ invoke'[s] = "refused"
  <2>1. s \in Streams BY DEF TypeOK
  <2>2. invoke[s] = "refused" => invoke'[s] = "refused"
    <3>1. CASE \E u \in Streams : Request(u) \/ RefuseEarly(u) \/ RefuseKind(u)
      BY <1>0, <2>1, <3>1 DEF Request, RefuseEarly, RefuseKind, Unsent
    <3>2. CASE \E u \in Streams : Answer(u) \/ Reject(u)
      BY <1>0, <2>1, <3>2 DEF Answer, Reject, Answers
    <3>3. CASE UNCHANGED invoke BY <3>3
    <3>. QED
      BY <1>3, <3>1, <3>2, <3>3
      DEF Next, Thread, vars, OpenStream, SendData, SendClose, Receive, SeeEnd, ClientCancel,
          Disconnect, LoseAnswer, Die, TakeFrame, TakeOverflow, RemoveClient, Deliver, GiveUp,
          DropRoute, CloseExternalOnce
  <2>3. CASE s \in shut BY <1>2, <1>6, <2>2, <2>3
  <2>4. CASE s \notin shut
    <3>1. CASE \E u \in Streams : RefuseEarly(u)
      BY <1>0, <2>1, <2>4, <3>1 DEF RefuseEarly, Close
    <3>2. CASE \E t \in Threads : CloseExternalOnce(t) BY <2>4, <3>2, CloseFacts
    <3>3. CASE UNCHANGED shut BY <2>4, <3>3
    <3>. QED
      BY <1>3, <3>1, <3>2, <3>3
      DEF Next, Thread, vars, channels, Request, RefuseKind, OpenStream, Answer, Reject, SendData,
          SendClose, Receive, SeeEnd, ClientCancel, Disconnect, LoseAnswer, Die, TakeFrame,
          TakeOverflow, RemoveClient, Deliver, GiveUp, DropRoute
  <2>. QED BY <2>3, <2>4
<1>8. ASSUME NEW s \in once', s \notin once
      PROVE  ~ Delivers("events", s)' /\ (s \in routes' => source'[s] = "over" /\ ~ Queued(s)')
  <2>1. PICK t \in Threads : CloseExternalOnce(t) BY <1>6, <1>8
  <2>2. /\ t = "events" /\ thread[t] # Idle /\ s = FrameOf(t).of /\ s \in Streams
        /\ UNCHANGED <<routes, ingress, source>>
        /\ \/ /\ Plan(t) = <<"close", "drop">>
              /\ thread' = [thread EXCEPT ![t] = <<<<"drop">>, FrameOf(t)>>]
           \/ /\ Plan(t) = <<"close">>
              /\ thread' = [thread EXCEPT ![t] = Idle]
    BY <1>1, <1>8, <2>1, CloseFacts DEF CloseExternalOnce, provider
  <2>3. ~ Delivers("events", s)'
    BY <1>0, <2>2, PlanFacts DEF Delivers, Busy, Plan
  <2>4. ASSUME s \in routes' PROVE source'[s] = "over" /\ ~ Queued(s)'
    <3>1. EventsHold(FrameOf("events")) BY <2>2 DEF ThreadInv
    <3>2. FrameOf("events").kind = "close" BY <2>2, <2>4, <3>1 DEF EventsHold
    <3>3. source[s] = "over" /\ Rank(FrameOf("events")) = sent[s] + 1 /\ sent[s] \in Nat
      <4>1. sent[s] \in Nat BY <2>2, StreamsAssumption DEF TypeOK, StreamsAssumption
      <4>2. Sent(s, Rank(FrameOf("events")), FrameOf("events")) BY <2>2, <3>1 DEF EventsHold
      <4>. QED BY <2>2, <3>2, <4>1, <4>2, RankOfSent
    <3>4. ASSUME NEW i \in DOMAIN ingress, ingress[i].of = s PROVE FALSE
      <4>1. Rank(FrameOf("events")) < Rank(ingress[i]) BY <2>2, <3>1, <3>4 DEF EventsHold
      <4>2. Rank(ingress[i]) \in Nat /\ Rank(ingress[i]) <= sent[s] + 1 BY <3>4, QueuedFacts
      <4>. QED BY <3>3, <4>1, <4>2
    <3>. QED BY <2>2, <3>3, <3>4 DEF Queued
  <2>. QED BY <2>3, <2>4
<1>9. ASSUME NEW s \in once
      PROVE  ~ Delivers("events", s)' /\ (s \in routes' => source'[s] = "over" /\ ~ Queued(s)')
  <2>1. s \in Streams BY <1>0
  <2>2. ASSUME Delivers("events", s)' PROVE FALSE
    <3>1. CASE thread'["events"] = thread["events"]
      BY <1>2, <2>2, <3>1 DEF Delivers, Busy, Plan, FrameOf
    <3>2. CASE Thread("events")
      <4>1. thread["events"] # Idle /\ FrameOf("events")' = FrameOf("events")
            /\ (Plan("events")' = <<"deliver">> => Plan("events") = <<"deliver">>)
        BY <2>2, <3>2, Loops, StepFacts, PlanFacts DEF Delivers, Busy
      <4>. QED BY <1>2, <2>2, <4>1 DEF Delivers, Busy
    <3>3. CASE TakeFrame
      <4>1. Head(ingress).of = s /\ s \in routes /\ Head(ingress) = ingress[1] /\ 1 \in DOMAIN ingress
        BY <1>0, <2>2, <3>3, Loops, TakeFacts DEF Delivers, Busy, FrameOf
      <4>. QED BY <1>2, <4>1 DEF Queued
    <3>4. ~ (RemoveClient /\ "events" \in routes) BY Loops DEF TypeOK
    <3>. QED BY <3>1, <3>2, <3>3, <3>4, Loops, ThreadMoves
  <2>3. ASSUME s \in routes' PROVE source'[s] = "over" /\ ~ Queued(s)'
    <3>1. s \in routes
      <4>1. CASE \E u \in Streams : Request(u)
        <5>1. PICK u \in Streams : Request(u) BY <4>1
        <5>2. u # s BY <2>1, <5>1, AskedFacts DEF Request
        <5>. QED BY <2>3, <5>1, <5>2 DEF Request
      <4>2. CASE \E t \in Threads : Thread(t) BY <2>3, <4>2, StepFacts
      <4>3. CASE RemoveClient BY <2>3, <4>3 DEF RemoveClient
      <4>4. CASE UNCHANGED routes BY <2>3, <4>4
      <4>. QED
        BY <4>1, <4>2, <4>3, <4>4
        DEF Next, vars, RefuseEarly, RefuseKind, InvokeFails, OpenStream, Answer, Reject, SendData,
            SendClose, Receive, SeeEnd, ClientCancel, Disconnect, LoseAnswer, Die, TakeFrame,
            TakeOverflow
    <3>2. source[s] = "over" /\ ~ Queued(s) BY <1>2, <3>1
    <3>. QED BY <2>1, <3>2, SentStays, QueuedBefore
  <2>. QED BY <2>2, <2>3
<1>. QED BY <1>5, <1>7, <1>8, <1>9

(***************************************************************************)
(* The first frame of a stream.                                             *)
(***************************************************************************)
LEMMA DeliversBefore ==
  ASSUME TypeOK, ThreadInv, [Next]_vars, NEW s \in Streams, Delivers("events", s)'
  PROVE  \/ Delivers("events", s) /\ FrameOf("events")' = FrameOf("events") /\ ~ TakeFrame
         \/ /\ TakeFrame /\ Queued(s) /\ s \in routes /\ Head(ingress).of = s
            /\ FrameOf("events")' = Head(ingress)
<1>0. thread \in [Threads -> {Idle} \cup (Plans \X Frame)] BY DEF TypeOK
<1>1. CASE TakeFrame
  <2>1. Head(ingress) = ingress[1] /\ 1 \in DOMAIN ingress BY <1>1, TakeFacts
  <2>2. CASE Head(ingress).of \in routes
    <3>1. thread'["events"] = <<<<"deliver">>, Head(ingress)>>
      BY <1>0, <1>1, <2>2, Loops, TakeFacts
    <3>. QED BY <1>1, <2>1, <2>2, <3>1 DEF Delivers, Busy, FrameOf, Queued
  <2>3. CASE Head(ingress).of \notin routes
    BY <1>0, <1>1, <2>3, Loops, TakeFacts DEF Delivers, Busy
  <2>. QED BY <2>2, <2>3
<1>2. CASE thread'["events"] = thread["events"] /\ ~ TakeFrame
  BY <1>2 DEF Delivers, Busy, Plan, FrameOf
<1>3. CASE Thread("events")
  <2>0. ~ TakeFrame BY <1>3, Loops, StepFacts DEF TakeFrame
  <2>1. thread["events"] # Idle /\ FrameOf("events")' = FrameOf("events")
        /\ (Plan("events")' = <<"deliver">> => Plan("events") = <<"deliver">>)
    BY <1>3, Loops, StepFacts, PlanFacts DEF Delivers, Busy
  <2>. QED BY <2>0, <2>1 DEF Delivers, Busy
<1>4. ~ (RemoveClient /\ "events" \in routes) BY Loops DEF TypeOK
<1>. QED BY <1>1, <1>2, <1>3, <1>4, Loops, ThreadMoves

\* How the channel of a stream changes.
LEMMA ChannelMoves ==
  ASSUME TypeOK, [Next]_vars, NEW s \in Streams
  PROVE  \/ UNCHANGED <<chan[s], got[s]>>
         \/ /\ Receive(s) /\ chan[s] # <<>> /\ chan'[s] = Tail(chan[s])
            /\ got'[s] = Append(got[s], Head(chan[s])) /\ client'[s] = client[s]
         \/ /\ Disconnect(s) /\ chan[s] # <<>> /\ chan'[s] = Tail(chan[s]) /\ got'[s] = got[s]
            /\ client'[s] = "gone" /\ s \in Wedgeable
         \/ \E t \in Threads : /\ Deliver(t) /\ FrameOf(t).of = s /\ s \notin shut
                               /\ chan'[s] = Append(chan[s], FrameOf(t)) /\ got'[s] = got[s]
<1>0. /\ {chan, got} \subseteq [Streams -> Seq(Frame)]
      /\ client \in [Streams -> {"reading", "gone", "lost", "done"}]
  BY DEF TypeOK
<1>1. ASSUME NEW u \in Streams, Receive(u)
      PROVE  \/ UNCHANGED <<chan[s], got[s]>>
             \/ /\ u = s /\ chan[s] # <<>> /\ chan'[s] = Tail(chan[s])
                /\ got'[s] = Append(got[s], Head(chan[s])) /\ client'[s] = client[s]
  BY <1>0, <1>1 DEF Receive
<1>2. ASSUME NEW u \in Streams, Disconnect(u)
      PROVE  \/ UNCHANGED <<chan[s], got[s]>>
             \/ /\ u = s /\ chan[s] # <<>> /\ chan'[s] = Tail(chan[s]) /\ got'[s] = got[s]
                /\ client'[s] = "gone" /\ s \in Wedgeable
  BY <1>0, <1>2 DEF Disconnect
<1>3. ASSUME NEW t \in Threads, Deliver(t)
      PROVE  \/ UNCHANGED <<chan[s], got[s]>>
             \/ /\ FrameOf(t).of = s /\ s \notin shut
                /\ chan'[s] = Append(chan[s], FrameOf(t)) /\ got'[s] = got[s]
  <2>1. UNCHANGED got BY <1>3 DEF Deliver, gateway
  <2>2. CASE FrameOf(t).of \in shut BY <1>3, <2>1, <2>2 DEF Deliver
  <2>3. CASE FrameOf(t).of \notin shut
    <3>1. chan' = [chan EXCEPT ![FrameOf(t).of] = Append(@, FrameOf(t))]
      BY <1>3, <2>3 DEF Deliver
    <3>. QED BY <1>0, <2>1, <2>3, <3>1
  <2>. QED BY <2>2, <2>3
<1>4. CASE UNCHANGED <<chan, got>> BY <1>4
<1>. QED
  BY <1>1, <1>2, <1>3, <1>4
  DEF Next, Thread, vars, channels, gateway, Request, RefuseEarly, RefuseKind, InvokeFails,
      OpenStream, Answer, Reject, SendData, SendClose, SeeEnd, ClientCancel, LoseAnswer, Die,
      TakeFrame, TakeOverflow, RemoveClient, GiveUp, DropRoute, CloseExternalOnce

(***************************************************************************)
(* The end of a stream.                                                     *)
(***************************************************************************)
LEMMA EndMoves ==
  ASSUME NEW q \in Seq(Frame)
  PROVE  /\ \A f \in Frame : HasEnd(Append(q, f)) <=> HasEnd(q) \/ f.kind \in {"close", "broken"}
         /\ q # <<>> => (HasEnd(q) <=> Head(q).kind \in {"close", "broken"} \/ HasEnd(Tail(q)))
<1>1. Len(q) \in Nat /\ DOMAIN q = 1 .. Len(q) OBVIOUS
<1>2. ASSUME NEW f \in Frame
      PROVE  HasEnd(Append(q, f)) <=> HasEnd(q) \/ f.kind \in {"close", "broken"}
  <2>1. /\ DOMAIN Append(q, f) = 1 .. Len(q) + 1 /\ Append(q, f)[Len(q) + 1] = f
        /\ \A i \in 1 .. Len(q) : Append(q, f)[i] = q[i]
    OBVIOUS
  <2> DEFINE a == Append(q, f)
  <2> HIDE DEF a
  <2>. QED BY <1>1, <2>1 DEF HasEnd, a
<1>3. ASSUME q # <<>>
      PROVE  HasEnd(q) <=> Head(q).kind \in {"close", "broken"} \/ HasEnd(Tail(q))
  <2>1. /\ Head(q) = q[1] /\ 1 \in DOMAIN q /\ DOMAIN Tail(q) = 1 .. Len(q) - 1
        /\ \A i \in 1 .. Len(q) - 1 : Tail(q)[i] = q[i + 1]
    BY <1>3
  <2> DEFINE r == Tail(q)
  <2> HIDE DEF r
  <2>2. ASSUME HasEnd(r) PROVE HasEnd(q) BY <1>1, <2>1, <2>2 DEF HasEnd, r
  <2>3. ASSUME NEW i \in DOMAIN q, q[i].kind \in {"close", "broken"}, i # 1 PROVE HasEnd(r)
    <3>1. i - 1 \in DOMAIN r /\ r[i - 1] = q[i] BY <1>1, <2>1, <2>3 DEF r
    <3>. QED BY <2>3, <3>1 DEF HasEnd
  <2>. QED BY <2>1, <2>2, <2>3 DEF HasEnd, r
<1>. QED BY <1>2, <1>3

\* Every step leaves an end before the close of the channel.
LEMMA StepKeepsEnds ==
  ASSUME StreamsAssumption, TypeOK, QueueInv, ThreadInv, StageInv, EndInv, [Next]_vars,
         TypeOK', ThreadInv'
  PROVE  EndInv'
<1> SUFFICES ASSUME NEW s \in Streams \ Wedgeable, s \notin outrun', process' = "running",
                    invoke'[s] \in {"calling", "accepted", "error"}
             PROVE
      /\ s \in shut' => HasEnd(got'[s]) \/ HasEnd(chan'[s])
      /\ client'[s] = "done" => HasEnd(got'[s])
      /\ \A t \in {"events", "control"} : Busy(t, s)' /\ ~ Delivers(t, s)' =>
           Plan(t)' \in {<<"close", "drop">>, <<"drop">>} /\ (HasEnd(got'[s]) \/ HasEnd(chan'[s]))
  BY DEF EndInv, HasEnd
<1>0. /\ invoke \in [Streams -> {"no", "calling", "refused", "mismatch", "accepted", "error",
                              "failed"}]
      /\ client \in [Streams -> {"reading", "gone", "lost", "done"}]
      /\ {chan, got} \subseteq [Streams -> Seq(Frame)] /\ Len(chan[s]) <= Room
      /\ thread \in [Threads -> {Idle} \cup (Plans \X Frame)]
  BY DEF TypeOK
<1>1. process = "running"
  BY DEF Next, Thread, vars, Request, RefuseEarly, RefuseKind, InvokeFails, OpenStream, Answer,
         Reject, SendData, SendClose, Receive, SeeEnd, ClientCancel, Disconnect, LoseAnswer, Die,
         TakeFrame, TakeOverflow, RemoveClient, Deliver, GiveUp, DropRoute, CloseExternalOnce
<1>2. ~ RefuseEarly(s) /\ ~ RefuseKind(s) /\ ~ InvokeFails(s)
  BY <1>0 DEF RefuseEarly, RefuseKind, InvokeFails
<1>6. s \notin outrun
  BY DEF Next, Thread, vars, notes, Fails, Trouble, Request, RefuseEarly, RefuseKind, InvokeFails,
         OpenStream, Answer, Reject, SendData, SendClose, Receive, SeeEnd, ClientCancel, Disconnect,
         LoseAnswer, Die, TakeFrame, TakeOverflow, RemoveClient, Deliver, GiveUp, DropRoute,
         CloseExternalOnce
\* The stream is as it was, or has just been asked for.
<1>3. invoke[s] \in {"calling", "accepted", "error"} \/ Request(s)
  <2>1. CASE \E u \in Streams : Request(u) \/ RefuseEarly(u) \/ RefuseKind(u) \/ InvokeFails(u)
    BY <1>0, <1>2, <2>1 DEF Request, RefuseEarly, RefuseKind, InvokeFails
  <2>2. CASE \E u \in Streams : Answer(u) \/ Reject(u)
    BY <1>0, <2>2 DEF Answer, Reject, Answers
  <2>3. CASE UNCHANGED invoke BY <2>3
  <2>. QED
    BY <2>1, <2>2, <2>3
    DEF Next, Thread, vars, OpenStream, SendData, SendClose, Receive, SeeEnd, ClientCancel,
        Disconnect, LoseAnswer, Die, TakeFrame, TakeOverflow, RemoveClient, Deliver, GiveUp,
        DropRoute, CloseExternalOnce
<1>4. CASE Request(s)
  <2>1. /\ s \notin shut /\ client[s] = "reading" /\ \A t \in Threads : ~ Busy(t, s)
    BY <1>0, <1>4 DEF Request, Unsent, StageInv
  <2>2. UNCHANGED <<shut, client, thread>> BY <1>4 DEF Request, channels, gateway
  <2>. QED BY <2>1, <2>2, Loops DEF Busy, FrameOf
<1>5. CASE ~ Request(s)
  <2>1. /\ s \in shut => HasEnd(got[s]) \/ HasEnd(chan[s])
        /\ client[s] = "done" => HasEnd(got[s])
        /\ \A t \in {"events", "control"} : Busy(t, s) /\ ~ Delivers(t, s) =>
             Plan(t) \in {<<"close", "drop">>, <<"drop">>} /\ (HasEnd(got[s]) \/ HasEnd(chan[s]))
    BY <1>1, <1>3, <1>5, <1>6 DEF EndInv
  \* An end stays where it can be read, or is read.
  <2>2. /\ HasEnd(got[s]) => HasEnd(got'[s])
        /\ HasEnd(got[s]) \/ HasEnd(chan[s]) => HasEnd(got'[s]) \/ HasEnd(chan'[s])
    <3>0. got[s] \in Seq(Frame) /\ chan[s] \in Seq(Frame) BY <1>0
    <3>1. CASE UNCHANGED <<chan[s], got[s]>> BY <3>1
    <3>2. CASE chan[s] # <<>> /\ chan'[s] = Tail(chan[s]) /\ got'[s] = Append(got[s], Head(chan[s]))
      <4>1. Head(chan[s]) \in Frame BY <3>0, <3>2
      <4>2. HasEnd(got'[s]) <=> HasEnd(got[s]) \/ Head(chan[s]).kind \in {"close", "broken"}
        BY <3>0, <3>2, <4>1, EndMoves
      <4>3. HasEnd(chan[s]) <=> Head(chan[s]).kind \in {"close", "broken"} \/ HasEnd(Tail(chan[s]))
        BY <3>0, <3>2, EndMoves
      <4>. QED BY <3>2, <4>2, <4>3
    <3>3. CASE \E t \in Threads : /\ Deliver(t) /\ FrameOf(t).of = s
                                  /\ chan'[s] = Append(chan[s], FrameOf(t)) /\ got'[s] = got[s]
      <4>1. PICK t \in Threads : /\ Deliver(t)
                                 /\ chan'[s] = Append(chan[s], FrameOf(t)) /\ got'[s] = got[s]
        BY <3>3
      <4>2. FrameOf(t) \in Frame BY <4>1, DeliverFacts, BusyFacts
      <4>. QED BY <3>0, <4>1, <4>2, EndMoves
    <3>. QED BY <3>1, <3>2, <3>3, ChannelMoves
  <2>3. ASSUME NEW t \in Threads, GiveUp(t), FrameOf(t).of = s PROVE FALSE
    <3>1. /\ thread[t] # Idle /\ Plan(t) = <<"deliver">> /\ ~crashed /\ s \notin shut /\ MayGiveUp(t)
      BY <2>3, GiveUpFacts
    <3>2. Len(chan[s]) = Room /\ ~ Receives(s) BY <2>3, <3>1 DEF MayGiveUp
    <3>3. client[s] = "reading" BY <1>0, <3>1 DEF StageInv
    <3>4. invoke[s] = "calling" BY <1>3, <1>5, <3>1, <3>2, <3>3 DEF Receives
    <3>. QED BY <2>3, <3>4 DEF GiveUp
  <2>4. ASSUME NEW t \in {"events", "control"}, Busy(t, s)', ~ Delivers(t, s)'
        PROVE  Plan(t)' \in {<<"close", "drop">>, <<"drop">>} /\ (HasEnd(got'[s]) \/ HasEnd(chan'[s]))
    <3>0. t \in Threads /\ t \notin Streams BY Loops
    <3>1. CASE thread'[t] = thread[t]
      BY <2>1, <2>2, <2>4, <3>1 DEF Busy, Delivers, Plan, FrameOf
    <3>2. CASE Deliver(t)
      <4>1. /\ thread[t] # Idle /\ Plan(t) = <<"deliver">>
            /\ thread' # thread => /\ chan' = [chan EXCEPT ![FrameOf(t).of] = Append(@, FrameOf(t))]
                                   /\ thread' = [thread EXCEPT ![t] =
                                        IF t \in Streams THEN <<<<"close">>, FrameOf(t)>>
                                        ELSE IF FrameOf(t).kind = "data" THEN Idle
                                        ELSE <<<<"close", "drop">>, FrameOf(t)>>]
        BY <3>0, <3>2, DeliverFacts
      <4>6. CASE thread' = thread BY <3>1, <4>6
      <4> SUFFICES ASSUME thread' # thread
                   PROVE  Plan(t)' \in {<<"close", "drop">>, <<"drop">>}
                          /\ (HasEnd(got'[s]) \/ HasEnd(chan'[s]))
        BY <4>6
      <4>2. thread'[t] = IF FrameOf(t).kind = "data" THEN Idle ELSE <<<<"close", "drop">>, FrameOf(t)>>
        BY <1>0, <3>0, <4>1
      <4>3. FrameOf(t).kind # "data" /\ thread'[t] = <<<<"close", "drop">>, FrameOf(t)>>
            /\ FrameOf(t).of = s
        BY <2>4, <4>2 DEF Busy, FrameOf
      <4>4. FrameOf(t) \in Frame /\ FrameOf(t).of \in Streams BY <3>0, <4>1, BusyFacts
      <4>5. FrameOf(t).kind \in {"close", "broken"}
        <5>1. CASE t = "control" BY <4>1, <5>1 DEF ThreadInv
        <5>2. CASE t = "events"
          <6>1. Sent(s, Rank(FrameOf(t)), FrameOf(t)) BY <4>1, <4>3, <5>2 DEF ThreadInv, EventsHold
          <6>. QED BY <4>3, <6>1, RankOfSent
        <5>. QED BY <5>1, <5>2
      <4>7. chan'[s] = Append(chan[s], FrameOf(t)) BY <1>0, <4>1, <4>3
      <4>8. HasEnd(chan'[s]) BY <1>0, <4>4, <4>5, <4>7, EndMoves
      <4>. QED BY <4>3, <4>8 DEF Plan
    <3>3. CASE GiveUp(t)
      <4>1. FrameOf(t)' = FrameOf(t)
        BY <1>0, <3>0, <3>3, GiveUpFacts DEF FrameOf
      <4>. QED BY <2>3, <2>4, <3>0, <3>3, <4>1 DEF Busy
    <3>4. CASE DropRoute(t) \/ CloseExternalOnce(t)
      <4>1. Thread(t) /\ thread'[t] # Idle BY <2>4, <3>4 DEF Thread, Busy
      <4>2. /\ thread[t] # Idle /\ FrameOf(t)' = FrameOf(t)
            /\ Plan(t) \in {<<"drop", "close">>, <<"close", "drop">>, <<"drop">>, <<"close">>}
        <5>1. CASE DropRoute(t) BY <3>0, <4>1, <5>1, DropFacts, StepFacts
        <5>2. CASE CloseExternalOnce(t) BY <3>0, <4>1, <5>2, CloseFacts, StepFacts
        <5>. QED BY <3>4, <5>1, <5>2
      <4>3. Busy(t, s) /\ ~ Delivers(t, s) BY <2>4, <4>2, PlanFacts DEF Busy, Delivers
      <4>4. Plan(t) \in {<<"close", "drop">>, <<"drop">>} /\ (HasEnd(got[s]) \/ HasEnd(chan[s]))
        BY <2>1, <4>3
      <4>5. Plan(t)' = <<"drop">> BY <3>0, <4>1, <4>4, PlanFacts, StepFacts
      <4>. QED BY <2>2, <4>4, <4>5
    <3>5. CASE (t = "events" /\ TakeFrame) \/ (t = "control" /\ TakeOverflow)
      <4>1. thread'[t] = Idle \/ \E f : thread'[t] = <<<<"deliver">>, f>>
        BY <1>0, <3>0, <3>5, TakeFacts, OverflowFacts
      <4>. QED BY <2>4, <4>1 DEF Busy, Delivers, Plan
    <3>6. ~ (RemoveClient /\ t \in routes) BY <3>0 DEF TypeOK
    <3>. QED BY <3>0, <3>1, <3>2, <3>3, <3>4, <3>5, <3>6, ThreadMoves DEF Thread
  <2>5. ASSUME s \in shut' PROVE HasEnd(got'[s]) \/ HasEnd(chan'[s])
    <3>1. CASE s \in shut BY <2>1, <2>2, <3>1
    <3>2. CASE s \notin shut
      <4>1. CASE \E u \in Streams : RefuseEarly(u) \/ InvokeFails(u)
        BY <1>2, <2>5, <3>2, <4>1 DEF RefuseEarly, RefuseKind, InvokeFails, Close
      <4>2. CASE \E t \in Threads : CloseExternalOnce(t)
        <5>1. PICK t \in Threads : CloseExternalOnce(t) BY <4>2
        <5>2. thread[t] # Idle /\ FrameOf(t).of = s
              /\ Plan(t) \in {<<"close", "drop">>, <<"close">>}
          BY <2>5, <3>2, <5>1, CloseFacts
        <5>3. t \notin Streams BY <1>1, <5>2 DEF ThreadInv
        <5>4. t \in {"events", "control"} /\ Busy(t, s) /\ ~ Delivers(t, s)
          BY <5>2, <5>3, PlanFacts DEF Threads, Busy, Delivers
        <5>. QED BY <2>1, <2>2, <5>4
      <4>3. CASE UNCHANGED shut BY <2>5, <3>2, <4>3
      <4>. QED
        BY <4>1, <4>2, <4>3
        DEF Next, Thread, vars, channels, Request, RefuseKind, OpenStream, Answer, Reject, SendData,
            SendClose, Receive, SeeEnd, ClientCancel, Disconnect, LoseAnswer, Die, TakeFrame,
            TakeOverflow, RemoveClient, Deliver, GiveUp, DropRoute
    <3>. QED BY <3>1, <3>2
  <2>6. ASSUME client'[s] = "done" PROVE HasEnd(got'[s])
    <3>1. CASE client[s] = "done" BY <2>1, <2>2, <3>1
    <3>2. CASE SeeEnd(s)
      <4>1. chan[s] = <<>> /\ s \in shut BY <3>2 DEF SeeEnd
      <4>2. ~ HasEnd(chan[s]) BY <4>1 DEF HasEnd
      <4>. QED BY <2>1, <2>2, <4>1, <4>2
    <3>3. client'[s] = client[s] \/ SeeEnd(s) \/ client'[s] \in {"gone", "lost"}
      BY <1>0
      DEF Next, Thread, vars, gateway, Request, RefuseEarly, RefuseKind, InvokeFails, OpenStream,
          Answer, Reject, SendData, SendClose, Receive, SeeEnd, ClientCancel, Disconnect,
          LoseAnswer, Die, TakeFrame, TakeOverflow, RemoveClient, Deliver, GiveUp, DropRoute,
          CloseExternalOnce
    <3>. QED BY <2>6, <3>1, <3>2, <3>3
  <2>. QED BY <2>4, <2>5, <2>6
<1>. QED BY <1>4, <1>5

(***************************************************************************)
(* The order of the frames.                                                 *)
(***************************************************************************)
LEMMA PrefixOrdered ==
  ASSUME NEW s \in Streams, NEW q \in Seq(Frame), NEW p \in Seq(Frame), Ordered(s, q),
         Len(p) <= Len(q), \A i \in 1 .. Len(p) : p[i] = q[i]
  PROVE  Ordered(s, p)
<1>1. /\ Len(p) \in Nat /\ DOMAIN p = 1 .. Len(p)
      /\ Len(q) \in Nat /\ DOMAIN q = 1 .. Len(q)
  OBVIOUS
<1>2. \A i \in DOMAIN p : i \in DOMAIN q /\ p[i] = q[i] BY <1>1
<1>3. \A i \in DOMAIN p : \A j \in 1 .. i : j \in DOMAIN p BY <1>1
<1>4. ASSUME NEW i \in DOMAIN p PROVE Own(p, i) = Own(q, i)
  BY <1>2, <1>3 DEF Own
<1>. QED BY <1>2, <1>4 DEF Ordered

\* What was sent stays sent, so what is in order stays so.
LEMMA OrderedStays ==
  ASSUME TypeOK, [Next]_vars, NEW s \in Streams, NEW q, Ordered(s, q)
  PROVE  Ordered(s, q)'
<1>1. \A k, f : Sent(s, k, f) => Sent(s, k, f)' BY SentStays
<1>. QED BY <1>1 DEF Ordered, Own

\* The next frame sent, or the first made-up close, goes behind the others.
LEMMA AppendOrdered ==
  ASSUME NEW s \in Streams, NEW q \in Seq(Frame), NEW f \in Frame, Ordered(s, q),
         \/ f.kind # "broken" /\ Sent(s, Own(q, Len(q)) + 1, f)
         \/ f.kind = "broken" /\ ~ Broken(q)
  PROVE  /\ Ordered(s, Append(q, f))
         /\ Broken(Append(q, f)) <=> Broken(q) \/ f.kind = "broken"
         /\ Len(Append(q, f)) = Len(q) + 1
         /\ f.kind = "broken" => Own(Append(q, f), Len(q) + 1) = Own(q, Len(q))
<1> DEFINE n == Len(q)
           a == Append(q, f)
<1>1. /\ n \in Nat /\ DOMAIN q = 1 .. n /\ a \in Seq(Frame)
      /\ DOMAIN a = 1 .. n + 1 /\ Len(a) = n + 1 /\ a[n + 1] = f /\ \A i \in 1 .. n : a[i] = q[i]
  OBVIOUS
<1> HIDE DEF n, a
<1>2. \A i \in 1 .. n : Own(a, i) = Own(q, i)
  <2> SUFFICES ASSUME NEW i \in 1 .. n PROVE Own(a, i) = Own(q, i)
    OBVIOUS
  <2>1. \A j \in 1 .. i : a[j] = q[j] BY <1>1
  <2>. QED BY <2>1 DEF Own
<1>3. Broken(a) <=> Broken(q) \/ f.kind = "broken"
  <2>1. \A i : i \in 1 .. n + 1 <=> i \in 1 .. n \/ i = n + 1 BY <1>1
  <2>. QED BY <1>1, <2>1 DEF Broken
<1>4. CASE f.kind # "broken"
  <2>1. Own(a, n + 1) = Own(q, n) + 1
    <3>1. (\E i \in 1 .. n + 1 : a[i].kind = "broken") <=> \E i \in 1 .. n : q[i].kind = "broken"
      <4>1. \A i : i \in 1 .. n + 1 <=> i \in 1 .. n \/ i = n + 1 BY <1>1
      <4>. QED BY <1>1, <1>4, <4>1
    <3>. QED BY <1>1, <3>1 DEF Own
  <2>2. \A i \in DOMAIN a : i \in DOMAIN q \/ i = n + 1 BY <1>1
  <2>3. Sent(s, Own(a, n + 1), f) BY <1>4, <2>1 DEF n
  <2>4. Ordered(s, a) BY <1>1, <1>2, <1>4, <2>2, <2>3 DEF Ordered
  <2>. QED BY <1>1, <1>3, <1>4, <2>4 DEF a, n
<1>5. CASE f.kind = "broken"
  <2>1. \A i \in 1 .. n : q[i].kind # "broken" BY <1>1, <1>5 DEF Broken
  <2>2. \A i \in DOMAIN a : i \in DOMAIN q \/ i = n + 1 BY <1>1
  <2>3. Own(a, n + 1) = n /\ Own(q, n) = n
    <3>1. n + 1 \in 1 .. n + 1 BY <1>1
    <3>. QED BY <1>1, <1>5, <2>1, <3>1 DEF Own
  <2>4. Ordered(s, a) BY <1>1, <1>2, <1>5, <2>1, <2>2 DEF Ordered
  <2>. QED BY <1>1, <1>3, <2>3, <2>4 DEF a, n
<1>. QED BY <1>4, <1>5

\* The frames on their way behind those received: a receipt leaves them in their order.
LEMMA Concat ==
  ASSUME NEW g \in Seq(Frame), NEW c \in Seq(Frame)
  PROVE  /\ g \o c \in Seq(Frame) /\ Len(g \o c) = Len(g) + Len(c)
         /\ \A i \in 1 .. Len(g) : (g \o c)[i] = g[i]
         /\ \A f \in Frame : g \o Append(c, f) = Append(g \o c, f)
         /\ c # <<>> => /\ Append(g, Head(c)) \o Tail(c) = g \o c
                        /\ Len(Append(g, Head(c))) <= Len(g \o c)
                        /\ Append(g, Head(c)) \in Seq(Frame)
                        /\ \A i \in 1 .. Len(Append(g, Head(c))) : Append(g, Head(c))[i] = (g \o c)[i]
<1>1. g \o c \in Seq(Frame) /\ Len(g \o c) = Len(g) + Len(c)
      /\ \A i \in 1 .. Len(g) : (g \o c)[i] = g[i]
  OBVIOUS
<1>2. ASSUME NEW f \in Frame PROVE g \o Append(c, f) = Append(g \o c, f)
  <2>1. g \o Append(c, f) \in Seq(Frame) /\ Append(g \o c, f) \in Seq(Frame) OBVIOUS
  <2>2. Len(g \o Append(c, f)) = Len(Append(g \o c, f)) OBVIOUS
  <2>3. \A i \in 1 .. Len(g \o Append(c, f)) : (g \o Append(c, f))[i] = Append(g \o c, f)[i] OBVIOUS
  <2>. QED BY <2>1, <2>2, <2>3, SeqEqual
<1>3. ASSUME c # <<>>
      PROVE  /\ Append(g, Head(c)) \o Tail(c) = g \o c
             /\ Len(Append(g, Head(c))) <= Len(g \o c)
             /\ Append(g, Head(c)) \in Seq(Frame)
             /\ \A i \in 1 .. Len(Append(g, Head(c))) : Append(g, Head(c))[i] = (g \o c)[i]
  <2>1. Head(c) \in Frame /\ Tail(c) \in Seq(Frame) /\ Len(Tail(c)) = Len(c) - 1 /\ Len(c) \in Nat \ {0}
        /\ Head(c) = c[1] /\ \A i \in 1 .. Len(c) - 1 : Tail(c)[i] = c[i + 1]
    BY <1>3
  <2>2. /\ Append(g, Head(c)) \in Seq(Frame) /\ Len(Append(g, Head(c))) = Len(g) + 1
        /\ Append(g, Head(c)) \o Tail(c) \in Seq(Frame)
        /\ Len(Append(g, Head(c)) \o Tail(c)) = Len(g) + Len(c)
    BY <2>1
  <2>3. \A i \in 1 .. Len(g) + Len(c) : (Append(g, Head(c)) \o Tail(c))[i] = (g \o c)[i]
    BY <2>1
  <2>4. Append(g, Head(c)) \o Tail(c) = g \o c BY <1>1, <2>2, <2>3, SeqEqual
  <2>5. \A i \in 1 .. Len(Append(g, Head(c))) : Append(g, Head(c))[i] = (g \o c)[i]
    BY <2>1
  <2>. QED BY <1>1, <2>1, <2>2, <2>4, <2>5
<1>. QED BY <1>1, <1>2, <1>3

\* What a step makes of the frames received and on their way.
LEMMA FlowMoves ==
  ASSUME TypeOK, [Next]_vars, NEW s \in Streams, client'[s] # "gone"
  PROVE  /\ client[s] # "gone"
         /\ \/ (got[s] \o chan[s])' = got[s] \o chan[s]
            \/ \E t \in Threads : /\ Deliver(t) /\ FrameOf(t).of = s /\ s \notin shut
                                  /\ (got[s] \o chan[s])' = Append(got[s] \o chan[s], FrameOf(t))
<1>0. got[s] \in Seq(Frame) /\ chan[s] \in Seq(Frame)
      /\ client \in [Streams -> {"reading", "gone", "lost", "done"}]
  BY DEF TypeOK
<1>1. client[s] # "gone"
  BY <1>0
  DEF Next, Thread, vars, gateway, Request, RefuseEarly, RefuseKind, InvokeFails, OpenStream,
      Answer, Reject, SendData, SendClose, Receive, Receives, SeeEnd, ClientCancel, Disconnect,
      LoseAnswer, Die, TakeFrame, TakeOverflow, RemoveClient, Deliver, GiveUp, DropRoute,
      CloseExternalOnce
<1>2. CASE UNCHANGED <<chan[s], got[s]>> BY <1>1, <1>2
<1>3. CASE chan[s] # <<>> /\ chan'[s] = Tail(chan[s]) /\ got'[s] = Append(got[s], Head(chan[s]))
  <2>1. Append(got[s], Head(chan[s])) \o Tail(chan[s]) = got[s] \o chan[s] BY <1>0, <1>3, Concat
  <2>. QED BY <1>1, <1>3, <2>1
<1>4. CASE \E t \in Threads : /\ Deliver(t) /\ FrameOf(t).of = s /\ s \notin shut
                              /\ chan'[s] = Append(chan[s], FrameOf(t)) /\ got'[s] = got[s]
  <2>1. PICK t \in Threads : /\ Deliver(t) /\ FrameOf(t).of = s /\ s \notin shut
                             /\ chan'[s] = Append(chan[s], FrameOf(t)) /\ got'[s] = got[s]
    BY <1>4
  <2>2. FrameOf(t) \in Frame BY <2>1, BusyFacts DEF Deliver, Doing
  <2>3. got[s] \o Append(chan[s], FrameOf(t)) = Append(got[s] \o chan[s], FrameOf(t))
    BY <1>0, <2>2, Concat
  <2>. QED BY <1>1, <2>1, <2>3
<1>. QED BY <1>2, <1>3, <1>4, ChannelMoves

GivesUp(s) == Busy("events", s) /\ Plan("events") = <<"drop", "close">>

\* A route that is kept was there before, or is that of a call just made.
LEMMA RouteBefore ==
  ASSUME TypeOK, ThreadInv, [Next]_vars, NEW s \in Streams, process' # "removed", s \in routes',
         ~ GivesUp(s)'
  PROVE  process # "removed" /\ (Request(s) \/ (s \in routes /\ ~ GivesUp(s)))
<1>0. thread \in [Threads -> {Idle} \cup (Plans \X Frame)] BY DEF TypeOK
<1>1. process # "removed"
  BY DEF Next, Thread, vars, Request, RefuseEarly, RefuseKind, InvokeFails, OpenStream, Answer,
         Reject, SendData, SendClose, Receive, SeeEnd, ClientCancel, Disconnect, LoseAnswer, Die,
         TakeFrame, TakeOverflow, RemoveClient, Deliver, GiveUp, DropRoute, CloseExternalOnce
<1>2. s \in routes \/ Request(s)
  <2>1. CASE \E t \in Threads : Thread(t) BY <2>1, StepFacts
  <2>2. CASE RemoveClient BY <2>2 DEF RemoveClient
  <2>3. CASE \E u \in Streams : Request(u) BY <2>3 DEF Request
  <2>4. CASE UNCHANGED routes BY <2>4
  <2>. QED
    BY <2>1, <2>2, <2>3, <2>4
    DEF Next, vars, RefuseEarly, RefuseKind, InvokeFails, OpenStream, Answer, Reject, SendData,
        SendClose, Receive, SeeEnd, ClientCancel, Disconnect, LoseAnswer, Die, TakeFrame,
        TakeOverflow
<1>3. ASSUME GivesUp(s) PROVE FALSE
  <2>1. thread["events"] # Idle /\ FrameOf("events").of = s /\ Plan("events") = <<"drop", "close">>
    BY <1>3 DEF GivesUp, Busy
  <2>2. thread'["events"] # thread["events"] BY <1>3 DEF GivesUp, Busy, Plan, FrameOf
  <2>3. CASE Thread("events")
    <3>1. CASE DropRoute("events") BY <2>1, <3>1, Loops, DropFacts
    <3>2. CASE Deliver("events") \/ GiveUp("events")
      BY <2>1, <3>2, Loops, DeliverFacts, GiveUpFacts, PlanFacts
    <3>3. CASE CloseExternalOnce("events") BY <2>1, <3>3, Loops, CloseFacts, PlanFacts
    <3>. QED BY <2>3, <3>1, <3>2, <3>3 DEF Thread
  <2>4. CASE TakeFrame BY <2>1, <2>4, TakeFacts
  <2>5. ~ (RemoveClient /\ "events" \in routes) BY Loops DEF TypeOK
  <2>. QED BY <2>2, <2>3, <2>4, <2>5, Loops, ThreadMoves
<1>. QED BY <1>1, <1>2, <1>3

\* What is queued of a stream, behind the first n frames it has sent.
Follows(s, n) ==
  /\ \A i \in DOMAIN ingress : ingress[i].of = s => n < Rank(ingress[i])
  /\ \A k \in n + 1 .. sent[s] : \E i \in DOMAIN ingress : ingress[i] = Data(s, k)

\* A data frame has its own number.
LEMMA DataRank ==
  ASSUME NEW s, NEW k PROVE Data(s, k).of = s /\ Rank(Data(s, k)) = k
BY DEF Data, Rank

\* The frame taken from the queue is the next, and the rest follows it.
LEMMA TakenFollows ==
  ASSUME StreamsAssumption, TypeOK, QueueInv, [Next]_vars, NEW s \in Streams, NEW n \in Nat,
         Follows(s, n), TakeFrame
  PROVE  IF Head(ingress).of = s
           THEN Sent(s, n + 1, Head(ingress)) /\ Follows(s, n + 1)'
           ELSE Follows(s, n)'
<1>0. sent[s] \in Nat BY DEF TypeOK, StreamsAssumption
<1>1. /\ Head(ingress) = ingress[1] /\ 1 \in DOMAIN ingress
      /\ \A i \in DOMAIN ingress' :
           i \in Nat /\ i + 1 \in DOMAIN ingress /\ ingress'[i] = ingress[i + 1] /\ 1 < i + 1
      /\ \A i \in DOMAIN ingress : i > 1 => i - 1 \in DOMAIN ingress' /\ ingress'[i - 1] = ingress[i]
      /\ \A i \in DOMAIN ingress : i \in Nat /\ i >= 1
  BY TakeFacts, QueuedFacts
<1>2. /\ \A i \in DOMAIN ingress : ingress[i].of = s => n < Rank(ingress[i])
      /\ \A k \in n + 1 .. sent[s] : \E i \in DOMAIN ingress : ingress[i] = Data(s, k)
  BY DEF Follows
<1>3. UNCHANGED <<sent, source>> BY DEF TakeFrame, provider
<1>4. \A f : Rank(f)' = Rank(f) BY <1>3 DEF Rank
<1>5. CASE Head(ingress).of = s
  <2> DEFINE r == Rank(ingress[1])
  <2>1. Sent(s, r, ingress[1]) /\ r \in Nat /\ r <= sent[s] + 1 /\ n < r
    BY <1>1, <1>2, <1>5, QueuedFacts
  <2> HIDE DEF r
  <2>2. r = n + 1
    <3>1. SUFFICES ASSUME n + 1 < r PROVE FALSE BY <2>1
    <3>2. n + 1 \in n + 1 .. sent[s] BY <1>0, <2>1, <3>1
    <3>3. PICK i \in DOMAIN ingress : ingress[i] = Data(s, n + 1) BY <1>2, <3>2
    <3>4. Rank(ingress[i]) = n + 1 /\ ingress[i].of = s BY <3>3, DataRank
    <3>5. i # 1 BY <3>1, <3>4 DEF r
    <3>6. 1 < i BY <1>1, <3>5
    <3>7. r < Rank(ingress[i]) BY <1>1, <1>5, <3>4, <3>6 DEF QueueInv, r
    <3>. QED BY <2>1, <3>1, <3>4, <3>7
  <2>3. ASSUME NEW i \in DOMAIN ingress', ingress'[i].of = s PROVE n + 1 < Rank(ingress'[i])
    <3>1. i + 1 \in DOMAIN ingress /\ ingress'[i] = ingress[i + 1] /\ 1 < i + 1 BY <1>1
    <3>2. r < Rank(ingress[i + 1]) BY <1>1, <1>5, <2>3, <3>1 DEF QueueInv, r
    <3>. QED BY <2>2, <3>1, <3>2
  <2>4. ASSUME NEW k \in n + 1 + 1 .. sent[s] PROVE \E i \in DOMAIN ingress' : ingress'[i] = Data(s, k)
    <3>1. k \in n + 1 .. sent[s] /\ k # n + 1 BY <1>0
    <3>2. PICK i \in DOMAIN ingress : ingress[i] = Data(s, k) BY <1>2, <3>1
    <3>3. i # 1 BY <2>2, <3>1, <3>2, DataRank DEF r
    <3>4. i > 1 BY <1>1, <3>3
    <3>. QED BY <1>1, <3>2, <3>4
  <2>5. Follows(s, n + 1)' BY <1>3, <1>4, <2>3, <2>4 DEF Follows, Rank
  <2>. QED BY <1>1, <1>5, <2>1, <2>2, <2>5
<1>6. CASE Head(ingress).of # s
  <2>1. ASSUME NEW i \in DOMAIN ingress', ingress'[i].of = s PROVE n < Rank(ingress'[i])
    BY <1>1, <1>2, <2>1
  <2>2. ASSUME NEW k \in n + 1 .. sent[s] PROVE \E i \in DOMAIN ingress' : ingress'[i] = Data(s, k)
    <3>2. PICK i \in DOMAIN ingress : ingress[i] = Data(s, k) BY <1>2
    <3>3. i # 1 BY <1>1, <1>6, <3>2, DataRank
    <3>4. i > 1 BY <1>1, <3>3
    <3>. QED BY <1>1, <3>2, <3>4
  <2>3. Follows(s, n)' BY <1>3, <2>1, <2>2 DEF Follows, Rank
  <2>. QED BY <1>6, <2>3
<1>. QED BY <1>5, <1>6

\* A frame sent joins the rest, unless it is thrown away.
LEMMA SentFollows ==
  ASSUME StreamsAssumption, TypeOK, QueueInv, [Next]_vars, NEW s \in Streams, NEW n \in Nat,
         Follows(s, n), ~ TakeFrame, s \notin dropped', source[s] = "streaming" => n <= sent[s]
  PROVE  Follows(s, n)'
<1>0. sent[s] \in Nat BY DEF TypeOK, StreamsAssumption
<1>1. /\ \A i \in DOMAIN ingress : ingress[i].of = s => n < Rank(ingress[i])
      /\ \A k \in n + 1 .. sent[s] : \E i \in DOMAIN ingress : ingress[i] = Data(s, k)
  BY DEF Follows
<1>2. ASSUME NEW f, NEW i \in DOMAIN ingress, f = ingress[i], f.of = s
      PROVE  n < Rank(f)'
  <2>1. f \in Frame /\ Sent(f.of, Rank(f), f) BY <1>2, QueuedFacts
  <2>. QED BY <1>1, <1>2, <2>1, FrameStays
<1>3. CASE UNCHANGED <<ingress, sent, source>>
  BY <1>1, <1>3 DEF Follows, Rank
<1>4. CASE \E u \in Streams : SendData(u) \/ SendClose(u)
  <2>1. PICK u \in Streams : SendData(u) \/ SendClose(u) BY <1>4
  <2>2. PICK f \in Frame :
          /\ Queue(f) /\ f.of = u /\ Rank(f)' = sent[u] + 1 /\ Sent(u, Rank(f), f)'
          /\ source[u] = "streaming" /\ \A v \in Streams \ {u} : sent'[v] = sent[v]
    BY <2>1, SendFacts
  <2>3. \/ /\ DOMAIN ingress' = 1 .. Len(ingress) + 1 /\ DOMAIN ingress = 1 .. Len(ingress)
           /\ ingress'[Len(ingress) + 1] = f
           /\ \A i \in DOMAIN ingress : i \in DOMAIN ingress' /\ ingress'[i] = ingress[i]
        \/ UNCHANGED ingress /\ u # s
    BY <2>2, QueueGrows
  <2>4. Len(ingress) \in Nat BY QueuedFacts
  <2>5. ASSUME NEW i \in DOMAIN ingress', NEW g, g = ingress'[i], g.of = s PROVE n < Rank(g)'
    <3>1. CASE i \in DOMAIN ingress /\ ingress'[i] = ingress[i] BY <1>2, <2>5, <3>1
    <3>2. CASE g = f /\ u = s
      <4>1. Rank(g)' = sent[s] + 1 BY <2>2, <3>2
      <4>. QED BY <1>0, <2>2, <3>2, <4>1
    <3>. QED BY <2>2, <2>3, <2>4, <2>5, <3>1, <3>2
  <2>6. ASSUME NEW k \in n + 1 .. sent'[s] PROVE \E i \in DOMAIN ingress' : ingress'[i] = Data(s, k)
    <3>1. CASE k \in n + 1 .. sent[s]
      <4>1. PICK i \in DOMAIN ingress : ingress[i] = Data(s, k) BY <1>1, <3>1
      <4>. QED BY <2>3, <4>1
    <3>2. CASE k \notin n + 1 .. sent[s]
      <4>1. u = s /\ SendData(s)
        <5>1. sent'[s] # sent[s] BY <2>6, <3>2
        <5>2. u = s BY <2>2, <5>1
        <5>. QED BY <2>1, <5>1, <5>2 DEF SendClose
      <4>2. sent'[s] = sent[s] + 1 BY <4>1 DEF SendData, TypeOK
      <4>3. k = sent[s] + 1 BY <1>0, <2>6, <3>2, <4>2
      <4>4. f = Data(s, k)
        <5>1. Sent(s, k, f)' BY <2>2, <4>1, <4>3
        <5>2. k \in 1 .. sent'[s] BY <1>0, <4>2, <4>3
        <5>. QED BY <1>0, <4>2, <4>3, <5>1, <5>2 DEF Sent
      <4>5. Len(ingress) + 1 \in DOMAIN ingress' /\ ingress'[Len(ingress) + 1] = f
        BY <2>3, <2>4, <4>1
      <4>. QED BY <4>4, <4>5
    <3>. QED BY <3>1, <3>2
  <2>7. ASSUME NEW i \in DOMAIN ingress', ingress'[i].of = s PROVE n < Rank(ingress[i])'
    <3>1. PICK g : g = ingress'[i] OBVIOUS
    <3>2. n < Rank(g)' BY <2>5, <2>7, <3>1
    <3>. QED BY <3>1, <3>2 DEF Rank
  <2>. QED BY <2>6, <2>7 DEF Follows
<1>5. CASE \E u \in Streams : OpenStream(u) \/ Answer(u) \/ Reject(u)
  <2>1. UNCHANGED <<ingress, sent>> BY <1>5 DEF OpenStream, Answer, Reject
  <2>. QED BY <1>1, <2>1 DEF Follows, Rank
<1>. QED
  BY <1>3, <1>4, <1>5
  DEF Next, Thread, vars, provider, Request, RefuseEarly, RefuseKind, InvokeFails, Receive, SeeEnd,
      ClientCancel, Disconnect, LoseAnswer, Die, TakeOverflow, RemoveClient, Deliver, GiveUp,
      DropRoute, CloseExternalOnce

\* FlowInv of one stream, with q for what is received and on its way.
Flow(s, q) ==
  LET n == IF Delivers("events", s) THEN Len(q) + 1 ELSE Len(q) IN
  /\ Ordered(s, q)
  /\ Broken(q) => process = "removed" /\ ~ Delivers(s, s)
  /\ Delivers("events", s) => Sent(s, Own(q, Len(q)) + 1, FrameOf("events"))
  /\ process # "removed" /\ s \in routes /\ ~ GivesUp(s) => Follows(s, n)

\* Without a made-up close every frame is the provider's own.
LEMMA OwnOfWhole ==
  ASSUME NEW q \in Seq(Frame), ~ Broken(q)
  PROVE  \A i \in DOMAIN q : Own(q, i) = i /\ q[i].kind # "broken"
         /\ Own(q, Len(q)) = Len(q)
<1>1. DOMAIN q = 1 .. Len(q) /\ Len(q) \in Nat OBVIOUS
<1>2. \A i \in DOMAIN q : q[i].kind # "broken" BY DEF Broken
<1>3. \A i \in DOMAIN q : \A j \in 1 .. i : j \in DOMAIN q BY <1>1
<1>. QED BY <1>1, <1>2, <1>3 DEF Own

\* A provider that streams has sent all that is on its way.
LEMMA NotAhead ==
  ASSUME StreamsAssumption, TypeOK, NEW s \in Streams, NEW q \in Seq(Frame), Flow(s, q),
         process # "removed", source[s] = "streaming"
  PROVE  (IF Delivers("events", s) THEN Len(q) + 1 ELSE Len(q)) <= sent[s]
<1>1. sent[s] \in Nat /\ Len(q) \in Nat /\ DOMAIN q = 1 .. Len(q)
  BY DEF TypeOK, StreamsAssumption
<1>2. ~ Broken(q) BY DEF Flow
<1>3. \A k, f : Sent(s, k, f) => k <= sent[s] BY DEF Sent
<1>4. CASE Delivers("events", s)
  <2>1. Own(q, Len(q)) = Len(q)
    <3>1. ~ \E i \in 1 .. Len(q) : q[i].kind = "broken" BY <1>1, <1>2 DEF Broken
    <3>. QED BY <3>1 DEF Own
  <2>2. Sent(s, Len(q) + 1, FrameOf("events")) BY <1>4, <2>1 DEF Flow
  <2>. QED BY <1>3, <1>4, <2>2
<1>5. CASE ~ Delivers("events", s)
  <2>1. CASE Len(q) = 0 BY <1>1, <1>5, <2>1
  <2>2. CASE Len(q) # 0
    <3>1. Len(q) \in DOMAIN q BY <1>1, <2>2
    <3>2. Own(q, Len(q)) = Len(q) /\ q[Len(q)].kind # "broken" BY <1>2, <3>1, OwnOfWhole
    <3>3. Sent(s, Len(q), q[Len(q)]) BY <3>1, <3>2 DEF Flow, Ordered
    <3>. QED BY <1>3, <1>5, <3>3
  <2>. QED BY <2>1, <2>2
<1>. QED BY <1>4, <1>5

\* A step that puts nothing on the channel.
LEMMA FlowRests ==
  ASSUME StreamsAssumption, TypeOK, QueueInv, ThreadInv, StageInv, [Next]_vars, NEW s \in Streams,
         NEW q \in Seq(Frame), Flow(s, q), invoke[s] = "no" => q = <<>>, s \notin dropped',
         ~ \E t \in Threads : Deliver(t) /\ FrameOf(t).of = s /\ s \notin shut
  PROVE  Flow(s, q)'
<1>0. /\ thread \in [Threads -> {Idle} \cup (Plans \X Frame)] /\ sent[s] \in Nat /\ Len(q) \in Nat
      /\ DOMAIN q = 1 .. Len(q)
  BY DEF TypeOK, StreamsAssumption
<1>1. Ordered(s, q)' BY OrderedStays DEF Flow
<1>2. \A k, f : Sent(s, k, f) => Sent(s, k, f)' BY SentStays
<1>3. ASSUME Broken(q) PROVE process' = "removed" /\ ~ Delivers(s, s)'
  <2>1. process = "removed" /\ ~ Delivers(s, s) BY <1>3 DEF Flow
  <2>2. process' = "removed"
    BY <2>1
    DEF Next, Thread, vars, Request, RefuseEarly, RefuseKind, InvokeFails, OpenStream, Answer,
        Reject, SendData, SendClose, Receive, SeeEnd, ClientCancel, Disconnect, LoseAnswer, Die,
        TakeFrame, TakeOverflow, RemoveClient, Deliver, GiveUp, DropRoute, CloseExternalOnce, Heard
  <2>3. ~ RemoveClient BY <2>1 DEF RemoveClient
  <2>4. s \in Threads /\ s # "events" /\ s # "control" BY Loops
  <2>5. CASE thread'[s] = thread[s] BY <2>1, <2>2, <2>5 DEF Delivers, Busy, Plan, FrameOf
  <2>6. CASE Thread(s)
    <3>1. thread[s] # Idle /\ FrameOf(s) = Other(s, "broken") BY <2>4, <2>6, StepFacts DEF ThreadInv
    <3>2. Plan(s) # <<"deliver">> BY <2>1, <3>1 DEF Delivers, Busy, Other
    <3>3. thread'[s] = Idle \/ Plan(s)' # <<"deliver">> BY <2>4, <2>6, <3>2, StepFacts, PlanFacts
    <3>. QED BY <2>2, <3>3 DEF Delivers, Busy
  <2>. QED BY <2>3, <2>4, <2>5, <2>6, ThreadMoves
<1>4. ASSUME Delivers("events", s)' PROVE Sent(s, Own(q, Len(q)) + 1, FrameOf("events"))'
  <2>1. CASE Delivers("events", s) /\ FrameOf("events")' = FrameOf("events")
    <3>1. PICK f : f = FrameOf("events") OBVIOUS
    <3>2. Sent(s, Own(q, Len(q)) + 1, f) BY <2>1, <3>1 DEF Flow
    <3>3. Sent(s, Own(q, Len(q)) + 1, f)' BY <1>2, <3>2
    <3>. QED BY <2>1, <3>1, <3>3 DEF Sent
  <2>2. CASE /\ TakeFrame /\ s \in routes /\ Head(ingress).of = s
             /\ FrameOf("events")' = Head(ingress)
    <3>1. process # "removed" BY <2>2 DEF ThreadInv
    <3>2. thread["events"] = Idle BY <2>2, TakeFacts
    <3>3. Follows(s, Len(q)) BY <2>2, <3>1, <3>2 DEF Flow, GivesUp, Busy, Delivers
    <3>4. PICK f : f = Head(ingress) OBVIOUS
    <3>5. Sent(s, Len(q) + 1, f) BY <1>0, <2>2, <3>3, <3>4, TakenFollows
    <3>6. Own(q, Len(q)) = Len(q)
      <4>1. ~ \E i \in 1 .. Len(q) : q[i].kind = "broken" BY <1>0, <3>1 DEF Broken, Flow
      <4>. QED BY <4>1 DEF Own
    <3>7. Sent(s, Own(q, Len(q)) + 1, f)' BY <1>2, <3>5, <3>6
    <3>. QED BY <2>2, <3>4, <3>7 DEF Sent
  <2>. QED BY <1>4, <2>1, <2>2, DeliversBefore
<1>5. ASSUME process' # "removed", s \in routes', ~ GivesUp(s)'
      PROVE  /\ Delivers("events", s)' => Follows(s, Len(q) + 1)'
             /\ ~ Delivers("events", s)' => Follows(s, Len(q))'
  <2>0. process # "removed" /\ (Request(s) \/ (s \in routes /\ ~ GivesUp(s)))
    BY <1>5, RouteBefore
  <2>1. CASE Request(s)
    <3>1. /\ invoke[s] = "no" /\ UNCHANGED <<thread, ingress, sent, source>>
      BY <2>1 DEF Request, provider
    <3>2. q = <<>> /\ source[s] = "no" /\ sent[s] = 0 /\ \A t \in Threads : ~ Busy(t, s)
      BY <3>1 DEF StageInv
    <3>3. ~ Queued(s) BY <3>2, AskedFacts
    <3>4. ~ Delivers("events", s)'
      BY <3>1, <3>2, Loops DEF Delivers, Busy, FrameOf, Plan
    <3>5. Len(q) = 0 BY <3>2
    <3>6. Follows(s, 0) BY <3>2, <3>3 DEF Follows, Queued
    <3>7. Follows(s, 0)' BY <3>1, <3>6 DEF Follows, Rank
    <3>. QED BY <3>4, <3>5, <3>7
  <2>2. CASE TakeFrame /\ s \in routes /\ ~ GivesUp(s)
    <3>1. thread["events"] = Idle BY <2>2, TakeFacts
    <3>2. Follows(s, Len(q)) BY <2>0, <2>2, <3>1 DEF Flow, Busy, Delivers
    <3>3. CASE Head(ingress).of = s
      <4>1. thread' = [thread EXCEPT !["events"] = <<<<"deliver">>, Head(ingress)>>]
        BY <2>2, <3>3, TakeFacts
      <4>2. thread'["events"] = <<<<"deliver">>, Head(ingress)>> BY <1>0, <4>1, Loops
      <4>3. Delivers("events", s)' BY <3>3, <4>2 DEF Delivers, Busy, FrameOf, Plan, Idle
      <4>. QED BY <1>0, <2>2, <3>2, <3>3, <4>3, TakenFollows
    <3>4. CASE Head(ingress).of # s
      <4>1. ~ Delivers("events", s)' BY <2>2, <3>1, <3>4, DeliversBefore DEF Delivers, Busy
      <4>. QED BY <1>0, <2>2, <3>2, <3>4, <4>1, TakenFollows
    <3>. QED BY <3>3, <3>4
  <2>3. CASE ~ TakeFrame /\ s \in routes /\ ~ GivesUp(s)
    <3>1. Delivers("events", s)' => Delivers("events", s) BY <2>3, DeliversBefore
    <3>2. ASSUME Delivers("events", s), ~ Delivers("events", s)' PROVE FALSE
      <4>1. /\ thread["events"] # Idle /\ FrameOf("events").of = s
            /\ Plan("events") = <<"deliver">>
        BY <3>2 DEF Delivers, Busy
      <4>2. thread'["events"] # thread["events"] BY <3>2 DEF Delivers, Busy, Plan, FrameOf
      <4>3. Thread("events")
        <5>1. ~ (RemoveClient /\ "events" \in routes) BY Loops DEF TypeOK
        <5>. QED BY <2>3, <4>2, <5>1, Loops, ThreadMoves
      <4>4. CASE Deliver("events")
        <5>1. s \in shut BY <4>1, <4>4, Loops
        <5>. QED BY <4>1, <4>2, <4>4, <5>1, Loops, DeliverFacts
      <4>5. CASE GiveUp("events")
        <5>1. thread' = [thread EXCEPT !["events"] = <<<<"drop", "close">>, FrameOf("events")>>]
          BY <4>5, Loops, GiveUpFacts
        <5>2. thread'["events"] = <<<<"drop", "close">>, FrameOf("events")>> BY <1>0, <5>1, Loops
        <5>3. GivesUp(s)' BY <4>1, <5>2 DEF GivesUp, Busy, Plan, FrameOf, Idle
        <5>. QED BY <1>5, <5>3
      <4>6. CASE DropRoute("events") BY <4>1, <4>6, Loops, DropFacts, PlanFacts
      <4>7. CASE CloseExternalOnce("events") BY <4>1, <4>7, Loops, CloseFacts, PlanFacts
      <4>. QED BY <4>3, <4>4, <4>5, <4>6, <4>7 DEF Thread
    <3>3. CASE Delivers("events", s)
      <4>1. Follows(s, Len(q) + 1) BY <2>0, <2>3, <3>3 DEF Flow
      <4>2. source[s] = "streaming" => Len(q) + 1 <= sent[s] BY <2>0, <3>3, NotAhead
      <4>3. Follows(s, Len(q) + 1)' BY <1>0, <2>3, <4>1, <4>2, SentFollows
      <4>. QED BY <3>2, <3>3, <4>3
    <3>4. CASE ~ Delivers("events", s)
      <4>1. Follows(s, Len(q)) BY <2>0, <2>3, <3>4 DEF Flow
      <4>2. source[s] = "streaming" => Len(q) <= sent[s] BY <2>0, <3>4, NotAhead
      <4>3. Follows(s, Len(q))' BY <1>0, <2>3, <4>1, <4>2, SentFollows
      <4>. QED BY <3>1, <3>4, <4>3
    <3>. QED BY <3>3, <3>4
  <2>. QED BY <2>0, <2>1, <2>2, <2>3
<1>. QED BY <1>1, <1>3, <1>4, <1>5 DEF Flow

\* A frame put on the channel.
LEMMA FlowGrows ==
  ASSUME StreamsAssumption, TypeOK, QueueInv, ThreadInv, StageInv, [Next]_vars, NEW s \in Streams,
         NEW q \in Seq(Frame), Flow(s, q), s \notin dropped, NEW t \in Threads, Deliver(t),
         NEW f, f = FrameOf(t), f.of = s, s \notin shut
  PROVE  Flow(s, Append(q, f))'
<1>0. thread \in [Threads -> {Idle} \cup (Plans \X Frame)] BY DEF TypeOK
<1>1. /\ thread[t] # Idle /\ Plan(t) = <<"deliver">> /\ f \in Frame
      /\ thread' = [thread EXCEPT ![t] =
           IF t \in Streams THEN <<<<"close">>, f>>
           ELSE IF f.kind = "data" THEN Idle ELSE <<<<"close", "drop">>, f>>]
  BY DeliverFacts, BusyFacts
<1>2. UNCHANGED <<ingress, sent, source, routes, process>> BY DEF Deliver, provider
<1>3. \A k, g : Sent(s, k, g) => Sent(s, k, g)' BY SentStays
<1>4. Delivers(t, s) BY <1>1 DEF Delivers, Busy
<1>5. CASE t = "control"
  <2>1. overflow = {s} BY <1>1, <1>5 DEF ThreadInv
  <2>2. s \in dropped BY <2>1 DEF TypeOK
  <2>. QED BY <2>2
<1>6. CASE t = "events"
  <2>1. Sent(s, Own(q, Len(q)) + 1, f) BY <1>4, <1>6 DEF Flow
  <2>2. f.kind # "broken" BY <2>1, RankOfSent
  <2>3. /\ Ordered(s, Append(q, f)) /\ (Broken(Append(q, f)) <=> Broken(q))
        /\ Len(Append(q, f)) = Len(q) + 1
    BY <1>1, <2>1, <2>2, AppendOrdered DEF Flow
  <2> DEFINE a == Append(q, f)
  <2> HIDE DEF a
  <2>4. Ordered(s, a)' BY <2>3, OrderedStays DEF a
  <2>5. ~ Delivers("events", s)'
    BY <1>0, <1>1, <1>6, Loops, PlanFacts DEF Delivers, Busy, Plan, FrameOf
  <2>6. Delivers(s, s)' <=> Delivers(s, s)
    BY <1>0, <1>1, <1>6, Loops DEF Delivers, Busy, Plan, FrameOf
  <2>7. Broken(a) => process' = "removed" /\ ~ Delivers(s, s)'
    BY <1>2, <2>3, <2>6 DEF Flow, a
  <2>8. ASSUME process' # "removed", s \in routes' PROVE Follows(s, Len(a))'
    <3>1. ~ GivesUp(s) BY <1>1, <1>6, PlanFacts DEF GivesUp
    <3>2. Follows(s, Len(a)) BY <1>2, <1>4, <1>6, <2>3, <2>8, <3>1 DEF Flow, a
    <3>. QED BY <1>2, <3>2 DEF Follows, Rank
  <2>9. Flow(s, a)' BY <2>4, <2>5, <2>7, <2>8 DEF Flow
  <2>. QED BY <2>9 DEF a
<1>7. CASE t \in Streams
  <2>1. t = s /\ f.kind = "broken" /\ process = "removed"
    BY <1>1, <1>7 DEF ThreadInv, Other
  <2>2. ~ Broken(q) BY <1>4, <2>1 DEF Flow
  <2>3. /\ Ordered(s, Append(q, f)) /\ Len(Append(q, f)) = Len(q) + 1
        /\ Own(Append(q, f), Len(q) + 1) = Own(q, Len(q))
    BY <1>1, <2>1, <2>2, AppendOrdered DEF Flow
  <2> DEFINE a == Append(q, f)
  <2> HIDE DEF a
  <2>4. Ordered(s, a)' BY <2>3, OrderedStays DEF a
  <2>5. ~ Delivers(s, s)'
    BY <1>0, <1>1, <2>1, PlanFacts DEF Delivers, Busy, Plan, FrameOf
  <2>6. thread'["events"] = thread["events"] BY <1>0, <1>1, <2>1, Loops
  <2>7. ASSUME Delivers("events", s)' PROVE Sent(s, Own(a, Len(a)) + 1, FrameOf("events"))'
    <3>1. PICK g : g = FrameOf("events") OBVIOUS
    <3>2. g = FrameOf("events")' BY <2>6, <3>1 DEF FrameOf
    <3>3. Delivers("events", s) BY <2>6, <2>7 DEF Delivers, Busy, FrameOf, Plan
    <3>4. Sent(s, Own(a, Len(a)) + 1, g) BY <2>3, <3>1, <3>3 DEF Flow, a
    <3>5. Sent(s, Own(a, Len(a)) + 1, g)' BY <1>3, <3>4
    <3>. QED BY <3>2, <3>5 DEF Sent
  <2>8. process' = "removed" BY <1>2, <2>1
  <2>9. Flow(s, a)' BY <2>4, <2>5, <2>7, <2>8 DEF Flow
  <2>. QED BY <2>9 DEF a
<1>. QED BY <1>5, <1>6, <1>7 DEF Threads

\* FlowInv is Flow of each stream whose frames are all kept.
LEMMA FlowIsInv ==
  FlowInv <=> \A s \in Streams \ dropped : client[s] # "gone" => Flow(s, got[s] \o chan[s])
BY DEF FlowInv, Flow, GivesUp, Follows

\* Every step keeps what is on its way behind what is received.
LEMMA StepKeepsFlow ==
  ASSUME StreamsAssumption, TypeOK, QueueInv, ThreadInv, StageInv, FlowInv, [Next]_vars
  PROVE  FlowInv'
<1>1. SUFFICES ASSUME NEW s \in Streams, s \notin dropped', client'[s] # "gone"
               PROVE  Flow(s, got[s] \o chan[s])'
  <2>1. FlowInv' <=> (\A s \in Streams \ dropped : client[s] # "gone" => Flow(s, got[s] \o chan[s]))'
    BY DEF FlowInv, Flow, GivesUp, Follows
  <2>. QED BY <2>1
<1>2. PICK q : q = got[s] \o chan[s] OBVIOUS
<1>3. got[s] \in Seq(Frame) /\ chan[s] \in Seq(Frame) /\ q \in Seq(Frame)
  BY <1>2, Concat DEF TypeOK
<1>4. s \notin dropped
  BY <1>1
  DEF Next, Thread, vars, notes, Queue, Request, RefuseEarly, RefuseKind, InvokeFails, Fails,
      Trouble, OpenStream, Answer, Reject, SendData, SendClose, Receive, SeeEnd, ClientCancel,
      Disconnect, LoseAnswer, Die, TakeFrame, TakeOverflow, RemoveClient, Deliver, GiveUp,
      DropRoute, CloseExternalOnce
<1>5. client[s] # "gone" BY <1>1, FlowMoves
<1>6. Flow(s, q) BY <1>2, <1>4, <1>5, FlowIsInv
<1>7. CASE \E t \in Threads : Deliver(t) /\ FrameOf(t).of = s /\ s \notin shut
  <2>1. PICK t \in Threads : Deliver(t) /\ FrameOf(t).of = s /\ s \notin shut BY <1>7
  <2>2. PICK f : f = FrameOf(t) OBVIOUS
  <2>3. Flow(s, Append(q, f))' BY <1>3, <1>4, <1>6, <2>1, <2>2, FlowGrows
  <2>4. (got[s] \o chan[s])' = Append(q, f)
    <3>1. thread[t] # Idle /\ chan' = [chan EXCEPT ![s] = Append(@, f)] BY <2>1, <2>2, DeliverFacts
    <3>2. f \in Frame BY <2>2, <3>1, BusyFacts
    <3>3. chan'[s] = Append(chan[s], f) /\ got'[s] = got[s]
      BY <2>1, <3>1 DEF TypeOK, Deliver, gateway
    <3>4. ASSUME NEW g \in Seq(Frame), NEW c \in Seq(Frame)
          PROVE  g \o Append(c, f) = Append(g \o c, f)
      BY <3>2, Concat
    <3>5. got[s] \o Append(chan[s], f) = Append(got[s] \o chan[s], f) BY <1>3, <3>4
    <3>. QED BY <1>2, <3>3, <3>5
  <2>. QED BY <2>3, <2>4 DEF Flow
<1>8. CASE ~ \E t \in Threads : Deliver(t) /\ FrameOf(t).of = s /\ s \notin shut
  <2>1. invoke[s] = "no" => q = <<>>
    <3>1. invoke[s] = "no" => got[s] = <<>> /\ chan[s] = <<>> BY DEF StageInv
    <3>2. <<>> \o <<>> = <<>> OBVIOUS
    <3>. QED BY <1>2, <3>1, <3>2
  <2>2. Flow(s, q)' BY <1>1, <1>3, <1>6, <1>8, <2>1, FlowRests
  <2>3. (got[s] \o chan[s])' = q BY <1>1, <1>2, <1>8, FlowMoves
  <2>. QED BY <2>2, <2>3 DEF Flow
<1>. QED BY <1>7, <1>8

\* Every step leaves what is received in order.
LEMMA StepKeepsOrder ==
  ASSUME StreamsAssumption, TypeOK, FlowInv, InOrder, [Next]_vars
  PROVE  InOrder'
<1>1. SUFFICES ASSUME NEW s \in Streams, s \notin dropped'
               PROVE  /\ Ordered(s, got[s])'
                      /\ process' = "running" =>
                           \A i \in 1 .. Len(got'[s]) - 1 : got'[s][i].kind = "data"
  BY DEF InOrder
<1>2. s \notin dropped
  BY <1>1
  DEF Next, Thread, vars, notes, Queue, Request, RefuseEarly, RefuseKind, InvokeFails, Fails,
      Trouble, OpenStream, Answer, Reject, SendData, SendClose, Receive, SeeEnd, ClientCancel,
      Disconnect, LoseAnswer, Die, TakeFrame, TakeOverflow, RemoveClient, Deliver, GiveUp,
      DropRoute, CloseExternalOnce
<1>3. process' = "running" => process = "running"
  BY DEF Next, Thread, vars, Request, RefuseEarly, RefuseKind, InvokeFails, OpenStream, Answer,
         Reject, SendData, SendClose, Receive, SeeEnd, ClientCancel, Disconnect, LoseAnswer, Die,
         TakeFrame, TakeOverflow, RemoveClient, Deliver, GiveUp, DropRoute, CloseExternalOnce,
         Heard
<1>4. CASE got'[s] = got[s]
  <2>1. PICK p : p = got[s] OBVIOUS
  <2>2. Ordered(s, p) BY <1>2, <2>1 DEF InOrder
  <2>3. Ordered(s, p)' BY <2>2, OrderedStays
  <2>4. Ordered(s, got[s])' BY <1>4, <2>1, <2>3 DEF Ordered, Own, Sent
  <2>5. process' = "running" => \A i \in 1 .. Len(got'[s]) - 1 : got'[s][i].kind = "data"
    BY <1>2, <1>3, <1>4 DEF InOrder
  <2>. QED BY <2>4, <2>5
<1>5. CASE Receive(s) /\ chan[s] # <<>> /\ got'[s] = Append(got[s], Head(chan[s]))
  <2>0. got[s] \in Seq(Frame) /\ chan[s] \in Seq(Frame) BY DEF TypeOK
  <2>1. PICK q : q = got[s] \o chan[s] OBVIOUS
  <2>2. PICK p : p = got'[s] OBVIOUS
  <2>3. /\ q \in Seq(Frame) /\ p \in Seq(Frame) /\ Len(p) <= Len(q)
        /\ \A i \in 1 .. Len(p) : p[i] = q[i]
    <3>1. PICK g \in Seq(Frame) : g = got[s] BY <2>0
    <3>2. PICK c \in Seq(Frame) : c = chan[s] BY <2>0
    <3>3. c # <<>> /\ p = Append(g, Head(c)) /\ q = g \o c BY <1>5, <2>1, <2>2, <3>1, <3>2
    <3>. QED BY <3>3, Concat
  <2>4. client[s] # "gone" BY <1>5 DEF Receive, Receives
  <2>5. Flow(s, q) BY <1>2, <2>1, <2>4, FlowIsInv
  <2>6. Ordered(s, q) BY <2>5 DEF Flow
  <2>7. Ordered(s, p)' BY <2>3, <2>6, PrefixOrdered, OrderedStays
  <2>8. Ordered(s, got[s])' BY <2>2, <2>7 DEF Ordered, Own, Sent
  <2>9. ASSUME process' = "running", NEW i \in 1 .. Len(p) - 1 PROVE p[i].kind = "data"
    <3>1. ~ Broken(q) BY <1>3, <2>5, <2>9 DEF Flow
    <3>2. /\ i \in 1 .. Len(p) /\ i \in DOMAIN q /\ i + 1 \in DOMAIN q /\ i \in Nat
      <4>1. Len(p) \in Nat /\ Len(q) \in Nat /\ DOMAIN q = 1 .. Len(q) BY <2>3
      <4>. QED BY <2>3, <4>1
    <3>3. /\ Own(q, i) = i /\ q[i].kind # "broken"
          /\ Own(q, i + 1) = i + 1 /\ q[i + 1].kind # "broken"
      BY <2>3, <3>1, <3>2, OwnOfWhole
    <3>4. Sent(s, i, q[i]) /\ Sent(s, i + 1, q[i + 1]) BY <2>6, <3>2, <3>3 DEF Ordered
    <3>5. i + 1 <= sent[s] + 1 BY <3>4, RankOfSent
    <3>6. sent[s] \in Nat BY DEF TypeOK, StreamsAssumption
    <3>7. q[i].kind = "data" BY <3>2, <3>4, <3>5, <3>6, RankOfSent
    <3>. QED BY <2>3, <3>2, <3>7
  <2>. QED BY <2>2, <2>8, <2>9
<1>. QED BY <1>4, <1>5, ChannelMoves

\* Whoever is done has read the end of its stream.
LEMMA EndsAreTold ==
  ASSUME TypeOK, StageInv, EndInv
  PROVE  EndIsTold
<1>1. SUFFICES ASSUME NEW s \in Streams \ (Wedgeable \cup outrun), client[s] = "done",
                      process = "running"
               PROVE  \E i \in 1 .. Len(got[s]) : got[s][i].kind \in {"close", "broken"}
  BY DEF EndIsTold
<1>2. invoke[s] \in {"accepted", "error"} BY <1>1 DEF StageInv
<1>3. HasEnd(got[s]) BY <1>1, <1>2 DEF EndInv
<1>4. got[s] \in Seq(Frame) BY DEF TypeOK
<1>5. DOMAIN got[s] = 1 .. Len(got[s]) BY <1>4
<1>. QED BY <1>3, <1>5 DEF HasEnd

\* Inv, without what follows from the rest of it.
Core ==
  TypeOK /\ InOrder /\ QueueInv /\ ThreadInv /\ StageInv /\ FlowInv /\ EndInv /\ CloseInv

\* The rest of Inv implies all of it.
LEMMA CoreIsInv == Core => Inv
BY EndsAreTold DEF Core, Inv

\* It holds at the start.
LEMMA InitHolds == Init => Core
<1> SUFFICES ASSUME Init PROVE Core
  OBVIOUS
<1> USE StreamsAssumption
<1>0. /\ <<>> \in Seq(Frame) /\ Len(<<>>) = 0 /\ DOMAIN <<>> = {} /\ <<>> \o <<>> = <<>>
  OBVIOUS
<1>1. TypeOK
  <2>1. 0 \in 0 .. MaxData /\ 0 \in 0 .. MaxTroubles /\ 0 <= Ingress /\ 0 <= Room
    BY DEF StreamsAssumption
  <2>2. /\ sent \in [Streams -> 0 .. MaxData] /\ troubles \in 0 .. MaxTroubles
        /\ ingress \in Seq(Frame) /\ Len(ingress) <= Ingress
    BY <1>0, <2>1 DEF Init
  <2>3. chan \in [Streams -> Seq(Frame)] /\ got \in [Streams -> Seq(Frame)]
    BY <1>0 DEF Init
  <2>4. \A s \in Streams : Len(chan[s]) <= Room BY <1>0, <2>1 DEF Init
  <2>5. thread \in [Threads -> {Idle} \cup (Plans \X Frame)] BY DEF Init
  <2>6. /\ invoke \in [Streams -> {"no", "calling", "refused", "mismatch", "accepted", "error",
                              "failed"}]
        /\ source \in [Streams -> {"no", "streaming", "over"}]
        /\ client \in [Streams -> {"reading", "gone", "lost", "done"}]
    BY DEF Init
  <2>7. /\ stop \subseteq Streams /\ routes \subseteq Streams /\ dropped \subseteq Streams
        /\ outrun \subseteq Streams /\ overflow = {} /\ answered \subseteq Streams
        /\ shut \subseteq Streams /\ once \subseteq Streams /\ process \in {"running", "dead", "removed"}
        /\ crashed \in BOOLEAN
    BY DEF Init
  <2>. QED BY <2>2, <2>3, <2>4, <2>5, <2>6, <2>7 DEF TypeOK
<1>2. InOrder
  <2>1. \A s \in Streams : got[s] = <<>> BY DEF Init
  <2>2. \A i \in 1 .. Len(<<>>) - 1 : FALSE OBVIOUS
  <2>3. \A s : Ordered(s, <<>>) BY <1>0 DEF Ordered
  <2>. QED BY <2>1, <2>2, <2>3 DEF InOrder
<1>3. \A s \in Streams, t \in Threads : ~ Busy(t, s) /\ ~ Delivers(t, s)
  BY DEF Init, Busy, Delivers
<1>4. QueueInv BY <1>0 DEF Init, QueueInv
<1>5. ThreadInv BY Loops DEF Init, ThreadInv
<1>6. StageInv
  <2>1. ASSUME NEW s \in Streams
        PROVE  /\ invoke[s] = "no" /\ source[s] = "no" /\ sent[s] = 0 /\ got[s] = <<>>
               /\ chan[s] = <<>> /\ client[s] = "reading"
    BY DEF Init
  <2>2. answered = {} /\ routes = {} /\ once = {} /\ overflow = {} /\ shut = {} BY DEF Init
  <2>3. ASSUME NEW s \in Streams
        PROVE  s \notin answered /\ s \notin routes \cup once \cup overflow /\ s \notin shut
    BY <2>2
  <2>. QED BY <1>3, <2>1, <2>3 DEF StageInv
<1>7. FlowInv
  <2>1. \A s \in Streams : Flow(s, <<>>) BY <1>0, <1>3, Loops DEF Init, Flow, Ordered, Broken
  <2>2. \A s \in Streams : got[s] \o chan[s] = <<>> BY <1>0 DEF Init
  <2>. QED BY <2>1, <2>2, FlowIsInv
<1>9. EndInv BY <1>3, Loops DEF Init, EndInv
<1>10. CloseInv BY DEF Init, CloseInv
<1>. QED BY <1>1, <1>2, <1>4, <1>5, <1>6, <1>7, <1>9, <1>10 DEF Core

\* Every step keeps it.
LEMMA StepHolds ==
  ASSUME Core, [Next]_vars
  PROVE  Core'
<1> USE StreamsAssumption
<1>0. /\ TypeOK /\ InOrder /\ QueueInv /\ ThreadInv /\ StageInv /\ FlowInv
      /\ EndInv /\ CloseInv
  BY DEF Core
<1>1. TypeOK' BY <1>0, StepKeepsTypes
<1>2. QueueInv' BY <1>0, StepKeepsQueue
<1>3. ThreadInv' BY <1>0, <1>1, StepKeepsThreads
<1>4. StageInv' BY <1>0, <1>1, <1>3, StepKeepsStages
<1>5. FlowInv' BY <1>0, StepKeepsFlow
<1>7. EndInv' BY <1>0, <1>1, <1>3, StepKeepsEnds
<1>8. CloseInv' BY <1>0, <1>1, <1>3, StepKeepsClosed
<1>9. InOrder' BY <1>0, StepKeepsOrder
<1>. QED BY <1>1, <1>2, <1>3, <1>4, <1>5, <1>7, <1>8, <1>9 DEF Core

\* Inv holds in every reachable state: a client receives what the provider has sent, in
\* order and without a gap, and is told of the end.
THEOREM InvHolds == Spec => []Inv
<1>1. Core /\ [Next]_vars => Core' BY StepHolds
<1>. QED BY <1>1, InitHolds, CoreIsInv, PTL DEF Spec

\* kernel/docs/01, C14: while the provider behaves, the kernel neither sends on a closed
\* channel nor closes one twice.
THEOREM KernelLives == Spec => []KernelSurvives
<1>1. Inv => KernelSurvives BY DEF Inv, CloseInv, KernelSurvives
<1>. QED BY <1>1, InvHolds, PTL
==============================================================================
