----------------------------- MODULE PluginStreams -----------------------------
(***************************************************************************)
(* The streams one plugin consumes from another: RequestContext.CommandStream *)
(* and Stream of the plugin host SDK on both ends, the Router between them. *)
(* The engineering workflow runs its agents over such streams.              *)
(*                                                                          *)
(* The consumer's requests and cancels go to the Router in one loop, each    *)
(* served to its end before the next.  Frames come back by the provider's    *)
(* bounded ingress queue, answers by the call itself, so either may come     *)
(* first.  In the consumer the reader of stdin puts frames on the channel of *)
(* their stream without waiting; the stream's table entry is looked up under *)
(* the lock and used after it.  In Go a send on a closed channel, or a       *)
(* second close, panics and takes the whole plugin down.                     *)
(*                                                                          *)
(* One consumer and one provider runtime.  What a process writes on a pipe   *)
(* is read at once, except for the consumer's two queues (out, in).          *)
(***************************************************************************)
EXTENDS Naturals, Sequences, FiniteSets

CONSTANTS
  Streams,
  MaxData,  \* bound: data frames of a stream
  Ingress,  \* capacity of streamEvents (256 in the code)
  Room,     \* capacity of a stream's channel (64)
  MaxCalls, \* bound: other calls of the consumer
  Other,    \* another call of the consumer's, with no stream
  None      \* no call

ASSUME PluginStreamsAssumption ==
  /\ {MaxData, Ingress, Room} \subseteq Nat \ {0} /\ MaxCalls \in Nat
  /\ None # Other /\ None \notin Streams /\ Other \notin Streams

VARIABLES
  call,      \* CommandStream of each stream, and the loop over its frames
  reply,     \* the answer in the channel of the pending call
  table,     \* Host.streams
  chan, shut,\* the channel of each stream
  held,      \* the frame whose channel Serve has looked up
  parting,   \* overflown streams whose last frame waits for room
  got,       \* what the loop has read
  calls,     \* how many other calls it has made
  cancelled, \* streams the consumer has sent a cancel for
  crashed,   \* the consumer
  out,       \* the consumer's stdout
  in,        \* the consumer's stdin
  invoke,    \* the call serveInbound waits for
  routes,    \* Router.streams
  due,       \* the streams whose deadline has passed
  ingress,   \* streamEvents of the provider
  overflow,  \* streams whose made-up close the control loop has yet to forward
  dropped,   \* streams of which the reader has thrown a frame away
  process,   \* the provider: running, dead, or removed from the router
  source,    \* its handler and goroutine for each stream
  answered,  \* the streams whose handler has returned
  sent,      \* data frames written
  stop       \* streams whose context a cancel has ended

consumer == <<call, reply, table, chan, shut, held, parting, got, calls, cancelled, crashed>>
pipes == <<out, in>>
router == <<invoke, routes, ingress, overflow, dropped>>
provider == <<process, source, answered, sent, stop>>
vars == <<consumer, pipes, router, due, provider>>

\* What the provider streams, and what the answer to the call is.
Streamed == {"data", "close", "broken"}
StreamFrame == [of : Streams, kind : Streamed, n : Nat]
Frame == [of : Streams, kind : {"accepted", "error"} \cup Streamed, n : Nat]
Data(s, n) == [of |-> s, kind |-> "data", n |-> n]
\* "broken": a close the router or the host makes up, with an error code.
Made(s, k) == [of |-> s, kind |-> k, n |-> 0]
Ends(f) == f.kind \in {"close", "broken"}

\* "cancel" names the stream, "abandon" the request.
Order == [of : Streams \cup {Other}, kind : {"request", "cancel", "abandon"}]
Ordered(s, k) == out' = Append(out, [of |-> s, kind |-> k])

Init ==
  /\ call = [s \in Streams |-> "no"] /\ reply = [s \in Streams |-> "none"]
  /\ table = {} /\ chan = [s \in Streams |-> <<>>] /\ shut = {}
  /\ held = <<>> /\ parting = {} /\ got = [s \in Streams |-> <<>>]
  /\ calls = 0 /\ cancelled = {} /\ crashed = FALSE
  /\ out = <<>> /\ in = <<>>
  /\ invoke = None /\ routes = {} /\ due = {}
  /\ ingress = <<>> /\ overflow = {} /\ dropped = {}
  /\ process = "running" /\ source = [s \in Streams |-> "no"]
  /\ answered = {} /\ sent = [s \in Streams |-> 0] /\ stop = {}

(***************************************************************************)
(* The consumer: CommandStream, the loop over Stream.C, Stream.Cancel.      *)
(***************************************************************************)
Start(s) ==
  /\ ~crashed /\ call[s] = "no"
  /\ call' = [call EXCEPT ![s] = "calling"]
  /\ table' = table \cup {s}
  /\ Ordered(s, "request")
  /\ UNCHANGED <<reply, chan, shut, held, parting, got, calls, cancelled, crashed, in, router, due,
                 provider>>

\* Some other handler of the consumer makes a call.
CallOther ==
  /\ ~crashed /\ calls < MaxCalls
  /\ calls' = calls + 1
  /\ Ordered(Other, "request")
  /\ UNCHANGED <<call, reply, table, chan, shut, held, parting, got, cancelled, crashed, in,
                 router, due, provider>>

Close(s) ==
  IF s \in shut THEN crashed' = TRUE /\ UNCHANGED shut
                ELSE shut' = shut \cup {s} /\ UNCHANGED crashed

\* The call has failed: the entry is deleted and the channel closed.
Forget(s) ==
  /\ call' = [call EXCEPT ![s] = "failed"]
  /\ table' = table \ {s}
  /\ Close(s)

Accepted(s) ==
  /\ ~crashed /\ call[s] = "calling" /\ reply[s] = "accepted"
  /\ call' = [call EXCEPT ![s] = "reading"]
  /\ UNCHANGED <<reply, table, chan, shut, held, parting, got, calls, cancelled, crashed, pipes,
                 router, due, provider>>

Refused(s) ==
  /\ ~crashed /\ call[s] = "calling" /\ reply[s] = "error"
  /\ Forget(s)
  /\ UNCHANGED <<reply, chan, held, parting, got, calls, cancelled, pipes, router, due, provider>>

\* The timer of invokeEnvelope, also if the answer has come in the same instant.
TimesOut(s) ==
  /\ ~crashed /\ call[s] = "calling" /\ s \in due
  /\ Ordered(s, "abandon")
  /\ Forget(s)
  /\ UNCHANGED <<reply, chan, held, parting, got, calls, cancelled, in, router, due, provider>>

Receive(s) ==
  /\ ~crashed /\ call[s] = "reading" /\ chan[s] # <<>>
  /\ chan' = [chan EXCEPT ![s] = Tail(@)]
  /\ got' = [got EXCEPT ![s] = Append(@, Head(chan[s]))]
  /\ UNCHANGED <<call, reply, table, shut, held, parting, calls, cancelled, crashed, pipes, router,
                 due, provider>>

SeeEnd(s) ==
  /\ ~crashed /\ call[s] = "reading" /\ chan[s] = <<>> /\ s \in shut
  /\ call' = [call EXCEPT ![s] = "done"]
  /\ UNCHANGED <<reply, table, chan, shut, held, parting, got, calls, cancelled, crashed, pipes,
                 router, due, provider>>

Cancel(s) ==
  /\ ~crashed /\ call[s] = "reading" /\ s \notin cancelled
  /\ cancelled' = cancelled \cup {s}
  /\ Ordered(s, "cancel")
  /\ UNCHANGED <<call, reply, table, chan, shut, held, parting, got, calls, crashed, in, router,
                 due, provider>>

(***************************************************************************)
(* The consumer's reader (Host.Serve).                                      *)
(***************************************************************************)
TakeAnswer ==
  /\ ~crashed /\ held = <<>> /\ in # <<>> /\ Head(in).kind \in {"accepted", "error"}
  /\ in' = Tail(in)
  /\ LET f == Head(in) IN
       reply' = IF call[f.of] = "calling" THEN [reply EXCEPT ![f.of] = f.kind] ELSE reply
  /\ UNCHANGED <<call, table, chan, shut, held, parting, got, calls, cancelled, crashed, out,
                 router, due, provider>>

TakeFrame ==
  /\ ~crashed /\ held = <<>> /\ in # <<>> /\ Head(in).kind \in Streamed
  /\ in' = Tail(in)
  /\ LET f == Head(in) IN
       /\ held' = IF f.of \in table THEN <<f>> ELSE <<>>
       /\ table' = IF Ends(f) THEN table \ {f.of} ELSE table
  /\ UNCHANGED <<call, reply, chan, shut, parting, got, calls, cancelled, crashed, out, router, due,
                 provider>>

\* The frame goes to the channel if there is room.
PutFrame ==
  /\ ~crashed /\ held # <<>>
  /\ held' = <<>>
  /\ LET f == held[1]  s == f.of IN
       IF s \in shut
         THEN crashed' = TRUE /\ UNCHANGED <<chan, shut>>
         ELSE /\ Len(chan[s]) < Room
              /\ chan' = [chan EXCEPT ![s] = Append(@, f)]
              /\ shut' = IF Ends(f) THEN shut \cup {s} ELSE shut
              /\ UNCHANGED crashed
  /\ UNCHANGED <<call, reply, table, parting, got, calls, cancelled, pipes, router, due, provider>>

\* Else the stream leaves the table, the provider is told to stop, and a goroutine
\* waits to put an end on the channel.
StillKnown(s) == table
Unknown(s) == table \ {s}

OverflowFrame ==
  /\ ~crashed /\ held # <<>>
  /\ held' = <<>>
  /\ LET s == held[1].of IN
       /\ s \notin shut /\ Len(chan[s]) = Room
       /\ table' = Unknown(s)
       /\ Ordered(s, "cancel")
       /\ cancelled' = cancelled \cup {s}
       /\ parting' = parting \cup {s}
  /\ UNCHANGED <<call, reply, chan, shut, got, calls, crashed, in, router, due, provider>>

Part(s) ==
  /\ ~crashed /\ s \in parting
  /\ parting' = parting \ {s}
  /\ IF s \in shut
       THEN crashed' = TRUE /\ UNCHANGED <<chan, shut>>
       ELSE /\ Len(chan[s]) < Room
            /\ chan' = [chan EXCEPT ![s] = Append(@, Made(s, "broken"))]
            /\ shut' = shut \cup {s}
            /\ UNCHANGED crashed
  /\ UNCHANGED <<call, reply, table, held, got, calls, cancelled, pipes, router, due, provider>>

(***************************************************************************)
(* The consumer's loop in the Router (serveInbound).                        *)
(***************************************************************************)
Serves(k) == invoke = None /\ out # <<>> /\ Head(out).kind = k /\ out' = Tail(out)

Send(f) == in' = Append(in, f)
Fails(s) == IF s = Other THEN UNCHANGED in ELSE Send(Made(s, "error"))

\* Not allowed, no provider, or too late.
RefuseCall ==
  /\ Serves("request")
  /\ Fails(Head(out).of)
  /\ UNCHANGED <<consumer, router, due, provider>>

\* The route is made and the provider starts the handler.
PlaceCall ==
  LET s == Head(out).of IN
  /\ Serves("request") /\ s # Other /\ process # "removed" /\ s \notin due
  /\ invoke' = s
  /\ routes' = routes \cup {s}
  /\ source' = IF process = "running" THEN [source EXCEPT ![s] = "asked"] ELSE source
  /\ UNCHANGED <<consumer, in, ingress, overflow, dropped, due, process, answered, sent, stop>>

\* The other call goes to another provider.
PlaceOther ==
  /\ Serves("request") /\ Head(out).of = Other
  /\ invoke' = Other
  /\ UNCHANGED <<consumer, in, routes, ingress, overflow, dropped, due, provider>>

\* The other call is answered, or its deadline passes.
OtherEnds ==
  /\ invoke = Other
  /\ invoke' = None
  /\ UNCHANGED <<consumer, pipes, routes, ingress, overflow, dropped, due, provider>>

\* The deadline passes or the provider is gone; the route stays.  The cancel names
\* the request, and the provider files the stream's context under its own name.
CallFails ==
  /\ invoke \in Streams
  /\ invoke \in due \/ (process # "running" /\ overflow = {})
  /\ Fails(invoke)
  /\ invoke' = None
  /\ UNCHANGED <<consumer, out, routes, ingress, overflow, dropped, due, provider>>

\* forwardCancel, which finds the route of a stream, and never the call of a
\* request: that was over before the loop came here.
Missed(s) == stop
Stopped(s) == IF s \in routes /\ process = "running" THEN stop \cup {s} ELSE stop

ForwardCancel ==
  /\ Serves("cancel")
  /\ stop' = Stopped(Head(out).of)
  /\ UNCHANGED <<consumer, in, router, due, process, source, answered, sent>>

ForwardAbandon ==
  /\ Serves("abandon")
  /\ UNCHANGED <<consumer, in, router, due, provider>>

PassDeadline(s) ==
  /\ call[s] # "no" /\ s \notin due
  /\ due' = due \cup {s}
  /\ UNCHANGED <<consumer, pipes, router, provider>>

(***************************************************************************)
(* The provider (RequestContext.Stream) and the reader of its pipe.         *)
(***************************************************************************)
\* The reader of the provider's pipe is not waiting for the control loop.
Heard == process = "running" /\ overflow = {}

OpenStream(s) ==
  /\ process = "running" /\ source[s] = "asked"
  /\ source' = [source EXCEPT ![s] = "streaming"]
  /\ UNCHANGED <<consumer, pipes, router, due, process, answered, sent, stop>>

\* The handler's answer, if the call still waits for it.
Answers(s, k) ==
  /\ Heard
  /\ answered' = answered \cup {s}
  /\ IF invoke = s THEN Send(Made(s, k)) /\ invoke' = None ELSE UNCHANGED <<in, invoke>>

Answer(s) ==
  /\ source[s] \in {"streaming", "over"} /\ s \notin answered
  /\ Answers(s, "accepted")
  /\ UNCHANGED <<consumer, out, routes, ingress, overflow, dropped, due, process, source, sent,
                 stop>>

Reject(s) ==
  /\ source[s] = "asked"
  /\ Answers(s, "error")
  /\ source' = [source EXCEPT ![s] = "over"]
  /\ UNCHANGED <<consumer, out, routes, ingress, overflow, dropped, due, process, sent, stop>>

\* The reader queues the frame, or has the control loop send a close instead.
SkipIfFull(f) ==
  /\ ingress' = IF Len(ingress) < Ingress THEN Append(ingress, f) ELSE ingress
  /\ UNCHANGED <<overflow, dropped>>
Queue(f) ==
  IF Len(ingress) < Ingress
    THEN ingress' = Append(ingress, f) /\ UNCHANGED <<overflow, dropped>>
    ELSE overflow' = {f.of} /\ dropped' = dropped \cup {f.of} /\ UNCHANGED ingress

SendData(s) ==
  /\ Heard /\ source[s] = "streaming" /\ sent[s] < MaxData
  /\ sent' = [sent EXCEPT ![s] = @ + 1]
  /\ Queue(Data(s, sent[s] + 1))
  /\ UNCHANGED <<consumer, pipes, invoke, routes, due, process, source, answered, stop>>

\* The data ends, or the context has.
SendClose(s) ==
  /\ Heard /\ source[s] = "streaming"
  /\ source' = [source EXCEPT ![s] = "over"]
  /\ Queue(Made(s, "close"))
  /\ UNCHANGED <<consumer, pipes, invoke, routes, due, process, answered, sent, stop>>

Die ==
  /\ process = "running"
  /\ process' = "dead"
  /\ UNCHANGED <<consumer, pipes, router, due, source, answered, sent, stop>>

(***************************************************************************)
(* The Router's side of the provider.                                       *)
(***************************************************************************)
\* forwardStream.  A frame whose route goes while it is being sent is thrown away
\* by the consumer's table, as the one without a route is here.
Forward(f) ==
  /\ in' = IF f.of \in routes THEN Append(in, f) ELSE in
  /\ routes' = IF Ends(f) THEN routes \ {f.of} ELSE routes

ForwardFrame ==
  /\ ingress # <<>>
  /\ Forward(Head(ingress))
  /\ ingress' = Tail(ingress)
  /\ UNCHANGED <<consumer, out, invoke, overflow, dropped, due, provider>>

ForwardOverflow ==
  /\ \E s \in overflow : Forward(Made(s, "broken"))
  /\ overflow' = {}
  /\ UNCHANGED <<consumer, out, invoke, ingress, dropped, due, provider>>

\* RemoveClient tells the consumers, one stream after the other.
NobodyTold == <<>>
Told ==
  CHOOSE fs \in [1 .. Cardinality(routes) -> {Made(s, "broken") : s \in routes}] :
    \A s \in routes : \E i \in DOMAIN fs : fs[i].of = s

RemoveClient ==
  /\ process = "dead"
  /\ process' = "removed"
  /\ in' = in \o Told
  /\ routes' = {}
  /\ UNCHANGED <<consumer, out, invoke, ingress, overflow, dropped, due, source, answered, sent,
                 stop>>

ServeInbound ==
  RefuseCall \/ PlaceCall \/ CallFails \/ PlaceOther \/ OtherEnds \/ ForwardCancel \/ ForwardAbandon
Serve == TakeAnswer \/ TakeFrame \/ PutFrame \/ OverflowFrame
Returns(s) == Accepted(s) \/ Refused(s) \/ TimesOut(s)
Reads(s) == Receive(s) \/ SeeEnd(s)

Next ==
  \/ \E s \in Streams :
       \/ Start(s) \/ Returns(s) \/ Reads(s) \/ Cancel(s) \/ Part(s) \/ PassDeadline(s)
       \/ OpenStream(s) \/ Answer(s) \/ Reject(s) \/ SendData(s) \/ SendClose(s)
  \/ CallOther \/ Serve \/ ServeInbound \/ ForwardFrame \/ ForwardOverflow \/ RemoveClient \/ Die

Spec == Init /\ [][Next]_vars

(***************************************************************************)
(* The goroutines of router and hosts run, a call ends by its deadline, and *)
(* a goroutine whose context is done ends its stream.  No stream ends by    *)
(* itself, and its deadline may be far away.                                *)
(***************************************************************************)
Fairness ==
  /\ WF_vars(Serve) /\ WF_vars(ServeInbound)
  /\ WF_vars(ForwardFrame) /\ WF_vars(ForwardOverflow) /\ WF_vars(RemoveClient)
  /\ \A s \in Streams :
       /\ WF_vars(Returns(s)) /\ WF_vars(Part(s))
       /\ WF_vars(s = invoke /\ PassDeadline(s))
       /\ WF_vars(s \in stop /\ (OpenStream(s) \/ SendClose(s)))
       /\ WF_vars(Reads(s))

FairSpec == Spec /\ Fairness

(***************************************************************************)
(* Properties.                                                              *)
(***************************************************************************)
\* The variables have the values the code can store in them.
ConsumerOK ==
  /\ call \in [Streams -> {"no", "calling", "reading", "failed", "done"}]
  /\ reply \in [Streams -> {"none", "accepted", "error"}]
  /\ table \cup shut \cup parting \cup cancelled \subseteq Streams
  /\ chan \in [Streams -> Seq(Frame)] /\ got \in [Streams -> Seq(Frame)]
  /\ \A s \in Streams : Len(chan[s]) <= Room
  /\ held \in Seq(StreamFrame) /\ Len(held) <= 1
  /\ crashed \in BOOLEAN /\ calls \in 0 .. MaxCalls

PipesOK == out \in Seq(Order) /\ in \in Seq(Frame)

RouterOK ==
  /\ invoke \in Streams \cup {Other, None}
  /\ routes \cup due \subseteq Streams /\ IsFiniteSet(routes)
  /\ ingress \in Seq(StreamFrame) /\ Len(ingress) <= Ingress
  /\ overflow \subseteq dropped /\ dropped \subseteq Streams
  /\ \A s, t \in overflow : s = t

ProviderOK ==
  /\ process \in {"running", "dead", "removed"}
  /\ source \in [Streams -> {"no", "asked", "streaming", "over"}]
  /\ answered \cup stop \subseteq Streams
  /\ sent \in [Streams -> 0 .. MaxData]

TypeOK == ConsumerOK /\ PipesOK /\ RouterOK /\ ProviderOK

\* What the loop over a stream receives is what the provider has sent, in order and
\* without a gap, and after an end nothing.
InOrder ==
  \A s \in Streams : \A i \in 1 .. Len(got[s]) :
    got[s][i] = Data(s, i) \/ (Ends(got[s][i]) /\ i = Len(got[s]))

\* The loop ends with a frame that says why: the provider's own end, or one made up
\* for a provider that died or a queue that was full.
EndIsTold ==
  \A s \in Streams : call[s] = "done" => got[s] # <<>> /\ Ends(got[s][Len(got[s])])

\* A frame or an order of the stream in a queue, of one of these kinds.
Has(q, s, kinds) == \E i \in 1 .. Len(q) : q[i].of = s /\ q[i].kind \in kinds
HasFrame(q, s) == Has(q, s, Streamed)
IsRequest(o, s) == o.of = s /\ o.kind = "request"
Requested(s) == Has(out, s, {"request"})
Declined(s) == reply[s] = "error" \/ Has(in, s, {"error"})

\* Each stream is asked for once, and nothing is there of it before.
Fresh(s) ==
  /\ reply[s] = "none" /\ chan[s] = <<>> /\ got[s] = <<>> /\ source[s] = "no"
  /\ s \notin table \cup shut \cup parting \cup routes /\ invoke # s /\ ~Requested(s)
  /\ ~Has(in, s, {"accepted", "error"} \cup Streamed) /\ ~HasFrame(held, s)

AskedOnce ==
  \A s \in Streams :
    /\ call[s] = "no" => Fresh(s)
    /\ Requested(s) => source[s] = "no"
    /\ \A i, j \in 1 .. Len(out) : IsRequest(out[i], s) /\ IsRequest(out[j], s) => i = j
    /\ source[s] \in {"no", "asked"} =>
         sent[s] = 0 /\ s \notin overflow /\ ~HasFrame(ingress, s)

\* A channel's frame has been looked up, an end waits for room, or neither; the table
\* knows only streams whose channel is open and whose end nobody holds.
OneWriter ==
  \A s \in Streams :
    /\ s \in table => s \notin shut \cup parting
    /\ HasFrame(held, s) => s \notin parting /\ (Ends(held[1]) => s \notin table)
    /\ HasFrame(held, s) \/ s \in parting => s \notin shut \/ call[s] = "failed"

\* What was put on the channel, read or not: data without a gap, then the end, which
\* also shuts the channel.
GotInOrder(s) ==
  \A i \in 1 .. Len(got[s]) :
    \/ got[s][i] = Data(s, i)
    \/ Ends(got[s][i]) /\ i = Len(got[s]) /\ chan[s] = <<>> /\ s \in shut
ChanInOrder(s) ==
  \A i \in 1 .. Len(chan[s]) :
    \/ chan[s][i] = Data(s, Len(got[s]) + i)
    \/ Ends(chan[s][i]) /\ i = Len(chan[s]) /\ s \in shut
HeldIsNext(s) ==
  HasFrame(held, s) =>
    \/ s \in shut \/ Ends(held[1])
    \/ held[1] = Data(s, Len(got[s]) + Len(chan[s]) + 1)
ShutIsTold(s) ==
  s \in shut =>
    \/ call[s] = "failed"
    \/ chan[s] # <<>> /\ Ends(chan[s][Len(chan[s])])
    \/ chan[s] = <<>> /\ got[s] # <<>> /\ Ends(got[s][Len(got[s])])
DoneIsEmpty(s) == call[s] = "done" => s \in shut /\ chan[s] = <<>>

Delivered ==
  \A s \in Streams :
    GotInOrder(s) /\ ChanInOrder(s) /\ HeldIsNext(s) /\ ShutIsTold(s) /\ DoneIsEmpty(s)

\* The numbers of the stream's data in a queue, and that they rise.
DataAt(q, s) == {i \in 1 .. Len(q) : q[i].of = s /\ q[i].kind = "data"}
Numbers(q, s) == {q[i].n : i \in DataAt(q, s)}
Rising(q, s) == \A i, j \in DataAt(q, s) : i < j => q[i].n < q[j].n

Taken(s) == Len(got[s]) + Len(chan[s]) + (IF HasFrame(held, s) THEN 1 ELSE 0)

\* For a stream in the table: the reader has taken the first data frames, the next are
\* in the pipe, and, while there is a route, the rest in the ingress queue, up to the
\* frame that did not fit.
Behind(s, k) ==
  s \in routes => \E l \in k .. sent[s] :
    /\ Rising(ingress, s) /\ Numbers(ingress, s) = k + 1 .. l
    /\ s \in overflow \/ l = sent[s]

OnTheWay ==
  \A s \in table : \E k \in Taken(s) .. sent[s] :
    Rising(in, s) /\ Numbers(in, s) = Taken(s) + 1 .. k /\ Behind(s, k)

\* Nothing of the stream can reach its channel.
Silent(s) ==
  /\ ~HasFrame(in, s) /\ ~HasFrame(held, s) /\ ~HasFrame(ingress, s)
  /\ s \notin overflow \cup parting /\ (s \in shut => call[s] = "failed")

\* While the provider runs: a call it turns down before its deadline has no stream.
NoStreamIfDeclined ==
  process = "running" =>
    \A s \in Streams :
      /\ source[s] \in {"no", "asked"} => Silent(s)
      /\ Declined(s) /\ s \notin due =>
           Silent(s) /\ source[s] \in {"no", "over"} /\ ~Requested(s)
      /\ call[s] = "failed" /\ s \notin due => reply[s] = "error"

\* The state invariant: the types, that consumers can trust what they read, and why.
Inv ==
  /\ TypeOK /\ InOrder /\ EndIsTold
  /\ AskedOnce /\ OneWriter /\ Delivered /\ OnTheWay /\ NoStreamIfDeclined

\* A provider that lives and answers its calls in time.
Behaves == process = "running" /\ \A s \in Streams : call[s] = "failed" => s \notin due

\* kernel/docs/01, C14, for the plugin that consumes: it does not fall while its
\* provider behaves, however slowly it reads, whatever overflows and is cancelled.
ConsumerSurvives == Behaves => ~crashed

\* kernel/docs/13, line 20: a consumer that reads on is released when the stream is
\* over, and when its provider has died.
ReadersReleased ==
  \A s \in Streams :
    call[s] = "reading" /\ (source[s] = "over" \/ process # "running")
      ~> call[s] = "done" \/ crashed

\* A stream that its consumer cancels, or does not read, ends at the provider long
\* before its deadline, even if the cancel has to wait behind another call; unless
\* the router has given the stream up, for a full ingress queue.
CancelStops ==
  \A s \in Streams :
    s \in cancelled ~> source[s] = "over" \/ s \in dropped \/ process # "running" \/ crashed
=============================================================================
