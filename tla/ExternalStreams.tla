--------------------------- MODULE ExternalStreams ---------------------------
(***************************************************************************)
(* The streams a plugin provides to outside clients.  A frame travels from  *)
(* the provider's pipe through the bounded ingress queue of its             *)
(* ProcessClient to the Router, which puts it on the bounded channel the    *)
(* ClientGateway reads and writes to the client's socket.  Four kinds of    *)
(* goroutine send on or close such a channel: the loop over the ingress     *)
(* queue, the control loop (for a close made up when that queue is full),   *)
(* the removal of a provider that died, and the invocation itself when it   *)
(* fails.  In Go a send on a closed channel, or a second close, panics and  *)
(* takes the whole kernel down.                                             *)
(*                                                                          *)
(* One provider runtime; a stream is named once.  stream.open is the first  *)
(* of the data frames.  What the provider writes on its pipe is read at     *)
(* once, or waits with it for the reader.                                   *)
(***************************************************************************)
EXTENDS Naturals, Sequences

CONSTANTS
  Streams,
  Wedgeable,  \* the streams whose client may be slow, stop reading or go away
  MaxData,    \* bound: data frames of a stream
  Ingress,    \* capacity of streamEvents (256 in the code)
  Room,       \* capacity of the external channel (64)
  MaxTroubles \* bound: deaths, late answers, cancels and clients that leave

ASSUME StreamsAssumption ==
  /\ Wedgeable \subseteq Streams
  /\ MaxData \in Nat \ {0}
  /\ {Ingress, Room} \subseteq Nat \ {0}
  /\ MaxTroubles \in Nat
  /\ "events" \notin Streams /\ "control" \notin Streams

VARIABLES
  invoke,   \* InvokeExternalStream of each stream
  source,   \* the provider's goroutine behind each stream
  answered, \* the streams whose handler has returned
  sent,     \* data frames it has written
  stop,     \* streams whose context the provider has cancelled
  ingress,  \* streamEvents
  overflow, \* streams whose made-up close the control loop has yet to forward
  dropped,  \* streams of which the reader has thrown a frame away
  outrun,   \* streams whose channel stayed full for streamSendTimeout before the answer
  routes,   \* Router.streams
  thread,   \* the goroutines that deliver frames
  chan, shut, once,  \* the channel of each stream, and its sync.Once
  client,   \* the outside client, as the gateway meets it
  got,      \* what it has received
  process,  \* the provider: running, dead, or removed from the router
  crashed,  \* the kernel
  troubles

vars == <<invoke, source, answered, sent, stop, ingress, overflow, dropped, outrun, routes, thread,
          chan, shut, once, client, got, process, crashed, troubles>>
provider == <<source, answered, sent, stop>>
gateway == <<client, got>>
channels == <<chan, shut, once, crashed>>
notes == <<dropped, outrun, troubles>>
Trouble == troubles < MaxTroubles /\ troubles' = troubles + 1 /\ UNCHANGED <<dropped, outrun>>

Frame == [of : Streams, kind : {"accepted", "error", "data", "close", "broken"}, n : Nat]
Data(s, n) == [of |-> s, kind |-> "data", n |-> n]
\* "broken": a close the router makes up, with an error code.
Other(s, k) == [of |-> s, kind |-> k, n |-> 0]

\* The two loops, and one goroutine per stream of a removed provider.
Threads == {"events", "control"} \cup Streams
Idle == <<>>
Step(t, steps, f) == thread' = [thread EXCEPT ![t] = IF steps = <<>> THEN Idle ELSE <<steps, f>>]
Doing(t, step) == ~crashed /\ thread[t] # Idle /\ Head(thread[t][1]) = step
FrameOf(t) == thread[t][2]
Rest(t) == Tail(thread[t][1])

Init ==
  /\ invoke = [s \in Streams |-> "no"]
  /\ source = [s \in Streams |-> "no"] /\ answered = {}
  /\ sent = [s \in Streams |-> 0] /\ stop = {}
  /\ ingress = <<>> /\ overflow = {} /\ dropped = {} /\ outrun = {}
  /\ routes = {} /\ thread = [t \in Threads |-> Idle]
  /\ chan = [s \in Streams |-> <<>>]
  /\ shut = {} /\ once = {}
  /\ client = [s \in Streams |-> "reading"] /\ got = [s \in Streams |-> <<>>]
  /\ process = "running" /\ crashed = FALSE /\ troubles = 0

\* Once the call is answered, with whatever answer, the gateway reads the channel.
Receives(s) ==
  ~crashed /\ invoke[s] \in {"accepted", "error", "mismatch"} /\ client[s] = "reading"

(***************************************************************************)
(* InvokeExternalStream.                                                    *)
(***************************************************************************)
Request(s) ==
  /\ ~crashed /\ invoke[s] = "no" /\ process # "removed"
  /\ invoke' = [invoke EXCEPT ![s] = "calling"]
  /\ routes' = routes \cup {s}
  /\ UNCHANGED <<provider, ingress, overflow, thread, channels, gateway, process,
                 notes>>

\* close(ch), here and in closeExternalOnce.
Close(s) ==
  IF s \in shut THEN crashed' = TRUE /\ UNCHANGED shut
                ELSE shut' = shut \cup {s} /\ UNCHANGED crashed

\* The checks of invoke fail: no route was made, nothing was sent.
Unanswered(s) == invoke[s] \in {"no", "calling"}
Unsent(s) == invoke[s] = "no"

RefuseEarly(s) ==
  /\ ~crashed /\ Unsent(s)
  /\ invoke' = [invoke EXCEPT ![s] = "refused"]
  /\ Close(s)
  /\ UNCHANGED <<provider, ingress, overflow, routes, thread, chan, once,
                 gateway, process, notes>>

\* A contract of another kind is answered with an error, not refused: the gateway reads a
\* channel without a route, which nothing closes.
RefuseKind(s) ==
  /\ ~crashed /\ Unsent(s)
  /\ invoke' = [invoke EXCEPT ![s] = "mismatch"]
  /\ UNCHANGED <<provider, ingress, overflow, routes, thread, channels, gateway, process,
                 notes>>

\* The call has missed its deadline, or the provider is gone; the route stays.
\* The cancel names the request, but the provider files the context of a stream
\* under the stream's name: only a deadline in the request itself stops it.
Fails(s) ==
  \/ Trouble /\ stop' \in {stop, stop \cup {s}}
  \/ process # "running" /\ overflow = {} /\ UNCHANGED <<stop, notes>>

InvokeFails(s) ==
  /\ ~crashed /\ invoke[s] = "calling" /\ Fails(s)
  /\ invoke' = [invoke EXCEPT ![s] = "failed"]
  /\ Close(s)
  /\ UNCHANGED <<source, answered, sent, ingress, overflow, routes, thread, chan, once,
                 gateway, process>>

(***************************************************************************)
(* The provider (RequestContext.Stream), and the reader of its pipe         *)
(* (ProcessClient.readLoop), which waits while a made-up close is forwarded.*)
(***************************************************************************)
Heard == process = "running" /\ ~crashed /\ overflow = {}

Unasked(s) == invoke[s] \in {"no", "refused", "mismatch"}

\* The handler starts the goroutine of the stream, which writes its frames, and even the
\* close, whether or not the handler has returned.
OpenStream(s) ==
  /\ ~ Unasked(s) /\ source[s] = "no" /\ process = "running"
  /\ source' = [source EXCEPT ![s] = "streaming"]
  /\ UNCHANGED <<invoke, answered, sent, stop, ingress, overflow, routes, thread, channels,
                 gateway, process, notes>>

\* The handler's answer, if the call still waits for it.
Answers(s, k) ==
  /\ Heard
  /\ answered' = answered \cup {s}
  /\ invoke' = IF invoke[s] = "calling" THEN [invoke EXCEPT ![s] = k] ELSE invoke

Answer(s) ==
  /\ source[s] # "no" /\ s \notin answered
  /\ Answers(s, "accepted")
  /\ UNCHANGED <<source, sent, stop, ingress, overflow, routes, thread, channels, gateway,
                 process, notes>>

Reject(s) ==
  /\ ~ Unasked(s) /\ source[s] = "no"
  /\ Answers(s, "error")
  /\ source' = [source EXCEPT ![s] = "over"]
  /\ UNCHANGED <<sent, stop, ingress, overflow, routes, thread, channels, gateway, process,
                 notes>>

\* The frame goes to the ingress queue if it has room; else the control loop gets a
\* close instead.
CloseOvertakes(f) ==
  IF f.kind = "data" /\ Len(ingress) < Ingress
    THEN ingress' = Append(ingress, f) /\ UNCHANGED <<overflow, dropped>>
    ELSE overflow' = {f.of} /\ UNCHANGED <<dropped, ingress>>
Queue(f) ==
  IF Len(ingress) < Ingress
    THEN ingress' = Append(ingress, f) /\ UNCHANGED <<overflow, dropped>>
    ELSE overflow' = {f.of} /\ dropped' = dropped \cup {f.of} /\ UNCHANGED ingress

SendData(s) ==
  /\ Heard /\ source[s] = "streaming" /\ sent[s] < MaxData
  /\ sent' = [sent EXCEPT ![s] = @ + 1]
  /\ Queue(Data(s, sent[s] + 1))
  /\ UNCHANGED <<invoke, source, answered, stop, routes, thread, channels, gateway, process,
                 outrun, troubles>>

\* The data ends, or the context is cancelled.
SendClose(s) ==
  /\ Heard /\ source[s] = "streaming"
  /\ source' = [source EXCEPT ![s] = "over"]
  /\ Queue(Other(s, "close"))
  /\ UNCHANGED <<invoke, answered, sent, stop, routes, thread, channels, gateway, process,
                 outrun, troubles>>

Die ==
  /\ process = "running" /\ Trouble
  /\ process' = "dead"
  /\ UNCHANGED <<invoke, provider, ingress, overflow, routes, thread, channels,
                 gateway>>

(***************************************************************************)
(* Router.forwardStream, run by the two loops.                              *)
(***************************************************************************)
\* The route is looked up under the lock, and used after.
ClosedAtOnce(t, f) ==
  Step(t, IF f.of \notin routes THEN <<>> ELSE IF t = "control" THEN <<"drop", "close">>
          ELSE <<"deliver">>, f)
LookUp(t, f) == Step(t, IF f.of \in routes THEN <<"deliver">> ELSE <<>>, f)

TakeFrame ==
  /\ ~crashed /\ thread["events"] = Idle /\ ingress # <<>>
  /\ LookUp("events", Head(ingress))
  /\ ingress' = Tail(ingress)
  /\ UNCHANGED <<invoke, provider, overflow, routes, channels, gateway, process,
                 notes>>

TakeOverflow ==
  /\ ~crashed /\ thread["control"] = Idle
  /\ \E s \in overflow :
       /\ LookUp("control", Other(s, "broken"))
       /\ overflow' = IF s \in routes THEN overflow ELSE {}
  /\ UNCHANGED <<invoke, provider, ingress, routes, channels, gateway, process,
                 notes>>

\* What is left to do after the frame has been delivered, or has not been.
AfterDelivery(t) ==
  CASE t \in Streams -> <<"close">>
    [] t \notin Streams /\ FrameOf(t).kind # "data" -> <<"close", "drop">>
    [] OTHER -> <<>>
AfterTimeout(t) == IF t \in Streams THEN <<"close">> ELSE <<"drop", "close">>

\* The control loop acknowledges when it is done.
Done(t, steps) == overflow' = IF t = "control" /\ steps = <<>> THEN {} ELSE overflow

Goes(t, steps) == Step(t, steps, FrameOf(t)) /\ Done(t, steps)

HasRoom(s) == Len(chan[s]) < Room

Deliver(t) ==
  LET f == FrameOf(t)  s == f.of IN
  /\ Doing(t, "deliver")
  /\ IF s \in shut
       THEN crashed' = TRUE /\ UNCHANGED <<chan, thread, overflow>>
       ELSE /\ HasRoom(s)
            /\ chan' = [chan EXCEPT ![s] = Append(@, f)]
            /\ Goes(t, AfterDelivery(t))
            /\ UNCHANGED crashed
  /\ UNCHANGED <<invoke, provider, ingress, routes, shut, once, gateway, process,
                 notes>>

\* streamSendTimeout passes, which a client that reads does not let happen; the
\* loops cancel the stream upstream.
Patient(t) == FALSE
MayGiveUp(t) ==
  LET s == FrameOf(t).of IN Len(chan[s]) = Room /\ (s \in Wedgeable \/ ~Receives(s))

GiveUp(t) ==
  LET s == FrameOf(t).of IN
  /\ Doing(t, "deliver") /\ s \notin shut /\ MayGiveUp(t)
  /\ Goes(t, AfterTimeout(t))
  /\ stop' = IF t \notin Streams /\ process = "running" THEN stop \cup {s} ELSE stop
  /\ outrun' = IF invoke[s] = "calling" THEN outrun \cup {s} ELSE outrun
  /\ UNCHANGED <<invoke, source, answered, sent, ingress, routes, channels, gateway,
                 process, dropped, troubles>>

DropRoute(t) ==
  /\ Doing(t, "drop")
  /\ routes' = routes \ {FrameOf(t).of}
  /\ Goes(t, Rest(t))
  /\ UNCHANGED <<invoke, provider, ingress, channels, gateway, process, notes>>

CloseExternalOnce(t) ==
  LET s == FrameOf(t).of IN
  /\ Doing(t, "close")
  /\ IF s \in once THEN UNCHANGED <<shut, crashed>> ELSE Close(s)
  /\ once' = once \cup {s}
  /\ Goes(t, Rest(t))
  /\ UNCHANGED <<invoke, provider, ingress, routes, chan, gateway, process, notes>>

\* watch has seen the process end and calls RemoveClient.
NoneAffected == {}
Affected == routes

RemoveClient ==
  /\ ~crashed /\ process = "dead"
  /\ process' = "removed"
  /\ routes' = {}
  /\ thread' = [t \in Threads |->
       IF t \in Affected THEN <<<<"deliver">>, Other(t, "broken")>> ELSE thread[t]]
  /\ UNCHANGED <<invoke, provider, ingress, overflow, channels, gateway, notes>>

(***************************************************************************)
(* The gateway's connection.                                                *)
(***************************************************************************)
Receive(s) ==
  /\ Receives(s) /\ chan[s] # <<>>
  /\ chan' = [chan EXCEPT ![s] = Tail(@)]
  /\ got' = [got EXCEPT ![s] = Append(@, Head(chan[s]))]
  /\ UNCHANGED <<invoke, provider, ingress, overflow, routes, thread, shut, once,
                 crashed, client, process, notes>>

SeeEnd(s) ==
  /\ Receives(s) /\ chan[s] = <<>> /\ s \in shut
  /\ client' = [client EXCEPT ![s] = "done"]
  /\ UNCHANGED <<invoke, provider, ingress, overflow, routes, thread, channels,
                 got, process, notes>>

\* CancelExternalStream: asked for by the client, or by the gateway when a frame
\* cannot be written because the client has disconnected.
NotTold(s) == stop
CancelExternalStream(s) ==
  IF s \in routes /\ process = "running" THEN stop \cup {s} ELSE stop

ClientCancel(s) ==
  /\ ~crashed /\ s \in Wedgeable /\ invoke[s] # "no" /\ client[s] \notin {"gone", "lost"}
  /\ stop' = CancelExternalStream(s) /\ stop' # stop
  /\ Trouble
  /\ UNCHANGED <<invoke, source, answered, sent, ingress, overflow, routes, thread, channels,
                 gateway, process>>

Disconnect(s) ==
  /\ s \in Wedgeable /\ Receives(s) /\ chan[s] # <<>>
  /\ chan' = [chan EXCEPT ![s] = Tail(@)]
  /\ client' = [client EXCEPT ![s] = "gone"]
  /\ stop' = CancelExternalStream(s)
  /\ Trouble
  /\ UNCHANGED <<invoke, source, answered, sent, ingress, overflow, routes, thread, shut,
                 once, crashed, got, process>>

\* The answer itself cannot be written: the gateway returns and cancels nothing.
LoseAnswer(s) ==
  /\ s \in Wedgeable /\ Receives(s) /\ got[s] = <<>>
  /\ client' = [client EXCEPT ![s] = "lost"]
  /\ Trouble
  /\ UNCHANGED <<invoke, provider, ingress, overflow, routes, thread, channels,
                 got, process>>

Thread(t) == Deliver(t) \/ GiveUp(t) \/ DropRoute(t) \/ CloseExternalOnce(t)

Next ==
  \/ \E s \in Streams :
       \/ Request(s) \/ RefuseEarly(s) \/ RefuseKind(s) \/ InvokeFails(s)
       \/ OpenStream(s) \/ Answer(s) \/ Reject(s) \/ SendData(s) \/ SendClose(s)
       \/ Receive(s) \/ SeeEnd(s) \/ ClientCancel(s) \/ Disconnect(s)
       \/ LoseAnswer(s)
  \/ \E t \in Threads : Thread(t)
  \/ Die \/ TakeFrame \/ TakeOverflow \/ RemoveClient

Spec == Init /\ [][Next]_vars

(***************************************************************************)
(* The goroutines of the kernel run, a cancelled provider goroutine ends    *)
(* its stream, and a client outside Wedgeable reads what it is sent.        *)
(* Nothing makes a handler answer or a stream end by itself.                *)
(***************************************************************************)
Fairness ==
  /\ WF_vars(TakeFrame \/ TakeOverflow \/ RemoveClient \/ \E t \in Threads : Thread(t))
  /\ WF_vars(\E s \in stop : SendClose(s))
  /\ WF_vars(\E s \in Streams \ Wedgeable : Receive(s) \/ SeeEnd(s))

FairSpec == Spec /\ Fairness

(***************************************************************************)
(* Properties.                                                              *)
(***************************************************************************)
\* The variables have the values the code can store in them; the control loop forwards
\* one made-up close at a time.
Plans == {<<"deliver">>, <<"drop", "close">>, <<"close", "drop">>, <<"drop">>, <<"close">>}
TypeOK ==
  /\ invoke \in [Streams -> {"no", "calling", "refused", "mismatch", "accepted", "error",
                         "failed"}]
  /\ source \in [Streams -> {"no", "streaming", "over"}]
  /\ sent \in [Streams -> 0 .. MaxData]
  /\ stop \subseteq Streams /\ routes \subseteq Streams
  /\ dropped \subseteq Streams /\ outrun \subseteq Streams /\ troubles \in 0 .. MaxTroubles
  /\ overflow = {} \/ \E s \in dropped : overflow = {s}
  /\ answered \subseteq Streams /\ ingress \in Seq(Frame) /\ Len(ingress) <= Ingress
  /\ thread \in [Threads -> {Idle} \cup (Plans \X Frame)]
  /\ {chan, got} \subseteq [Streams -> Seq(Frame)] /\ \A s \in Streams : Len(chan[s]) <= Room
  /\ shut \subseteq Streams /\ once \subseteq Streams
  /\ client \in [Streams -> {"reading", "gone", "lost", "done"}]
  /\ process \in {"running", "dead", "removed"} /\ crashed \in BOOLEAN

\* A provider that lives, that answers in time and that does not outrun its ingress
\* queue.
Behaves == process = "running" /\ dropped = {} /\ \A s \in Streams : invoke[s] # "failed"

\* kernel/docs/01, C14: the kernel never sends on a closed channel or closes one twice
\* while the provider behaves, whatever its clients do.
KernelSurvives == Behaves => ~crashed

\* The same whatever the provider does: what the document says, and not what the
\* code does.
NeverCrashes == ~crashed

\* f is the k-th frame the provider has sent on s.
Sent(s, k, f) ==
  \/ k \in 1 .. sent[s] /\ f = Data(s, k)
  \/ k = sent[s] + 1 /\ source[s] = "over" /\ f = Other(s, "close")

Broken(q) == \E i \in DOMAIN q : q[i].kind = "broken"
\* How many of the first n frames of q the provider has sent.
Own(q, n) == IF \E i \in 1 .. n : q[i].kind = "broken" THEN n - 1 ELSE n

Ordered(s, q) ==
  /\ \A i, j \in DOMAIN q : q[i].kind = "broken" /\ q[j].kind = "broken" => i = j
  /\ \A i \in DOMAIN q : q[i].kind # "broken" => Sent(s, Own(q, i), q[i])

\* What the provider has sent reaches a client in order and without a gap, its own end
\* after all of its data; and nothing comes after an end, but that the made-up end of
\* a provider that died may overtake a frame on its way.
InOrder ==
  \A s \in Streams \ dropped :
    /\ Ordered(s, got[s])
    /\ process = "running" => \A i \in 1 .. Len(got[s]) - 1 : got[s][i].kind = "data"

\* kernel/docs/13, section 6: the end of a stream does not silently disappear
\* behind its data; a client that reads on to the end is told of it, unless it was
\* too slow to be sent the end, the provider has died, or the router gave up on a full
\* channel before the call was answered, so that nobody read yet.
EndIsTold ==
  \A s \in Streams \ (Wedgeable \cup outrun) :
    client[s] = "done" /\ process = "running" =>
      \E i \in 1 .. Len(got[s]) : got[s][i].kind \in {"close", "broken"}

(***************************************************************************)
(* Why they hold.                                                           *)
(***************************************************************************)
Busy(t, s) == thread[t] # Idle /\ FrameOf(t).of = s
Plan(t) == thread[t][1]
Delivers(t, s) == Busy(t, s) /\ Plan(t) = <<"deliver">>
Rank(f) == IF f.kind = "data" THEN f.n ELSE sent[f.of] + 1
Queued(s) == \E i \in DOMAIN ingress : ingress[i].of = s

\* The frames of a stream are queued in the order the provider has sent them in.
QueueInv ==
  /\ \A i \in DOMAIN ingress : Sent(ingress[i].of, Rank(ingress[i]), ingress[i])
  /\ \A i, j \in DOMAIN ingress :
       i < j /\ ingress[i].of = ingress[j].of => Rank(ingress[i]) < Rank(ingress[j])

\* What each goroutine has at hand.  What the ingress loop holds was sent before all
\* of its stream that is still queued.
EventsHold(f) ==
  /\ Sent(f.of, Rank(f), f)
  /\ Plan("events") \in {<<"close", "drop">>, <<"drop">>} => f.kind = "close"
  /\ Plan("events") = <<"close">> => f.of \notin routes
  /\ \A i \in DOMAIN ingress : ingress[i].of = f.of => Rank(f) < Rank(ingress[i])
ThreadInv ==
  /\ thread["events"] # Idle => EventsHold(FrameOf("events"))
  /\ thread["control"] # Idle => FrameOf("control").kind = "broken" /\ overflow = {FrameOf("control").of}
  /\ \A t \in Streams : thread[t] # Idle =>
       FrameOf(t) = Other(t, "broken") /\ process = "removed"
         /\ Plan(t) \in {<<"deliver">>, <<"close">>}
  /\ process = "removed" => routes = {}

\* How far each stream can have come.
StageInv ==
  \A s \in Streams :
    /\ source[s] = "no" => sent[s] = 0 /\ s \notin answered
    /\ Unasked(s) =>
         /\ source[s] = "no" /\ got[s] = <<>> /\ chan[s] = <<>>
         /\ s \notin routes \cup once \cup overflow /\ \A t \in Threads : ~ Busy(t, s)
    /\ invoke[s] \in {"no", "mismatch"} => s \notin shut
    /\ invoke[s] = "calling" => s \notin answered
    /\ client[s] # "reading" => invoke[s] \in {"accepted", "error", "mismatch"}
    /\ client[s] = "done" => s \in shut
    /\ client[s] \in {"gone", "lost"} => s \in Wedgeable

\* What is on its way to a client follows what it has received, and while the route is
\* kept, what is queued follows that.
FlowInv ==
  \A s \in Streams \ dropped : client[s] # "gone" =>
    LET q == got[s] \o chan[s]
        n == IF Delivers("events", s) THEN Len(q) + 1 ELSE Len(q) IN
    /\ Ordered(s, q)
    /\ Broken(q) => process = "removed" /\ ~ Delivers(s, s)
    /\ Delivers("events", s) => Sent(s, Own(q, Len(q)) + 1, FrameOf("events"))
    /\ process # "removed" /\ s \in routes /\ ~ (Busy("events", s) /\ Plan("events") = <<"drop", "close">>) =>
         /\ \A i \in DOMAIN ingress : ingress[i].of = s => n < Rank(ingress[i])
         /\ \A k \in n + 1 .. sent[s] : \E i \in DOMAIN ingress : ingress[i] = Data(s, k)

\* The loops close the channel of a client that reads behind the end they have put there.
HasEnd(q) == \E i \in DOMAIN q : q[i].kind \in {"close", "broken"}
EndInv ==
  \A s \in Streams \ (Wedgeable \cup outrun) :
    process = "running" /\ invoke[s] \in {"calling", "accepted", "error"} =>
      /\ s \in shut => HasEnd(got[s]) \/ HasEnd(chan[s])
      /\ client[s] = "done" => HasEnd(got[s])
      /\ \A t \in {"events", "control"} : Busy(t, s) /\ ~ Delivers(t, s) =>
           Plan(t) \in {<<"close", "drop">>, <<"drop">>} /\ (HasEnd(got[s]) \/ HasEnd(chan[s]))

\* A channel is closed by the call that is refused or by the ingress loop, and then no
\* frame of its stream is left to be delivered.
CloseInv ==
  Behaves =>
    /\ ~crashed
    /\ \A s \in shut : s \in once \/ invoke[s] = "refused"
    /\ \A s \in once : ~ Delivers("events", s) /\ (s \in routes => source[s] = "over" /\ ~ Queued(s))

\* The state invariant: the types, that clients receive what was sent, and its end,
\* and why they do.
Inv ==
  TypeOK /\ InOrder /\ EndIsTold
    /\ QueueInv /\ ThreadInv /\ StageInv /\ FlowInv /\ EndInv /\ CloseInv

\* kernel/docs/13, line 23: when the client has disconnected, the provider does
\* not stream on, and the router forgets the stream.
DisconnectEnds ==
  \A s \in Wedgeable :
    client[s] = "gone" ~> (source[s] = "over" /\ s \notin routes) \/ ~Behaves

\* kernel/docs/13, lines 13 and 20: whoever reads a stream is told its end, when the
\* provider has ended it or has died, and has received all of it if the provider
\* behaves and no frame was given up before the call was answered; another client that
\* does not read its stream holds nobody up.
ReadersReleased ==
  \A s \in Streams \ Wedgeable :
    invoke[s] = "accepted" /\ (source[s] = "over" \/ process = "removed")
      ~> (client[s] = "done" /\ (Behaves /\ s \notin outrun => Len(got[s]) = sent[s] + 1)) \/ crashed
=============================================================================
