------------------------------ MODULE CallPath ------------------------------
(***************************************************************************)
(* How a request travels: from an outside client or from a plugin's handler *)
(* through the router (invoke), down the pipe of the provider's process     *)
(* (ProcessClient), to the provider's handler (pluginhost) and back.  The   *)
(* router reads what a plugin writes in order, and does not read on while   *)
(* it serves a request of that plugin.  A child request carries the         *)
(* delegation of the call it belongs to, which lives as long as that call.  *)
(*                                                                          *)
(* Streams have a module of their own; which provider is chosen and whether *)
(* policy admits the call are left open: any request may be refused.        *)
(***************************************************************************)
EXTENDS Naturals, Sequences, FiniteSets

CONSTANTS
  Plugins, Calls, None,
  Parent,    \* [Calls -> Calls \cup {None}]: the call whose handler makes it;
             \* None: an outside client's, through the gateway
  Providers, \* [Calls -> SUBSET Plugins]: who exports the capability it asks for
  Regretted, \* the outside calls whose client may cancel them
  MaxPings,  \* bound: [Plugins -> Nat], heartbeats sent to each plugin
  MaxExits   \* bound: plugins that exit

ASSUME CallPathAssumption ==
  /\ Parent \in [Calls -> Calls \cup {None}]
  /\ Providers \in [Calls -> SUBSET Plugins]
  /\ Regretted \subseteq Calls /\ \A c \in Regretted : Parent[c] = None
  /\ MaxPings \in [Plugins -> Nat] /\ MaxExits \in Nat
  /\ None \notin Calls \cup Plugins

VARIABLES
  outer,    \* the caller's side of each call
  early,    \* children written before the answer of their parent
  route,    \* the router's side: invoke
  provider, \* the provider it has chosen for each call
  deleg,    \* router.delegations, each named by the call it was issued for
  inflight, \* router.inflight
  denied,   \* children refused because their delegation was gone
  work,     \* the provider's handler
  stdin,    \* what a plugin has not yet read
  stdout,   \* what the router has not yet read of a plugin
  inbox,    \* ProcessClient.events: requests and cancels read, not yet acknowledged
  ping,     \* the heartbeat under way, and how many were sent
  alive     \* the processes

callVars == <<outer, early, route, provider, deleg, inflight, denied, work, stdin, stdout,
              inbox, ping, alive>>

Msg == [kind : {"request", "answer", "cancel"}, call : Calls]
       \cup [kind : {"ping", "pong"}, call : {None}]
ToCall(k, c) == [kind |-> k, call |-> c]
Caller(c) == IF Parent[c] = None THEN None ELSE provider[Parent[c]]

CallInit ==
  /\ outer = [c \in Calls |-> "no"]
  /\ early = {}
  /\ route = [c \in Calls |-> "no"]
  /\ provider = [c \in Calls |-> None]
  /\ deleg = {} /\ inflight = {} /\ denied = {}
  /\ work = [c \in Calls |-> "no"]
  /\ stdin = [p \in Plugins |-> <<>>]
  /\ stdout = [p \in Plugins |-> <<>>]
  /\ inbox = [p \in Plugins |-> <<>>]
  /\ ping = [p \in Plugins |-> [out |-> FALSE, sent |-> 0]]
  /\ alive = Plugins

\* What is written to a process that is gone is lost.  A live one is taken to read on: the
\* write that times out because its pipe stays full (and closes the client of a live
\* plugin) is left out.
Written(p, m) ==
  IF p \in alive THEN [stdin EXCEPT ![p] = Append(@, m)] ELSE stdin
Says(p, ms) == stdout' = [stdout EXCEPT ![p] = @ \o ms]

(***************************************************************************)
(* The plugin's host (pluginhost).                                          *)
(***************************************************************************)
\* A handler that has started calls another capability; a background goroutine
\* it leaves behind may do so after it answered.
Issue(c) ==
  /\ outer[c] = "no" /\ Parent[c] # None
  /\ work[Parent[c]] # "no" /\ Caller(c) \in alive
  /\ outer' = [outer EXCEPT ![c] = "waiting"]
  /\ early' = IF work[Parent[c]] = "answered" THEN early ELSE early \cup {c}
  /\ Says(Caller(c), <<ToCall("request", c)>>)
  /\ UNCHANGED <<provider, route, deleg, inflight, denied, work, stdin, inbox, ping, alive>>

\* The caller's own timer: it forgets the call and asks for its cancellation.
HostTimeout(c) ==
  /\ outer[c] = "waiting" /\ Parent[c] # None /\ Caller(c) \in alive
  /\ outer' = [outer EXCEPT ![c] = "gaveUp"]
  /\ Says(Caller(c), <<ToCall("cancel", c)>>)
  /\ UNCHANGED <<provider, early, route, deleg, inflight, denied, work, stdin, inbox, ping, alive>>

\* Serve: one message of stdin.
CancelledWork(c) == IF work[c] = "running" THEN [work EXCEPT ![c] = "cancelled"] ELSE work

Serve(p) ==
  /\ p \in alive /\ stdin[p] # <<>>
  /\ LET m == Head(stdin[p]) IN
       /\ work' = CASE m.kind = "request" -> [work EXCEPT ![m.call] = "running"]
                    [] m.kind = "cancel" -> CancelledWork(m.call)
                    [] OTHER -> work
       /\ outer' = IF m.kind = "answer" /\ outer[m.call] = "waiting"
                     THEN [outer EXCEPT ![m.call] = "answered"] ELSE outer
       /\ Says(p, IF m.kind = "ping" THEN <<ToCall("pong", None)>> ELSE <<>>)
  /\ stdin' = [stdin EXCEPT ![p] = Tail(@)]
  /\ UNCHANGED <<provider, early, route, deleg, inflight, denied, inbox, ping, alive>>

Answer(c) ==
  /\ work[c] \in {"running", "cancelled"} /\ provider[c] \in alive
  /\ work' = [work EXCEPT ![c] = "answered"]
  /\ Says(provider[c], <<ToCall("answer", c)>>)
  /\ UNCHANGED <<provider, outer, early, route, deleg, inflight, denied, stdin, inbox, ping, alive>>

(***************************************************************************)
(* The router.                                                              *)
(***************************************************************************)
\* invoke, up to the moment ProcessClient.Call waits.
Admit(c) == \E p \in Providers[c] :
  /\ route' = [route EXCEPT ![c] = "calling"]
  /\ provider' = [provider EXCEPT ![c] = p]
  /\ deleg' = deleg \cup {c}
  /\ inflight' = inflight \cup {c}
  /\ stdin' = Written(p, ToCall("request", c))

\* The gateway passes on a client's request and waits for its end.
GatewayInvoke(c) ==
  /\ outer[c] = "no" /\ Parent[c] = None
  /\ outer' = [outer EXCEPT ![c] = "waiting"]
  /\ Admit(c)
  /\ UNCHANGED <<early, denied, work, stdout, inbox, ping, alive>>

GatewayRefuse(c) ==
  /\ outer[c] = "no" /\ Parent[c] = None
  /\ outer' = [outer EXCEPT ![c] = "answered"]
  /\ route' = [route EXCEPT ![c] = "refused"]
  /\ UNCHANGED <<provider, early, deleg, inflight, denied, work, stdin, stdout, inbox, ping, alive>>

\* readLoop: the next line a plugin wrote.  Having passed on a request or a
\* cancel, the reader waits for its acknowledgement.
DoesNotWait(p) == TRUE
ReaderFree(p) == inbox[p] = <<>>

Reads(p, kinds) ==
  /\ ReaderFree(p)
  /\ stdout[p] # <<>> /\ Head(stdout[p]).kind \in kinds
  /\ stdout' = [stdout EXCEPT ![p] = Tail(@)]

ReadControl(p) ==
  /\ Reads(p, {"request", "cancel"})
  /\ inbox' = [inbox EXCEPT ![p] = Append(@, Head(stdout[p]))]
  /\ UNCHANGED <<provider, outer, early, route, deleg, inflight, denied, work, stdin, ping, alive>>

\* An answer goes to the call that waits for it; one that comes too late finds
\* nobody and is dropped.
ReadAnswer(p) ==
  /\ Reads(p, {"answer"})
  /\ LET c == Head(stdout[p]).call IN
       route' = IF route[c] = "calling" THEN [route EXCEPT ![c] = "answered"] ELSE route
  /\ UNCHANGED <<provider, outer, early, deleg, inflight, denied, work, stdin, inbox, ping, alive>>

ReadPong(p) ==
  /\ Reads(p, {"pong"})
  /\ ping' = [ping EXCEPT ![p].out = FALSE]
  /\ UNCHANGED <<provider, outer, early, route, deleg, inflight, denied, work, stdin, inbox, alive>>

\* serveInbound: one message at a time, acknowledged when it is dealt with; a
\* request is dealt with when its invoke has returned.
Serving(p, k) == inbox[p] # <<>> /\ Head(inbox[p]).kind = k
Inbound(p) == Head(inbox[p]).call
Acknowledged(p) == [inbox EXCEPT ![p] = Tail(@)]

ServeRequest(p) ==
  /\ Serving(p, "request") /\ route[Inbound(p)] = "no"
  /\ Parent[Inbound(p)] \in deleg
  /\ Admit(Inbound(p))
  /\ UNCHANGED <<outer, early, denied, work, stdout, inbox, ping, alive>>

\* The delegation is gone, or another check of invoke fails: an error answer.
RefuseRequest(p) ==
  LET c == Inbound(p) IN
  /\ Serving(p, "request") /\ route[c] = "no"
  /\ denied' = IF Parent[c] \in deleg THEN denied ELSE denied \cup {c}
  /\ route' = [route EXCEPT ![c] = "refused"]
  /\ stdin' = Written(p, ToCall("answer", c))
  /\ inbox' = Acknowledged(p)
  /\ UNCHANGED <<provider, outer, early, deleg, inflight, work, stdout, ping, alive>>

\* forwardCancel.
ServeCancel(p) ==
  LET c == Inbound(p) IN
  /\ Serving(p, "cancel")
  /\ stdin' = IF c \in inflight THEN Written(provider[c], ToCall("cancel", c)) ELSE stdin
  /\ inbox' = Acknowledged(p)
  /\ UNCHANGED <<provider, outer, early, route, deleg, inflight, denied, work, stdout, ping, alive>>

\* Call returns without an answer: at its deadline, or when the process has
\* ended and either the write fails or everything it wrote has been read.
OnlyIfRequested(c) == Parent[c] # None
HasDeadline(c) == TRUE

CallTimeout(c) ==
  /\ route[c] = "calling" /\ HasDeadline(c)
  /\ route' = [route EXCEPT ![c] = "deadline"]
  /\ UNCHANGED <<provider, outer, early, deleg, inflight, denied, work, stdin, stdout, inbox, ping, alive>>

CallLost(c) ==
  LET p == provider[c] IN
  /\ route[c] = "calling"
  /\ p \notin alive
  /\ work[c] = "no" \/ (stdout[p] = <<>> /\ ReaderFree(p))
  /\ route' = [route EXCEPT ![c] = "lost"]
  /\ UNCHANGED <<provider, outer, early, deleg, inflight, denied, work, stdin, stdout, inbox, ping, alive>>

\* The provider is told to stop when its caller's deadline has passed.
NoCancel(c) == stdin
CancelOnTimeout(c) ==
  IF route[c] = "deadline" THEN Written(provider[c], ToCall("cancel", c)) ELSE stdin

\* invoke returns: the delegation ends, the caller gets its answer and its
\* reader goes on.
Return(c) ==
  /\ c \in deleg /\ route[c] # "calling"
  /\ deleg' = deleg \ {c}
  /\ inflight' = inflight \ {c}
  /\ IF Parent[c] = None
       THEN /\ outer' = [outer EXCEPT ![c] = "answered"]
            /\ stdin' = CancelOnTimeout(c)
            /\ UNCHANGED inbox
       ELSE /\ LET sent == CancelOnTimeout(c)  p == Caller(c) IN
                 stdin' = IF p \in alive
                            THEN [sent EXCEPT ![p] = Append(@, ToCall("answer", c))]
                            ELSE sent
            /\ inbox' = Acknowledged(Caller(c))
            /\ UNCHANGED outer
  /\ UNCHANGED <<provider, early, route, denied, work, stdout, ping, alive>>

\* A client cancels its own request (CancelExternalRequest); bound: while no
\* other cancel of it is under way.
GatewayCancel(c) ==
  LET p == provider[c] IN
  /\ c \in Regretted /\ c \in inflight
  /\ \A i \in 1 .. Len(stdin[p]) : stdin[p][i] # ToCall("cancel", c)
  /\ work[c] \in {"no", "running"}
  /\ stdin' = Written(p, ToCall("cancel", c))
  /\ UNCHANGED <<provider, outer, early, route, deleg, inflight, denied, work, stdout, inbox, ping, alive>>

(***************************************************************************)
(* Heartbeats and exits.                                                    *)
(***************************************************************************)
Ping(p) ==
  /\ p \in alive /\ ~ping[p].out /\ ping[p].sent < MaxPings[p]
  /\ ping' = [ping EXCEPT ![p] = [out |-> TRUE, sent |-> @.sent + 1]]
  /\ stdin' = Written(p, ToCall("ping", None))
  /\ UNCHANGED <<provider, outer, early, route, deleg, inflight, denied, work, stdout, inbox, alive>>

PingTimeout(p) ==
  /\ ping[p].out
  /\ ping' = [ping EXCEPT ![p].out = FALSE]
  /\ UNCHANGED <<provider, outer, early, route, deleg, inflight, denied, work, stdin, stdout, inbox, alive>>

Exit(p) ==
  /\ p \in alive /\ Cardinality(Plugins \ alive) < MaxExits
  /\ alive' = alive \ {p}
  /\ stdin' = [stdin EXCEPT ![p] = <<>>]
  /\ outer' = [c \in Calls |-> IF Caller(c) = p /\ outer[c] = "waiting"
                                 THEN "gaveUp" ELSE outer[c]]
  /\ UNCHANGED <<provider, early, route, deleg, inflight, denied, work, stdout, inbox, ping>>

Reading(p) ==
  \/ ReadControl(p) \/ ReadAnswer(p) \/ ReadPong(p)
  \/ ServeRequest(p) \/ RefuseRequest(p) \/ ServeCancel(p)

CallNext ==
  \/ \E c \in Calls :
       \/ Issue(c) \/ HostTimeout(c) \/ Answer(c) \/ GatewayInvoke(c) \/ GatewayRefuse(c)
       \/ CallTimeout(c) \/ CallLost(c) \/ Return(c) \/ GatewayCancel(c)
  \/ \E p \in Plugins :
       Serve(p) \/ Reading(p) \/ Ping(p) \/ PingTimeout(p) \/ Exit(p)

CallSpec == CallInit /\ [][CallNext]_callVars

(***************************************************************************)
(* Every goroutine is scheduled and every timer fires.  Nothing makes a     *)
(* handler answer, issue a call, or notice that it has been cancelled.      *)
(***************************************************************************)
CallFairness ==
  /\ \A p \in Plugins : WF_callVars(Serve(p)) /\ WF_callVars(Reading(p))
  /\ \A c \in Calls :
       WF_callVars(HostTimeout(c)) /\ WF_callVars(CallTimeout(c) \/ CallLost(c) \/ Return(c))

FairCallSpec == CallSpec /\ CallFairness

(***************************************************************************)
(* Properties.                                                              *)
(***************************************************************************)
\* The variables have the values the code can store in them.
CallTypeOK ==
  /\ outer \in [Calls -> {"no", "waiting", "answered", "gaveUp"}]
  /\ route \in [Calls -> {"no", "calling", "answered", "deadline", "lost", "refused"}]
  /\ work \in [Calls -> {"no", "running", "cancelled", "answered"}]
  /\ provider \in [Calls -> Plugins \cup {None}]
  /\ early \subseteq Calls /\ deleg \subseteq Calls
  /\ inflight \subseteq Calls /\ denied \subseteq Calls
  /\ stdin \in [Plugins -> Seq(Msg)] /\ stdout \in [Plugins -> Seq(Msg)]
  /\ inbox \in [Plugins -> Seq(Msg)]
  /\ ping \in [Plugins -> [out : BOOLEAN, sent : Nat]] /\ \A p \in Plugins : ping[p].sent <= MaxPings[p]
  /\ alive \subseteq Plugins

\* kernel/docs/13, section 2: control-plane ingress is ordered and acknowledged,
\* so a request a handler makes before it answers is admitted before the answer
\* ends the delegation; only the deadline of the handler's own call may come
\* between.
EarlyChildAdmitted ==
  \A c \in early \cap denied : route[Parent[c]] = "deadline"

\* Behind it: a request is in one pipe at most and nobody works on it before it is
\* read there, and what a plugin has written was issued or answered by it.
Issued(c) == Parent[c] # None /\ outer[c] # "no"
Routed(c) == route[c] \notin {"no", "refused"}

Unread(p, s) ==
  \A i \in DOMAIN s : s[i].kind = "request" =>
    /\ Routed(s[i].call) /\ provider[s[i].call] = p /\ work[s[i].call] = "no"
    /\ \A j \in DOMAIN s : s[j] = s[i] => j = i
Asked(p, m) == Issued(m.call) /\ Caller(m.call) = p
Unheard(p, s) ==
  \A i \in DOMAIN s :
    /\ s[i].kind = "request" => Asked(p, s[i])
    /\ s[i].kind = "answer" => work[s[i].call] = "answered" /\ provider[s[i].call] = p
Unserved(p, s) ==
  Len(s) <= 1 /\ \A i \in DOMAIN s : s[i].kind = "request" => Asked(p, s[i])

PipesTrue ==
  \A p \in Plugins : Unread(p, stdin[p]) /\ Unheard(p, stdout[p]) /\ Unserved(p, inbox[p])

\* The two sides of a call agree, and a delegation given for a plugin's request is held
\* while its reader waits.
SidesAgree ==
  \A c \in Calls :
    /\ Routed(c) => provider[c] \in Plugins
    /\ route[c] # "no" => outer[c] # "no"
    /\ work[c] # "no" => Routed(c)
    /\ Issued(c) => work[Parent[c]] # "no"
    /\ c \in early \cup denied => Issued(c)
    /\ route[c] = "calling" => c \in deleg
    /\ route[c] = "answered" => work[c] = "answered"
    /\ route[c] = "lost" => provider[c] \notin alive
    /\ c \in deleg => Routed(c)
    /\ c \in deleg /\ Parent[c] # None =>
         Issued(c) /\ inbox[Caller(c)] = <<ToCall("request", c)>>

\* A request that was issued and is not yet dealt with is on its way, and an early one
\* is ahead of the answer of its parent.
Holds(s, m) == \E i \in DOMAIN s : s[i] = m
OnWay(c, out, in) == Holds(out, ToCall("request", c)) \/ Holds(in, ToCall("request", c))
Ahead(c, out, in) ==
  \A j \in DOMAIN out : out[j] = ToCall("answer", Parent[c]) =>
    \/ Holds(in, ToCall("request", c))
    \/ \E i \in DOMAIN out : i < j /\ out[i] = ToCall("request", c)

InOrder ==
  \A c \in Calls : Issued(c) /\ route[c] = "no" =>
    /\ OnWay(c, stdout[Caller(c)], inbox[Caller(c)])
    /\ c \in early => /\ route[Parent[c]] \notin {"answered", "lost"}
                      /\ Ahead(c, stdout[Caller(c)], inbox[Caller(c)])

\* The state invariant: the types, that early children are admitted, and what makes it
\* inductive.
Inv == CallTypeOK /\ PipesTrue /\ SidesAgree /\ InOrder /\ EarlyChildAdmitted

\* The same: when a call has timed out, its provider is told, and a live one
\* does not work on uncancelled, even when the request reached it after the
\* caller had gone.
NoRunawayWork ==
  \A c \in Calls :
    <>(route[c] = "deadline")
    => <>[](work[c] # "running" \/ provider[c] \notin alive)

\* No caller waits for ever: not when its provider never answers, not when it
\* dies, and not when two plugins call each other and neither's answer is read.
CallsEnd == \A c \in Calls : outer[c] = "waiting" ~> outer[c] # "waiting"
=============================================================================
