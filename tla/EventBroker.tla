----------------------------- MODULE EventBroker -----------------------------
(***************************************************************************)
(* The event broker of server/events/sse.go: one goroutine, listen(),      *)
(* passes the events that any part of the server publishes to the browsers *)
(* that hold an event stream open.                                         *)
(*                                                                         *)
(* Every SendMessage of the server waits for room in the channel publish,  *)
(* so the library, the scanner and the players stop when listen() does.  A *)
(* stream has a channel of its own; it announces its arrival and its       *)
(* departure on two further channels, and the select statement of listen() *)
(* takes from any channel that has something.                              *)
(***************************************************************************)
EXTENDS Naturals, Sequences

CONSTANTS
  Streams,      \* calls of ServeHTTP
  Events,       \* calls of SendMessage
  Device, User, \* of a stream: the client unique id and the user
  Origin,       \* of an event: whether it is for all, and the device and user it is from
  Nobody,       \* device or user of an event that no client caused
  MaxTicks      \* bound: ticks of keepAlive

VARIABLES
  stream,       \* of a stream: new, arriving, open, leaving or gone
  sender,       \* of an event: new, waiting or sent
  publish, subscribing, unsubscribing,  \* the channels of the broker
  clients,      \* the streams that listen() knows
  msgC,         \* the channel of each stream
  closed,       \* the streams whose channel is closed
  panicked,     \* listen() wrote to a closed channel, or closed one again
  overtook,     \* history: streams whose departure was handled before their arrival
  ticks

channels == <<publish, subscribing, unsubscribing>>
vars == <<stream, sender, channels, clients, msgC, closed, panicked, overtook, ticks>>

ServerStart == "serverStart"
KeepAlive == "keepAlive"

\* Capacities of the channels
publishSize == 2
subscribingSize == 1
bufferSize == 1

Init ==
  /\ stream = [c \in Streams |-> "new"] /\ sender = [e \in Events |-> "new"]
  /\ publish = <<>> /\ subscribing = <<>> /\ unsubscribing = <<>>
  /\ clients = {} /\ msgC = [c \in Streams |-> <<>>] /\ closed = {}
  /\ panicked = FALSE /\ overtook = {} /\ ticks = 0

\* shouldSend(): an event that a client caused goes to the other devices of its user.
ShouldSend(e, c) ==
  \/ Origin[e].all \/ Origin[e].device = Nobody
  \/ Origin[e].device # Device[c] /\ Origin[e].user \in {Nobody, User[c]}

-----------------------------------------------------------------------------
\* A panic of listen() ends the process, so every step has ~panicked as a guard.

\* SendMessage(): is called, and goes on once the channel has room.
SendMessage(e) ==
  /\ ~panicked /\ sender[e] = "new" /\ sender' = [sender EXCEPT ![e] = "waiting"]
  /\ UNCHANGED <<stream, channels, clients, msgC, closed, panicked, overtook, ticks>>

Publish(e) ==
  /\ ~panicked /\ sender[e] = "waiting" /\ Len(publish) < publishSize
  /\ sender' = [sender EXCEPT ![e] = "sent"] /\ publish' = Append(publish, e)
  /\ UNCHANGED <<stream, subscribing, unsubscribing, clients, msgC, closed, panicked, overtook,
                 ticks>>

\* ServeHTTP(): a stream arrives and waits for room in the channel subscribing.
Connect(c) ==
  /\ ~panicked /\ stream[c] = "new" /\ stream' = [stream EXCEPT ![c] = "arriving"]
  /\ UNCHANGED <<sender, channels, clients, msgC, closed, panicked, overtook, ticks>>

Subscribe(c) ==
  /\ ~panicked /\ stream[c] = "arriving" /\ Len(subscribing) < subscribingSize
  /\ stream' = [stream EXCEPT ![c] = "open"] /\ subscribing' = Append(subscribing, c)
  /\ UNCHANGED <<sender, publish, unsubscribing, clients, msgC, closed, panicked, overtook,
                 ticks>>

\* ServeHTTP(), ReadOrDone(): an event is written, or the write fails.
Write(c) ==
  /\ ~panicked /\ stream[c] = "open" /\ msgC[c] # <<>>
  /\ msgC' = [msgC EXCEPT ![c] = Tail(@)]
  /\ \E s \in {"open", "leaving"} : stream' = [stream EXCEPT ![c] = s]
  /\ UNCHANGED <<sender, channels, clients, closed, panicked, overtook, ticks>>

\* ServeHTTP(), ReadOrDone(): the browser goes away.
Disconnect(c) ==
  /\ ~panicked /\ stream[c] = "open" /\ stream' = [stream EXCEPT ![c] = "leaving"]
  /\ UNCHANGED <<sender, channels, clients, msgC, closed, panicked, overtook, ticks>>

\* unsubscribe()
Unsubscribe(c) ==
  /\ ~panicked /\ stream[c] = "leaving" /\ Len(unsubscribing) < subscribingSize
  /\ stream' = [stream EXCEPT ![c] = "gone"] /\ unsubscribing' = Append(unsubscribing, c)
  /\ UNCHANGED <<sender, publish, subscribing, clients, msgC, closed, panicked, overtook, ticks>>

-----------------------------------------------------------------------------
\* sendOrDrop() to the streams cs: a full channel does not get the event.  A send
\* to a closed channel panics.
SendOrDrop(cs, m) ==
  /\ panicked' = (cs \cap closed # {})
  /\ msgC' = [c \in Streams |->
                IF c \in cs \ closed /\ Len(msgC[c]) < bufferSize THEN Append(msgC[c], m)
                                                                  ELSE msgC[c]]

\* listen(): an arrival.
HandleSubscribing ==
  /\ ~panicked /\ subscribing # <<>>
  /\ LET c == Head(subscribing) IN
     /\ clients' = clients \cup {c}
     /\ SendOrDrop({c}, ServerStart)
  /\ subscribing' = Tail(subscribing)
  /\ UNCHANGED <<stream, sender, publish, unsubscribing, closed, overtook, ticks>>

\* listen(): a departure.
HandleUnsubscribing ==
  /\ ~panicked /\ unsubscribing # <<>>
  /\ LET c == Head(unsubscribing) IN
     /\ panicked' = (c \in closed) /\ closed' = closed \cup {c}
     /\ clients' = clients \ {c}
     /\ overtook' = IF c \in clients THEN overtook ELSE overtook \cup {c}
  /\ unsubscribing' = Tail(unsubscribing)
  /\ UNCHANGED <<stream, sender, publish, subscribing, msgC, ticks>>

\* Mutant: without clients listen() does not take events.
HandlePublishToSome ==
  /\ ~panicked /\ publish # <<>> /\ clients # {}
  /\ SendOrDrop({c \in clients : ShouldSend(Head(publish), c)}, Head(publish))
  /\ publish' = Tail(publish)
  /\ UNCHANGED <<stream, sender, subscribing, unsubscribing, clients, closed, overtook, ticks>>

\* listen(): an event.
HandlePublish ==
  /\ ~panicked /\ publish # <<>>
  /\ SendOrDrop({c \in clients : ShouldSend(Head(publish), c)}, Head(publish))
  /\ publish' = Tail(publish)
  /\ UNCHANGED <<stream, sender, subscribing, unsubscribing, clients, closed, overtook, ticks>>

\* listen(): the keep-alive of all streams.
HandleKeepAlive ==
  /\ ~panicked /\ ticks < MaxTicks /\ ticks' = ticks + 1
  /\ SendOrDrop(clients, KeepAlive)
  /\ UNCHANGED <<stream, sender, channels, clients, closed, overtook>>

Listen == HandleSubscribing \/ HandleUnsubscribing \/ HandlePublish
Serve(c) == Subscribe(c) \/ Write(c) \/ Unsubscribe(c)

Next ==
  \/ \E e \in Events : SendMessage(e) \/ Publish(e)
  \/ \E c \in Streams : Connect(c) \/ Disconnect(c) \/ Serve(c)
  \/ Listen \/ HandleKeepAlive

Spec == Init /\ [][Next]_vars

\* listen() and the handlers run; a write ends, since it has a deadline.
FairSpec ==
  /\ Spec /\ WF_vars(Listen)
  /\ \A e \in Events : WF_vars(Publish(e))
  /\ \A c \in Streams : WF_vars(Serve(c))

-----------------------------------------------------------------------------
\* Every variable keeps its type and no channel holds more than its capacity.
TypeOK ==
  /\ stream \in [Streams -> {"new", "arriving", "open", "leaving", "gone"}]
  /\ sender \in [Events -> {"new", "waiting", "sent"}]
  /\ publish \in Seq(Events) /\ Len(publish) <= publishSize
  /\ {subscribing, unsubscribing} \subseteq Seq(Streams)
  /\ Len(subscribing) <= subscribingSize /\ Len(unsubscribing) <= subscribingSize
  /\ clients \subseteq Streams /\ closed \subseteq Streams /\ overtook \subseteq Streams
  /\ msgC \in [Streams -> Seq(Events \cup {ServerStart, KeepAlive})]
  /\ \A c \in Streams : Len(msgC[c]) <= bufferSize
  /\ panicked \in BOOLEAN /\ ticks \in 0..MaxTicks

\* "A client has detached, and we want to stop sending them messages": no stream is
\* registered once its channel is closed.
DetachedIsForgotten == clients \cap closed = {}

\* listen() writes to a closed channel only when a departure was handled before the
\* arrival; in any other order of the channels no stream makes it panic.
PanicHasCause == panicked => overtook # {}

\* No part of the server waits for ever to publish an event, however slow or dead
\* the streams are, as long as listen() has not panicked.
PublisherGoesOn == \A e \in Events : sender[e] = "waiting" ~> sender[e] = "sent" \/ panicked
=============================================================================
