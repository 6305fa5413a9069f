---------------------------- MODULE EventSystem -----------------------------
(***************************************************************************)
(* The event system (pkg/events) with the two REST handlers that read from *)
(* it.  Goroutines: the producers that call AddEvent, the event handler,   *)
(* the shim publisher, the reloads started by a configuration change, and  *)
(* per event stream the request that reads it (getStream) and the          *)
(* forwarder that feeds it.  The event store, the ring buffer and the set  *)
(* of streams each have a lock of their own, held for one call; the lock   *)
(* of the event system is held across the two hand-overs of Stop.          *)
(***************************************************************************)
EXTENDS RingBuffer, FiniteSets

CONSTANTS Reloads,      \* configuration changes, each with its goroutine
          Streams,      \* stream requests
          Nobody,       \* no goroutine
          ChannelSize,  \* buffer of the event channel
          BufSize,      \* defaultChannelBufSize, of both channels of a stream
          HostOf,       \* the host a stream request comes from
          Instances     \* what happens: see "bound"

VARIABLES
  bound,      \* the instance: how many events, which reloads and streams,
              \* the first configuration, the sizes of the store in the others,
              \* with or without the publisher,
              \* the limits on streams, the history lengths they may ask for
  conf,       \* the configuration map: [req, ring, track]
  ec,         \* [stopped, tracking, channel] of the event system
  ecHolder,   \* the goroutine that waits inside Stop with the lock held
  created,    \* events made so far: their names are 1 .. created
  handler,    \* [at, event]: where the event handler is
  store,      \* the event store: [events, len, size, lastSize]
  publisher,  \* [at, batch]: where the shim publisher is
  plugin,     \* the callback of the resource manager is registered
  reload,     \* per reload [at, req, ring]
  stream,     \* per stream, its channels and where its goroutines are
  limiter,    \* the streaming limiter: [streams, perHost]
  added,      \* history: every event added to the ring buffer, in order
  published,  \* history: how many of them were published to the streams
  kept,       \* history: the events the store accepted, in order
  pushed,     \* history: the events sent to the shim, in order
  early       \* history: the length of "kept" when the callback was registered

hist == <<added, published, kept, pushed, early>>
sys == <<conf, ec, ecHolder, created, plugin>>
eventVars == <<ring, bound, sys, handler, store, publisher, reload, stream, limiter, hist>>

Hosts == {HostOf[s] : s \in Streams}

Idle == [at |-> "none", count |-> 0, local |-> <<>>, open |-> FALSE, removed |-> FALSE,
         history |-> <<>>, seen |-> {}, holding |-> <<>>, forwarder |-> "none",
         consumer |-> <<>>, closed |-> FALSE, from |-> 0, covered |-> TRUE, delivered |-> <<>>]

Init ==
  /\ bound \in Instances
  /\ conf = bound.conf
  /\ RingInit(conf.ring)
  /\ ec = [stopped |-> TRUE, tracking |-> conf.track, channel |-> <<>>]
  /\ store = [events |-> <<>>, len |-> conf.req, size |-> conf.req, lastSize |-> conf.req]
  /\ ecHolder = Nobody /\ created = 0
  /\ limiter = [streams |-> 0, perHost |-> [h \in Hosts |-> 0]]
  /\ handler = [at |-> "none", event |-> NoEvent]
  /\ publisher = [at |-> "none", batch |-> <<>>]
  /\ reload = [t \in Reloads |-> [at |-> "none", req |-> 0, ring |-> 0]]
  /\ stream = [s \in Streams |-> Idle]
  /\ plugin = FALSE
  /\ added = <<>> /\ published = 0 /\ kept = <<>> /\ pushed = <<>> /\ early = 0

-----------------------------------------------------------------------------
(* Producers and the life of the service.                                  *)

\* AddEvent: dropped when the system is stopped or its channel is full.
AddEvent ==
  /\ ecHolder = Nobody
  /\ created < bound.events
  /\ created' = created + 1
  /\ ec' = IF ec.stopped \/ Len(ec.channel) = ChannelSize THEN ec
           ELSE [ec EXCEPT !.channel = Append(@, created')]
  /\ UNCHANGED <<ring, bound, conf, ecHolder, plugin, handler, store, publisher, reload, stream, limiter, hist>>

\* Once the lock is taken.
StartServiceWithPublisher(withPublisher) ==
  /\ ecHolder = Nobody
  /\ IF ec.stopped
     THEN /\ ec' = [stopped |-> FALSE, tracking |-> conf.track, channel |-> <<>>]
          /\ handler' = [at |-> "select", event |-> NoEvent]
          /\ publisher' = [at |-> IF withPublisher THEN "select" ELSE "none", batch |-> <<>>]
     ELSE UNCHANGED <<ec, handler, publisher>>

\* The entry point starts the service.
Start ==
  /\ ec.stopped
  /\ \A t \in Reloads : reload[t].at = "none"
  /\ StartServiceWithPublisher(bound.withPublisher)
  /\ UNCHANGED <<ring, bound, conf, ecHolder, created, plugin, store, reload, stream, limiter, hist>>

\* The RM proxy registers the callback when the resource manager has registered:
\* the partitions are there, the service runs.  (Where the publisher is left out
\* nothing reads it.)
RegisterSchedulerPlugin ==
  /\ bound.withPublisher /\ ~plugin /\ handler.at # "none"
  /\ plugin' = TRUE /\ early' = Len(kept)
  /\ UNCHANGED <<ring, bound, conf, ec, ecHolder, created, handler, store, publisher, reload, stream, limiter,
                 added, published, kept, pushed>>

-----------------------------------------------------------------------------
(* The event handler: one event at a time through store, ring buffer and   *)
(* streams.                                                                *)

Receive ==
  /\ handler.at = "select" /\ ec.channel # <<>>
  /\ handler' = [at |-> "store", event |-> Head(ec.channel)]
  /\ ec' = [ec EXCEPT !.channel = Tail(@)]
  /\ UNCHANGED <<ring, bound, conf, ecHolder, created, plugin, store, publisher, reload, stream, limiter, hist>>

\* EventStore.Store
Store ==
  /\ handler.at = "store"
  /\ handler' = [handler EXCEPT !.at = "add"]
  /\ IF Len(store.events) = store.len THEN UNCHANGED <<store, kept>>
     ELSE /\ store' = [store EXCEPT !.events = Append(@, handler.event)]
          /\ kept' = Append(kept, handler.event)
  /\ UNCHANGED <<ring, bound, sys, publisher, reload, stream, limiter, added, published, pushed, early>>

AddToBuffer ==
  /\ handler.at = "add"
  /\ handler' = [handler EXCEPT !.at = "publish"]
  /\ Add(handler.event)
  /\ added' = Append(added, handler.event)
  /\ UNCHANGED <<bound, sys, store, publisher, reload, stream, limiter, published, kept, pushed, early>>

\* removeEventStream: close(stopCh), close(local), forget the stream.
Removed(r) == IF r.open THEN [r EXCEPT !.open = FALSE, !.removed = TRUE] ELSE r

\* PublishEvent: to every registered stream; a stream that does not keep up
\* is removed.
PublishEvent ==
  /\ handler.at = "publish"
  /\ handler' = [at |-> "select", event |-> NoEvent]
  /\ published' = published + 1
  /\ stream' = [s \in Streams |->
       IF ~stream[s].open THEN stream[s]
       ELSE IF Len(stream[s].local) = BufSize THEN Removed(stream[s])
       ELSE [stream[s] EXCEPT !.local = Append(@, handler.event)]]
  /\ UNCHANGED <<ring, bound, sys, store, publisher, reload, limiter, added, kept, pushed, early>>

-----------------------------------------------------------------------------
(* The shim publisher.                                                     *)

\* The events of the store are collected and stay in it.
CollectTwice ==
  /\ publisher.at = "select"
  /\ store.events # <<>> \/ store.size # store.lastSize
  /\ publisher' = IF store.events = <<>> THEN publisher
                  ELSE [at |-> "send", batch |-> store.events]
  /\ store' = [store EXCEPT !.len = store.size, !.lastSize = store.size]
  /\ UNCHANGED <<ring, bound, sys, handler, reload, stream, limiter, hist>>

\* CollectEvents, at every tick of the publisher; the new size takes effect
\* here.  (A tick that finds nothing to do changes nothing.)
CollectEvents ==
  /\ publisher.at = "select"
  /\ store.events # <<>> \/ store.size # store.lastSize
  /\ publisher' = IF store.events = <<>> THEN publisher
                  ELSE [at |-> "send", batch |-> store.events]
  /\ store' = [events |-> <<>>, size |-> store.size, lastSize |-> store.size,
               len |-> IF store.size # store.lastSize THEN store.size ELSE store.len]
  /\ UNCHANGED <<ring, bound, sys, handler, reload, stream, limiter, hist>>

\* What was collected is gone when there is no callback.
SendEvent ==
  /\ publisher.at = "send"
  /\ pushed' = IF plugin THEN pushed \o publisher.batch ELSE pushed
  /\ publisher' = [at |-> "select", batch |-> <<>>]
  /\ UNCHANGED <<ring, bound, sys, handler, store, reload, stream, limiter, added, published, kept, early>>

-----------------------------------------------------------------------------
(* Configuration changes: each starts a goroutine that runs reloadConfig.  *)

At(t, pc) == reload[t].at = pc
Goto(t, pc) == reload' = [reload EXCEPT ![t].at = pc]

ChangeConfig(t, c) ==
  /\ t \in bound.reloads /\ At(t, "none")
  /\ conf' = c
  /\ Goto(t, "read")
  /\ UNCHANGED <<ring, bound, ec, ecHolder, created, plugin, handler, store, publisher, stream, limiter, hist>>

\* The two capacities are read from the map before the lock is taken.
ReadConfig(t) ==
  /\ At(t, "read")
  /\ reload' = [reload EXCEPT ![t] = [at |-> "copy", req |-> conf.req, ring |-> conf.ring]]
  /\ UNCHANGED <<ring, bound, sys, handler, store, publisher, stream, limiter, hist>>

\* The copies kept in the event system itself are only read by tests.
CopyConfig(t) ==
  /\ At(t, "copy") /\ ecHolder = Nobody
  /\ Goto(t, "size")
  /\ UNCHANGED <<ring, bound, sys, handler, store, publisher, stream, limiter, hist>>

SetStoreSize(t) ==
  /\ At(t, "size")
  /\ store' = [store EXCEPT !.size = reload[t].req]
  /\ Goto(t, "resize")
  /\ UNCHANGED <<ring, bound, sys, handler, publisher, stream, limiter, hist>>

ResizeBuffer(t) ==
  /\ At(t, "resize")
  /\ Resize(reload[t].ring)
  /\ Goto(t, "check")
  /\ UNCHANGED <<bound, sys, handler, store, publisher, stream, limiter, hist>>

\* isRestartNeeded
CheckRestart(t) ==
  /\ At(t, "check") /\ ecHolder = Nobody
  /\ Goto(t, IF conf.track # ec.tracking THEN "track" ELSE "done")
  /\ UNCHANGED <<ring, bound, sys, handler, store, publisher, stream, limiter, hist>>

SetTracking(t) ==
  /\ At(t, "track") /\ ecHolder = Nobody
  /\ ec' = [ec EXCEPT !.tracking = conf.track]
  /\ Goto(t, "stop")
  /\ UNCHANGED <<ring, bound, conf, ecHolder, created, plugin, handler, store, publisher, stream, limiter, hist>>

\* Stop without the test that the system is running.
StopAgain(t) ==
  /\ At(t, "stop") /\ ecHolder = Nobody
  /\ ec' = [ec EXCEPT !.stopped = TRUE]
  /\ ecHolder' = t
  /\ Goto(t, "stopHandler")
  /\ UNCHANGED <<ring, bound, conf, created, plugin, handler, store, publisher, stream, limiter, hist>>

\* Stop, up to the hand-over of the stop message: a stopped system is left
\* alone.
Stop(t) ==
  /\ At(t, "stop") /\ ecHolder = Nobody
  /\ IF ec.stopped
     THEN /\ Goto(t, "start")
          /\ UNCHANGED <<ec, ecHolder>>
     ELSE /\ ec' = [ec EXCEPT !.stopped = TRUE]
          /\ ecHolder' = t
          /\ Goto(t, "stopHandler")
  /\ UNCHANGED <<ring, bound, conf, created, plugin, handler, store, publisher, stream, limiter, hist>>

\* The handler takes the stop message between two events; what is left in
\* the channel is lost.
StopHandler(t) ==
  /\ At(t, "stopHandler") /\ handler.at = "select"
  /\ handler' = [handler EXCEPT !.at = "none"]
  /\ ec' = [ec EXCEPT !.channel = <<>>]
  /\ Goto(t, "stopPublisher")
  /\ UNCHANGED <<ring, bound, conf, ecHolder, created, plugin, store, publisher, stream, limiter, hist>>

\* eventPublisher.stop, and the unlock at the end of Stop.
StopPublisher(t) ==
  /\ At(t, "stopPublisher") /\ publisher.at \in {"select", "none"}
  /\ publisher' = [publisher EXCEPT !.at = "none"]
  /\ ecHolder' = Nobody
  /\ Goto(t, "start")
  /\ UNCHANGED <<ring, bound, conf, ec, created, plugin, handler, store, stream, limiter, hist>>

Restart(t) ==
  /\ At(t, "start")
  /\ StartServiceWithPublisher(TRUE)
  /\ Goto(t, "done")
  /\ UNCHANGED <<ring, bound, conf, ecHolder, created, plugin, store, stream, limiter, hist>>

Reload(t) ==
  \/ ReadConfig(t) \/ CopyConfig(t) \/ SetStoreSize(t) \/ ResizeBuffer(t)
  \/ CheckRestart(t) \/ SetTracking(t) \/ Stop(t) \/ StopHandler(t) \/ StopPublisher(t) \/ Restart(t)

-----------------------------------------------------------------------------
(* Streams: the request goroutine (getStream).                             *)

On(s, pc) == stream[s].at = pc
others == <<ring, bound, sys, handler, store, publisher, reload, hist>>

\* The tests of getStream; StreamingLimiter.AddHost counts the connection.
Connect(s, c) ==
  /\ s \in bound.streams /\ On(s, "none") /\ ecHolder = Nobody
  /\ IF /\ ec.tracking
        /\ limiter.streams < bound.maxStreams
        /\ limiter.perHost[HostOf[s]] < bound.maxPerHost
     THEN /\ limiter' = [limiter EXCEPT !.streams = @ + 1, !.perHost[HostOf[s]] = @ + 1]
          /\ stream' = [stream EXCEPT ![s].at = "register", ![s].count = c]
     ELSE /\ stream' = [stream EXCEPT ![s].at = "done"]
          /\ UNCHANGED limiter
  /\ UNCHANGED others

\* The history length is no number, or the deadlines cannot be set.
BadRequest(s) ==
  /\ On(s, "register")
  /\ stream' = [stream EXCEPT ![s].at = "uncount"]
  /\ UNCHANGED <<others, limiter>>

\* createEventStreamInternal
Register(s) ==
  /\ On(s, "register")
  /\ stream' = [stream EXCEPT ![s].at = "snapshot", ![s].open = TRUE, ![s].from = published]
  /\ UNCHANGED <<others, limiter>>

\* GetRecentEvents, and the start of the forwarder.  "covered" records
\* whether the history reaches back to every event that was published to the
\* stream since it was registered.
Snapshot(s) ==
  /\ On(s, "snapshot")
  /\ LET h == GetRecentEvents(stream[s].count)
     IN  stream' = [stream EXCEPT ![s].at = "read", ![s].history = h,
                      ![s].covered = (h = <<>> \/ Len(added) - Len(h) <= stream[s].from),
                      ![s].forwarder = "history"]
  /\ UNCHANGED <<others, limiter>>

\* The request takes an event from the stream and writes it to the client.
Read(s) ==
  /\ On(s, "read") /\ stream[s].consumer # <<>>
  /\ stream' = [stream EXCEPT ![s].consumer = Tail(@)]
  /\ UNCHANGED <<others, limiter>>

\* The channel was closed by the producer.
ReadClosed(s) ==
  /\ On(s, "read") /\ stream[s].consumer = <<>> /\ stream[s].closed
  /\ stream' = [stream EXCEPT ![s].at = "remove"]
  /\ UNCHANGED <<others, limiter>>

\* The client went away, or the answer could not be written.
Disconnect(s) ==
  /\ On(s, "read")
  /\ stream' = [stream EXCEPT ![s].at = "remove"]
  /\ UNCHANGED <<others, limiter>>

\* The deferred RemoveStream.
RemoveEventStream(s) ==
  /\ On(s, "remove")
  /\ stream' = [stream EXCEPT ![s] = [Removed(@) EXCEPT !.at = "uncount"]]
  /\ UNCHANGED <<others, limiter>>

\* The deferred RemoveHost.
RemoveHost(s) ==
  /\ On(s, "uncount")
  /\ stream' = [stream EXCEPT ![s].at = "done"]
  /\ limiter' = [limiter EXCEPT !.streams = @ - 1, !.perHost[HostOf[s]] = @ - 1]
  /\ UNCHANGED others

-----------------------------------------------------------------------------
(* Streams: the forwarder.  A send to the consumer channel waits for room. *)

Forwards(s, pc) == stream[s].forwarder = pc
Put(r, e) == [r EXCEPT !.consumer = Append(@, e),
                       !.delivered = IF e = NoEvent THEN @ ELSE Append(@, e)]

ForwardHistory(s) ==
  /\ Forwards(s, "history")
  /\ \/ /\ stream[s].history = <<>>
        /\ stream' = [stream EXCEPT ![s].forwarder = "select"]
     \/ /\ stream[s].history # <<>> /\ Len(stream[s].consumer) < BufSize
        /\ LET e == Head(stream[s].history)
           IN  stream' = [stream EXCEPT ![s] =
                 [Put(@, e) EXCEPT !.history = Tail(@), !.seen = @ \union {e}]]
  /\ UNCHANGED <<others, limiter>>

\* The stop channel is closed: close(consumer).
ForwardStop(s) ==
  /\ Forwards(s, "select") /\ stream[s].removed
  /\ stream' = [stream EXCEPT ![s].forwarder = "none", ![s].closed = TRUE]
  /\ UNCHANGED <<others, limiter>>

\* Every event of the local channel is passed on, seen or not.
ForwardAll(s) ==
  /\ Forwards(s, "select") /\ stream[s].local # <<>>
  /\ stream' = [stream EXCEPT ![s].local = Tail(@), ![s].holding = <<Head(stream[s].local)>>,
                              ![s].forwarder = "put"]
  /\ UNCHANGED <<others, limiter>>

\* An event from the local channel: skipped when the history held it.  The
\* first one it did not hold empties "seen".  A closed channel that is empty
\* hands out nil.
ForwardLocal(s) ==
  /\ Forwards(s, "select")
  /\ stream[s].local # <<>> \/ stream[s].removed
  /\ LET r == stream[s]
         e == IF r.local = <<>> THEN NoEvent ELSE Head(r.local)
         rest == IF r.local = <<>> THEN <<>> ELSE Tail(r.local)
     IN  stream' = [stream EXCEPT ![s] =
           IF e \in r.seen THEN [r EXCEPT !.local = rest]
           ELSE [r EXCEPT !.local = rest, !.seen = {}, !.holding = <<e>>, !.forwarder = "put"]]
  /\ UNCHANGED <<others, limiter>>

ForwardPut(s) ==
  /\ Forwards(s, "put") /\ Len(stream[s].consumer) < BufSize
  /\ stream' = [stream EXCEPT ![s] =
        [Put(@, Head(@.holding)) EXCEPT !.holding = <<>>, !.forwarder = "select"]]
  /\ UNCHANGED <<others, limiter>>

-----------------------------------------------------------------------------
Handler == Receive \/ Store \/ AddToBuffer \/ PublishEvent
Publisher == CollectEvents \/ SendEvent
Request(s) ==
  Register(s) \/ Snapshot(s) \/ Read(s) \/ ReadClosed(s) \/ RemoveEventStream(s) \/ RemoveHost(s)
Forwarder(s) == ForwardHistory(s) \/ ForwardLocal(s) \/ ForwardStop(s) \/ ForwardPut(s)

Next ==
  \/ AddEvent \/ Start \/ RegisterSchedulerPlugin \/ Handler \/ Publisher
  \/ \E t \in Reloads : \/ Reload(t)
                       \/ \E c \in [req : bound.stores, ring : Sizes, track : BOOLEAN] : ChangeConfig(t, c)
  \/ \E s \in Streams : \/ Request(s) \/ Forwarder(s) \/ BadRequest(s) \/ Disconnect(s)
                       \/ \E c \in bound.counts : Connect(s, c)

\* Every goroutine that can move moves in the end, and a forwarder that finds
\* the stop channel closed again and again takes that case: Go chooses among
\* the ready cases of a select at random.  Nothing makes a producer, a client
\* or the configuration act.
Fairness ==
  /\ WF_eventVars(Handler) /\ WF_eventVars(Publisher)
  /\ \A t \in Reloads : WF_eventVars(Reload(t))
  /\ \A s \in Streams : /\ WF_eventVars(Request(s)) /\ WF_eventVars(Forwarder(s))
                        /\ SF_eventVars(ForwardStop(s))

Spec == Init /\ [][Next]_eventVars /\ Fairness

-----------------------------------------------------------------------------
\* The variables have the types their users rely on.
TypeOK ==
  /\ capacity \in Sizes /\ DOMAIN events = 0 .. capacity - 1 /\ head \in DOMAIN events
  /\ full \in BOOLEAN /\ lowestId \in 0 .. id /\ resizeOffset \in 0 .. lowestId
  /\ Len(ec.channel) <= ChannelSize
  /\ limiter.streams <= bound.maxStreams
  /\ \A s \in Streams : Len(stream[s].local) <= BufSize /\ Len(stream[s].consumer) <= BufSize

\* The pieces a stream delivers are one unbroken piece of the sequence of
\* events, without repetition.
Unbroken(s) ==
  \E k \in 0 .. Len(added) :
    /\ k + Len(stream[s].delivered) <= Len(added)
    /\ stream[s].delivered = SubSeq(added, k + 1, k + Len(stream[s].delivered))

\* A stream never repeats, drops or reorders events between the history it
\* starts with and the events published while it was set up
\* (CreateEventStream, event_streaming.go:90), provided the history covers
\* what was published since the registration.
StreamUnbroken == \A s \in Streams : stream[s].covered => Unbroken(s)

\* Every event the store accepts once the callback is registered reaches the
\* shim once, in order, across resizes of the store and restarts of the publisher
\* (CollectEvents, event_store.go:66); of the events before that, which the
\* publisher may have collected for nobody, only the first ones are missing.
PushedOnce ==
  LET sent == pushed \o publisher.batch \o store.events
      missing == Len(kept) - Len(sent)
  IN  /\ missing >= 0 /\ sent = SubSeq(kept, missing + 1, Len(kept))
      /\ plugin => missing <= early

\* The streaming limiter counts exactly the requests that hold a connection,
\* in total and per host (AddHost and RemoveHost, streaming_limit.go).
LimiterExact ==
  LET held == {s \in Streams : stream[s].at \in {"register", "snapshot", "read", "remove", "uncount"}}
  IN  /\ limiter.streams = Cardinality(held)
      /\ \A h \in Hosts : limiter.perHost[h] = Cardinality({s \in held : HostOf[s] = h})

\* A configuration change is carried out to its end: Stop never waits for a
\* goroutine that is gone, whatever other reload runs beside it
\* (event_system.go:167).
ReloadEnds == \A t \in Reloads : reload[t].at = "read" ~> reload[t].at = "done"

\* A client whose stream was removed for being slow learns it: its request
\* ends unless the client leaves first (event_streaming.go:66).
RemovedStreamEnds == \A s \in Streams : stream[s].removed ~> stream[s].at = "done"

\* A stream delivers an unbroken piece of the history, and the limiter counts the
\* streams that are open.
StreamsExact == TypeOK /\ StreamUnbroken /\ LimiterExact

\* Neither a reload nor a request whose stream was removed waits for ever.
NobodyWaits == ReloadEnds /\ RemovedStreamEnds

-----------------------------------------------------------------------------
(* Expected of the code by its comments, and not so: see the README.       *)

\* Without the proviso of StreamUnbroken: no event is delivered twice to one stream; "doubling
\* is no longer possible at this point" (event_streaming.go:124).
NoDoubling ==
  \A s \in Streams : \A i, j \in DOMAIN stream[s].delivered :
    stream[s].delivered[i] = stream[s].delivered[j] => i = j
=============================================================================
