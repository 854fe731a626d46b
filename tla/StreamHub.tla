----------------------------- MODULE StreamHub -----------------------------
(***************************************************************************)
(* StreamHub (src/app/adapters/content/streaming/stream_hub.py): the        *)
(* in-process pub/sub between the URL pipeline and the SSE endpoint.  The   *)
(* hub keeps the state of every request id apart; this is one request id.   *)
(*                                                                          *)
(* publish() and the snapshot-and-register of subscribe() run without an    *)
(* await inside, so each is one step; a subscriber takes one event per step *)
(* and may disconnect between two of them.  Cleanups run from call_later,   *)
(* 60 s after a terminal event, whatever happened in between.               *)
(***************************************************************************)
EXTENDS Naturals, SequencesExt

CONSTANTS
  Subscribers,
  RingSize,    \* _RING_BUFFER_MAXLEN
  QueueSize,   \* _QUEUE_MAXSIZE
  Kinds,       \* the kinds that are published (of ProgressEventKind)
  MaxEvents    \* bound: events published

AllKinds == {"stage", "section", "warning", "done", "error"}

ASSUME HubAssumption ==
  /\ {RingSize, QueueSize, MaxEvents} \subseteq Nat \ {0}
  /\ Kinds \subseteq AllKinds

VARIABLES
  buffer,      \* _buffers[id]; an absent entry reads as the empty one
  registered,  \* the subscribers whose queue is in _subscribers[id]
  queue,       \* asyncio.Queue of each subscriber
  backlog,     \* what is left of the snapshot a subscriber replays
  phase,       \* where each subscribe() generator is
  timers,      \* cleanups scheduled by call_later and not yet run
  published,   \* history: the number of events published
  received,    \* history: the events yielded to each subscriber
  lost,        \* history: the events dropped from each queue
  start,       \* history: events published when the subscriber registered
  cut          \* history: the subscribers whose queue a cleanup took off the hub

subVars == <<queue, backlog, phase, received, lost, start>>
hubVars == <<buffer, registered, timers, published, cut, subVars>>

TerminalKinds == {"done", "error"}
Events == [kind : Kinds, n : 1..MaxEvents]
IsTerminal(e) == e.kind \in TerminalKinds

HubInit ==
  /\ buffer = <<>> /\ registered = {} /\ timers = 0 /\ published = 0 /\ cut = {}
  /\ queue = [s \in Subscribers |-> <<>>]
  /\ backlog = [s \in Subscribers |-> <<>>]
  /\ phase = [s \in Subscribers |-> "idle"]
  /\ received = [s \in Subscribers |-> <<>>]
  /\ lost = [s \in Subscribers |-> {}]
  /\ start = [s \in Subscribers |-> 0]

\* Faulty variants of RingAppend: no maxlen; appendleft.
RingAppendUnbounded(b, e) == Append(b, e)
RingAppendLeft(b, e) ==
  <<e>> \o (IF Len(b) < RingSize THEN b ELSE SubSeq(b, 1, RingSize - 1))

\* deque(maxlen=n).append
RingAppend(b, e) ==
  IF Len(b) < RingSize THEN Append(b, e) ELSE Append(Tail(b), e)

\* Faulty variant of DropIndex: whatever is oldest is dropped.
DropOldest(q) == 1

\* The index _drop_oldest_non_terminal deletes, 0 when there is none.
DropIndex(q) ==
  LET Droppable == {i \in 1..Len(q) : ~IsTerminal(q[i])} IN
  IF Droppable = {} THEN 0
  ELSE CHOOSE i \in Droppable : \A j \in Droppable : i <= j

\* _put_event: what the queue holds afterwards and what was dropped for it.
Put(q, e) ==
  IF Len(q) < QueueSize THEN [q |-> Append(q, e), out |-> {}]
  ELSE LET i == DropIndex(q) IN
       IF i > 0 THEN [q |-> Append(RemoveAt(q, i), e), out |-> {q[i]}]
       ELSE [q |-> q, out |-> {e}]

Publish(kind) ==
  LET e == [kind |-> kind, n |-> published + 1] IN
  /\ published < MaxEvents
  /\ published' = published + 1
  /\ buffer' = RingAppend(buffer, e)
  /\ queue' = [s \in Subscribers |->
                 IF s \in registered THEN Put(queue[s], e).q ELSE queue[s]]
  /\ lost' = [s \in Subscribers |->
                 IF s \in registered THEN lost[s] \cup Put(queue[s], e).out ELSE lost[s]]
  /\ timers' = IF IsTerminal(e) THEN timers + 1 ELSE timers
  /\ UNCHANGED <<registered, backlog, phase, received, start, cut>>

\* Faulty variant of Subscribe: registered only after the replay.
SubscribeUnregistered(s) ==
  /\ phase[s] = "idle"
  /\ backlog' = [backlog EXCEPT ![s] = buffer]
  /\ start' = [start EXCEPT ![s] = published]
  /\ phase' = [phase EXCEPT ![s] = "replay"]
  /\ UNCHANGED <<buffer, registered, timers, published, queue, received, lost, cut>>

\* The first step of the generator: snapshot and registration.
Subscribe(s) ==
  /\ phase[s] = "idle"
  /\ backlog' = [backlog EXCEPT ![s] = buffer]
  /\ registered' = registered \cup {s}
  /\ start' = [start EXCEPT ![s] = published]
  /\ phase' = [phase EXCEPT ![s] = "replay"]
  /\ UNCHANGED <<buffer, timers, published, queue, received, lost, cut>>

\* The finally of the generator, after a terminal event or a disconnect.
Leave(s) ==
  /\ phase' = [phase EXCEPT ![s] = "closed"]
  /\ registered' = registered \ {s}

\* Faulty variant of Yield: the generator goes on after a terminal event.
YieldGoesOn(s, e) ==
  /\ received' = [received EXCEPT ![s] = Append(@, e)]
  /\ UNCHANGED <<phase, registered>>

Yield(s, e) ==
  /\ received' = [received EXCEPT ![s] = Append(@, e)]
  /\ IF IsTerminal(e) THEN Leave(s) ELSE UNCHANGED <<phase, registered>>

\* Faulty variant of Replay: a terminal event of the backlog is one like others.
ReplayGoesOn(s) ==
  /\ phase[s] = "replay" /\ backlog[s] # <<>>
  /\ YieldGoesOn(s, Head(backlog[s]))
  /\ backlog' = [backlog EXCEPT ![s] = Tail(@)]
  /\ UNCHANGED <<buffer, timers, published, queue, lost, start, cut>>

Replay(s) ==
  /\ phase[s] = "replay" /\ backlog[s] # <<>>
  /\ Yield(s, Head(backlog[s]))
  /\ backlog' = [backlog EXCEPT ![s] = Tail(@)]
  /\ UNCHANGED <<buffer, timers, published, queue, lost, start, cut>>

GoLive(s) ==
  /\ phase[s] = "replay" /\ backlog[s] = <<>>
  /\ phase' = [phase EXCEPT ![s] = "live"]
  /\ UNCHANGED <<buffer, registered, timers, published, queue, backlog, received, lost, start, cut>>

Deliver(s) ==
  /\ phase[s] = "live" /\ queue[s] # <<>>
  /\ Yield(s, Head(queue[s]))
  /\ queue' = [queue EXCEPT ![s] = Tail(@)]
  /\ UNCHANGED <<buffer, timers, published, backlog, lost, start, cut>>

Disconnect(s) ==
  /\ phase[s] \in {"replay", "live"}
  /\ Leave(s)
  /\ UNCHANGED <<buffer, timers, published, queue, backlog, received, lost, start, cut>>

\* _cleanup_request: the buffer and the list of queues of the id are dropped.
Cleanup ==
  /\ timers > 0
  /\ timers' = timers - 1
  /\ buffer' = <<>> /\ registered' = {}
  /\ cut' = cut \cup registered
  /\ UNCHANGED <<published, subVars>>

Consume(s) == Replay(s) \/ GoLive(s) \/ Deliver(s)

\* Nothing left to publish or to clean up, and every reader waits or is gone.
HubIdle ==
  /\ published = MaxEvents /\ timers = 0
  /\ UNCHANGED hubVars

HubNext ==
  \/ \E kind \in Kinds : Publish(kind)
  \/ \E s \in Subscribers : Subscribe(s) \/ Consume(s) \/ Disconnect(s)
  \/ Cleanup
  \/ HubIdle

HubSpec == HubInit /\ [][HubNext]_hubVars

\* A connected client reads what the generator has for it; timers fire.
HubFairSpec == HubSpec /\ WF_hubVars(Cleanup) /\ \A s \in Subscribers : WF_hubVars(Consume(s))

-----------------------------------------------------------------------------
(* Properties *)

HubTypeOK ==
  /\ buffer \in Seq(Events) /\ Len(buffer) <= RingSize
  /\ registered \subseteq Subscribers
  /\ queue \in [Subscribers -> Seq(Events)]
  /\ \A s \in Subscribers : Len(queue[s]) <= QueueSize
  /\ backlog \in [Subscribers -> Seq(Events)]
  /\ phase \in [Subscribers -> {"idle", "replay", "live", "closed"}]
  /\ timers \in Nat /\ published \in 0..MaxEvents
  /\ received \in [Subscribers -> Seq(Events)]
  /\ lost \in [Subscribers -> SUBSET Events]
  /\ start \in [Subscribers -> 0..MaxEvents]
  /\ cut \subseteq Subscribers

Stream(s) == received[s] \o backlog[s] \o queue[s]

\* What a subscriber has got and still holds is in publication order, without
\* duplicates, over the seam between the replayed backlog and the live queue.
InOrder ==
  \A s \in Subscribers :
    \A i, j \in 1..Len(Stream(s)) : i < j => Stream(s)[i].n < Stream(s)[j].n

\* No silent gap: until a cleanup cuts it off, a connected subscriber has got,
\* holds, or lost to the bound of its queue, every event since it subscribed.
NoGap ==
  \A s \in {x \in Subscribers \ cut : phase[x] \in {"replay", "live"}} :
    \A n \in (start[s] + 1)..published :
    \/ \E i \in 1..Len(Stream(s)) : Stream(s)[i].n = n
    \/ \E e \in lost[s] : e.n = n

\* Backpressure never costs a reader its terminal event: one is dropped only
\* from a queue that holds nothing but terminal events.
TerminalKept ==
  \A s \in Subscribers : \A e \in lost[s] :
    IsTerminal(e) => \E i \in 1..Len(Stream(s)) : IsTerminal(Stream(s)[i])

\* A stream ends with its first terminal event, and only then.
NothingAfterTerminal ==
  \A s \in Subscribers : \A i \in 1..Len(received[s]) :
    IsTerminal(received[s][i]) => i = Len(received[s]) /\ phase[s] = "closed"

\* What a reader is owed, however it comes and goes and however slow it is.
StreamIsFaithful == InOrder /\ NoGap /\ TerminalKept /\ NothingAfterTerminal

Holds(s) == \E i \in 1..Len(Stream(s)) : IsTerminal(Stream(s)[i])

\* A reader that holds a terminal event ends, also when the cleanup has already
\* taken its queue off the hub.
TerminalEnds == []<>(\A s \in Subscribers : Holds(s) => phase[s] = "closed")
=============================================================================
