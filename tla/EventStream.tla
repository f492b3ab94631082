---------------------------- MODULE EventStream ----------------------------
(***************************************************************************)
(* The events of one household on their way from log_event to the apps of  *)
(* its members: the bus of each server process, Redis between them, and a  *)
(* server-sent event stream for each member who is connected.              *)
(*                                                                         *)
(* A process starts with the Redis bus, or without Redis, in a setup of    *)
(* one process, with a bus in its memory; the first error of Redis makes   *)
(* it fall back to the latter for good.  A stream subscribes first, then   *)
(* replays the history after the last event its member has received, then  *)
(* sends what has gathered in its queue.                                   *)
(*                                                                         *)
(* An event is its number in the order of publication.  What is sent is    *)
(* received at once: what a broken connection loses on its way is lost     *)
(* with the queue it was taken from.                                       *)
(***************************************************************************)
EXTENDS Integers, Sequences, FiniteSets

CONSTANTS
  Members,       \* members who listen, one stream each
  Processes,     \* server processes
  QueueSize,     \* _QUEUE_MAXSIZE
  HistoryLimit,  \* _EVENT_HISTORY_LIMIT
  MaxEvents,     \* bound on the events published
  MaxBreaks,     \* bound on the connections that break
  MaxOutages     \* bound on the outages of Redis

ASSUME EventStreamAssumption ==
  /\ QueueSize \in Nat \ {0} /\ HistoryLimit \in Nat \ {0}
  /\ MaxEvents \in Nat /\ MaxBreaks \in Nat /\ MaxOutages \in Nat
  /\ Processes # {} /\ "redis" \notin Processes

VARIABLES
  published,  \* the number of events published
  up,         \* whether Redis answers
  stored,     \* the history in Redis
  running,    \* the processes there are
  mode,       \* the bus each process uses
  memory,     \* the history in the memory of each process
  stage,      \* where the stream of each member is
  at,         \* the process that serves it
  source,     \* what feeds its queue: Redis, or the memory bus of a process
  pumping,    \* whether its pump task is alive
  channel,    \* what Redis has sent it and the pump has not taken
  queue,      \* its queue
  backlog,    \* what is left of its replay
  last,       \* the last event id the client has received, 0 for none
  top,        \* history: the newest event it has received
  from, upto, \* history: events published at its subscription, at its replay
  lossy,      \* history: members whose queue overflowed or whose place was lost
  breaks,     \* history: connections broken
  outages     \* history: outages of Redis

server == <<up, stored, running, mode, memory>>
stream == <<stage, at, source, pumping, channel, queue, backlog>>
vars == <<published, server, stream, last, top, from, upto, lossy, breaks, outages>>

Events == 1..MaxEvents
Buses == {"redis"} \cup Processes

TypeOK ==
  /\ published \in 0..MaxEvents
  /\ up \in BOOLEAN
  /\ stored \in Seq(Events) /\ Len(stored) <= HistoryLimit
  /\ running \subseteq Processes
  /\ mode \in [Processes -> {"redis", "memory"}]
  /\ memory \in [Processes -> Seq(Events)]
  /\ \A p \in Processes : Len(memory[p]) <= HistoryLimit
  /\ stage \in [Members -> {"off", "subscribing", "replaying", "live"}]
  /\ at \in [Members -> Processes]
  /\ source \in [Members -> Buses]
  /\ pumping \in [Members -> BOOLEAN]
  /\ channel \in [Members -> Seq(Events)]
  /\ queue \in [Members -> Seq(Events)]
  /\ \A m \in Members : Len(queue[m]) <= QueueSize
  /\ backlog \in [Members -> Seq(Events)]
  /\ last \in [Members -> 0..MaxEvents]
  /\ top \in [Members -> 0..MaxEvents]
  /\ from \in [Members -> 0..MaxEvents]
  /\ upto \in [Members -> 0..MaxEvents]
  /\ lossy \subseteq Members
  /\ breaks \in 0..MaxBreaks
  /\ outages \in 0..MaxOutages

Init ==
  /\ published = 0
  /\ up = TRUE
  /\ stored = <<>>
  /\ \/ running = Processes /\ mode = [p \in Processes |-> "redis"]
     \/ (\E p \in Processes : running = {p}) /\ mode = [p \in Processes |-> "memory"]
  /\ memory = [p \in Processes |-> <<>>]
  /\ stage = [m \in Members |-> "off"]
  /\ at \in [Members -> {CHOOSE p \in Processes : TRUE}]
  /\ source = [m \in Members |-> "redis"]
  /\ pumping = [m \in Members |-> FALSE]
  /\ channel = [m \in Members |-> <<>>]
  /\ queue = [m \in Members |-> <<>>]
  /\ backlog = [m \in Members |-> <<>>]
  /\ last = [m \in Members |-> 0]
  /\ top = [m \in Members |-> 0]
  /\ from = [m \in Members |-> 0]
  /\ upto = [m \in Members |-> 0]
  /\ lossy = {}
  /\ breaks = 0
  /\ outages = 0

-----------------------------------------------------------------------------
(* Slip: the history may grow one event beyond its limit.                  *)
trim_late(h) == IF Len(h) > HistoryLimit + 1 THEN Tail(h) ELSE h

(* The history keeps the newest events.                                    *)
Trim(h) == IF Len(h) > HistoryLimit THEN SubSeq(h, Len(h) - HistoryLimit + 1, Len(h)) ELSE h

(* Slip: the queue drops an event one too early.                           *)
enqueue_early(q, e) == Append(IF Len(q) = QueueSize - 1 THEN Tail(q) ELSE q, e)

(* A full queue drops its oldest event.                                    *)
_enqueue_event(q, e) == Append(IF Len(q) = QueueSize THEN Tail(q) ELSE q, e)

(* Slip: the replay starts one event too late.                             *)
after_next(h, id) == IF \E i \in DOMAIN h : h[i] = id
                     THEN LET i == CHOOSE i \in DOMAIN h : h[i] = id
                          IN SubSeq(h, i + 2, Len(h))
                     ELSE <<>>

(* The events of a history after the one with the given id.                *)
After(h, id) == IF \E i \in DOMAIN h : h[i] = id
                THEN LET i == CHOOSE i \in DOMAIN h : h[i] = id IN SubSeq(h, i + 1, Len(h))
                ELSE <<>>
Holds(h, id) == \E i \in DOMAIN h : h[i] = id

(* The bus a process uses for a call: Redis unless it has fallen back; a   *)
(* call that Redis does not answer makes it fall back.                     *)
Reaches(p) == mode[p] = "redis" /\ up
FallBack(p) == mode' = IF Reaches(p) THEN mode ELSE [mode EXCEPT ![p] = "memory"]

Subscribers(b) == {m \in Members : stage[m] \in {"replaying", "live"} /\ source[m] = b}
Full(m) == Len(queue[m]) = QueueSize

(* RedisHouseholdEventBus.publish: history and channel in one transaction. *)
publish_redis(p) ==
  /\ Reaches(p)
  /\ stored' = Trim(Append(stored, published + 1))
  /\ channel' = [m \in Members |-> IF m \in Subscribers("redis") /\ pumping[m]
                                   THEN Append(channel[m], published + 1) ELSE channel[m]]
  /\ UNCHANGED <<mode, memory, queue, lossy>>

(* InMemoryHouseholdEventBus.publish, also after an error of Redis.        *)
publish_memory(p) ==
  /\ ~Reaches(p) /\ FallBack(p)
  /\ memory' = [memory EXCEPT ![p] = Trim(Append(@, published + 1))]
  /\ queue' = [m \in Members |-> IF m \in Subscribers(p)
                                 THEN _enqueue_event(queue[m], published + 1) ELSE queue[m]]
  /\ lossy' = lossy \cup {m \in Subscribers(p) : Full(m)}
  /\ UNCHANGED <<stored, channel>>

Publish(p) ==
  /\ p \in running /\ published < MaxEvents
  /\ published' = published + 1
  /\ publish_redis(p) \/ publish_memory(p)
  /\ UNCHANGED <<up, running, stage, at, source, pumping, backlog, last, top, from,
                 upto, breaks, outages>>

-----------------------------------------------------------------------------
(* Slip: the client gives up after an error.                               *)
connect_once(m, p) ==
  /\ stage[m] = "off" /\ p \in running /\ breaks = 0
  /\ stage' = [stage EXCEPT ![m] = "subscribing"]
  /\ at' = [at EXCEPT ![m] = p]
  /\ UNCHANGED <<published, server, source, pumping, channel, queue, backlog, last,
                 top, from, upto, lossy, breaks, outages>>

(* The client asks for the stream with the last id it has; some process    *)
(* serves it.                                                              *)
Connect(m, p) ==
  /\ stage[m] = "off" /\ p \in running
  /\ stage' = [stage EXCEPT ![m] = "subscribing"]
  /\ at' = [at EXCEPT ![m] = p]
  /\ UNCHANGED <<published, server, source, pumping, channel, queue, backlog, last,
                 top, from, upto, lossy, breaks, outages>>

Subscribe(m) ==
  LET p == at[m]
  IN /\ stage[m] = "subscribing"
     /\ FallBack(p)
     /\ source' = [source EXCEPT ![m] = IF Reaches(p) THEN "redis" ELSE p]
     /\ pumping' = [pumping EXCEPT ![m] = Reaches(p)]
     /\ stage' = [stage EXCEPT ![m] = IF last[m] # 0 THEN "replaying" ELSE "live"]
     /\ from' = [from EXCEPT ![m] = published]
     /\ upto' = [upto EXCEPT ![m] = published]
     /\ UNCHANGED <<published, up, stored, running, memory, at, channel, queue, backlog,
                    last, top, lossy, breaks, outages>>

History(p) == IF Reaches(p) THEN stored ELSE memory[p]

get_events_after(m) ==
  LET p == at[m]
  IN /\ stage[m] = "replaying"
     /\ FallBack(p)
     /\ backlog' = [backlog EXCEPT ![m] = After(History(p), last[m])]
     /\ lossy' = IF Holds(History(p), last[m]) THEN lossy ELSE lossy \cup {m}
     /\ upto' = [upto EXCEPT ![m] = published]
     /\ stage' = [stage EXCEPT ![m] = "live"]
     /\ UNCHANGED <<published, up, stored, running, memory, at, source, pumping,
                    channel, queue, last, top, from, breaks, outages>>

(* The pump task moves one message of the subscription to the queue.       *)
Pump(m) ==
  /\ stage[m] \in {"replaying", "live"} /\ pumping[m] /\ channel[m] # <<>>
  /\ queue' = [queue EXCEPT ![m] = _enqueue_event(@, Head(channel[m]))]
  /\ lossy' = IF Full(m) THEN lossy \cup {m} ELSE lossy
  /\ channel' = [channel EXCEPT ![m] = Tail(@)]
  /\ UNCHANGED <<published, server, stage, at, source, pumping, backlog, last, top,
                 from, upto, breaks, outages>>

Received(m, e) ==
  /\ last' = [last EXCEPT ![m] = e]
  /\ top' = [top EXCEPT ![m] = IF e > @ THEN e ELSE @]
  /\ UNCHANGED <<published, server, stage, at, source, pumping, channel, from, upto,
                 lossy, breaks, outages>>

SendReplayed(m) ==
  /\ stage[m] = "live" /\ backlog[m] # <<>>
  /\ Received(m, Head(backlog[m]))
  /\ backlog' = [backlog EXCEPT ![m] = Tail(@)]
  /\ UNCHANGED queue

SendQueued(m) ==
  /\ stage[m] = "live" /\ backlog[m] = <<>> /\ queue[m] # <<>>
  /\ Received(m, Head(queue[m]))
  /\ queue' = [queue EXCEPT ![m] = Tail(@)]
  /\ UNCHANGED backlog

(* The connection ends.  A pump that has died raises its error when the    *)
(* stream is closed, and the process falls back.                           *)
Break(m) ==
  /\ stage[m] # "off" /\ breaks < MaxBreaks
  /\ breaks' = breaks + 1
  /\ stage' = [stage EXCEPT ![m] = "off"]
  /\ mode' = IF stage[m] # "subscribing" /\ source[m] = "redis" /\ ~pumping[m]
             THEN [mode EXCEPT ![at[m]] = "memory"] ELSE mode
  /\ pumping' = [pumping EXCEPT ![m] = FALSE]
  /\ channel' = [channel EXCEPT ![m] = <<>>]
  /\ queue' = [queue EXCEPT ![m] = <<>>]
  /\ backlog' = [backlog EXCEPT ![m] = <<>>]
  /\ UNCHANGED <<published, up, stored, running, memory, at, source, last, top, from,
                 upto, lossy, outages>>

-----------------------------------------------------------------------------
(* Redis: an outage ends every subscription, and the pumps that wait for   *)
(* them, without an answer to the client; it may come back empty.  The     *)
(* history expires an hour after the last publication.                     *)
Outage ==
  /\ up /\ outages < MaxOutages
  /\ up' = FALSE
  /\ outages' = outages + 1
  /\ pumping' = [m \in Members |-> FALSE]
  /\ channel' = [m \in Members |-> <<>>]
  /\ UNCHANGED <<published, stored, running, mode, memory, stage, at, source, queue,
                 backlog, last, top, from, upto, lossy, breaks>>

Restore ==
  /\ ~up /\ up' = TRUE
  /\ stored' \in {stored, <<>>}
  /\ UNCHANGED <<published, running, mode, memory, stream, last, top, from, upto, lossy,
                 breaks, outages>>

Expire ==
  /\ stored # <<>> /\ stored' = <<>>
  /\ UNCHANGED <<published, up, running, mode, memory, stream, last, top, from, upto,
                 lossy, breaks, outages>>

Next ==
  \/ \E p \in Processes : Publish(p)
  \/ \E m \in Members :
       \/ \E p \in Processes : Connect(m, p)
       \/ Subscribe(m) \/ get_events_after(m) \/ Pump(m)
       \/ SendReplayed(m) \/ SendQueued(m) \/ Break(m)
  \/ Outage \/ Restore \/ Expire

Spec == Init /\ [][Next]_vars

(* A client reconnects until it is disposed, and the tasks of a stream are *)
(* scheduled whenever they have something to do.                           *)
FairSpec ==
  /\ Spec
  /\ \A m \in Members :
       /\ WF_vars(\E p \in Processes : Connect(m, p))
       /\ WF_vars(Subscribe(m)) /\ WF_vars(get_events_after(m)) /\ WF_vars(Pump(m))
       /\ WF_vars(SendReplayed(m)) /\ WF_vars(SendQueued(m))

-----------------------------------------------------------------------------
(* Whom something was kept from: a queue that overflowed, a place lost in  *)
(* the history, or an outage, after which processes may not share a bus.   *)
Excused == IF outages > 0 THEN Members ELSE lossy

Promise == INSTANCE EventLog WITH excused <- Excused

(* Reconnections included, members receive events one after the other and  *)
(* without a gap, unless they are excused (sse.py:24-41,                   *)
(* event_bus.py:135-204, sse_client.dart:36-82).                           *)
DeliversInOrder == Promise!Spec

Items(s) == {s[i] : i \in DOMAIN s}

(* Nothing is lost between the subscription and the replay: what a member  *)
(* who is not excused has still to receive is on its way (sse.py:24-37     *)
(* after router.py:231-240).                                               *)
NothingLostOnTheWay ==
  \A m \in Members \ Excused :
    stage[m] = "live" /\ top[m] # 0 =>
      top[m] + 1 .. published \subseteq
        Items(backlog[m]) \cup Items(queue[m]) \cup Items(channel[m])

(* A stream repeats only what was published between its subscription and   *)
(* its replay (sse.py:24-41).                                              *)
RepeatsOnlyAroundReplay ==
  \A m \in Members \ Excused :
    stage[m] = "live" =>
      \A e \in Items(queue[m]) \cup Items(channel[m]) :
        e > from[m] /\ (e <= top[m] => e <= upto[m])

(* What is on its way to a member is what the member lacks, and beyond it  *)
(* only what the subscription and the replay both caught.                  *)
ReplayIsExact == NothingLostOnTheWay /\ RepeatsOnlyAroundReplay

(* Whoever has received an event receives all later ones in the end,       *)
(* however often the connection breaks, unless they are excused            *)
(* (sse_client.dart:36-101, event_bus.py:147-167).                         *)
EventsReachReaders ==
  \A m \in Members : \A e \in Events :
    (top[m] # 0 /\ published >= e) ~> (top[m] >= e \/ m \in Excused)
=============================================================================
