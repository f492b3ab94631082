-------------------------- MODULE EventStreamProofs --------------------------
(***************************************************************************)
(* Theorems about EventStream, for every number of members, processes,     *)
(* events, breaks and outages and for queues and histories of any size:    *)
(* the types, what is on its way to a member, and that the stream keeps    *)
(* the promise of EventLog.  That events arrive in the end is a matter of  *)
(* fairness and left to the run.                                           *)
(***************************************************************************)
EXTENDS EventStream, SequenceTheorems, TLAPS

(* The inductive invariant.  Without an outage every history is a run of   *)
(* consecutive events up to the newest one, so is what a queue and the     *)
(* channel behind it hold, and what is left of a replay is one up to the   *)
(* newest event there was when it began.                                   *)
EndsAt(s, e) == \A i \in 1..Len(s) : s[i] = e - Len(s) + i
UpTo(s, e) == \A i \in 1..Len(s) : s[i] <= e

Streams(m) == stage[m] \in {"replaying", "live"}

(* How many events each stage of a stream holds, and the event before the  *)
(* ones that wait in the queue or the channel.                             *)
Held(m) == Len(channel[m])
Queued(m) == Len(queue[m])
Left(m) == Len(backlog[m])
Before(m) == published - Held(m) - Queued(m)

(* Nothing is stored, on its way or received that was not published.       *)
OnlyPublished ==
  /\ UpTo(stored, published)
  /\ \A p \in Processes : UpTo(memory[p], published)
  /\ \A m \in Members :
       /\ UpTo(channel[m], published) /\ UpTo(queue[m], published)
       /\ UpTo(backlog[m], published)
       /\ last[m] <= top[m] /\ top[m] <= published /\ (last[m] = 0 => top[m] = 0)

(* A stream that is not served holds nothing, and who serves it runs.      *)
StagesAgree ==
  \A m \in Members :
    /\ ~Streams(m) => channel[m] = <<>> /\ queue[m] = <<>>
    /\ stage[m] # "live" => backlog[m] = <<>>
    /\ stage[m] = "replaying" => last[m] # 0
    /\ stage[m] # "off" => at[m] \in running

(* Until the first outage every process uses the same bus.                 *)
OnRedis ==
  /\ mode = [p \in Processes |-> "redis"]
  /\ EndsAt(stored, published)
  /\ \A m \in Members : Streams(m) => source[m] = "redis" /\ pumping[m]

InMemory(p) ==
  /\ mode = [q \in Processes |-> "memory"] /\ running = {p}
  /\ EndsAt(memory[p], published)
  /\ \A m \in Members : channel[m] = <<>> /\ (Streams(m) => source[m] = p)

OneBus ==
  outages = 0 => up /\ (OnRedis \/ \E p \in Processes : InMemory(p))

(* What waits for a member who is not excused is a run of events up to the *)
(* newest one, that begins where the member will be when it is sent.       *)
InStep(m) ==
  /\ EndsAt(channel[m], published)
  /\ EndsAt(queue[m], published - Held(m))
  /\ from[m] <= Before(m) /\ from[m] <= upto[m]
  /\ stage[m] = "replaying" => Before(m) = from[m]
  /\ stage[m] = "live" =>
       /\ EndsAt(backlog[m], upto[m])
       /\ IF top[m] = 0 THEN from[m] = upto[m] ELSE upto[m] - Left(m) <= top[m]
       /\ from[m] < Before(m) => backlog[m] = <<>> /\ top[m] >= Before(m)
       /\ top[m] <= upto[m] \/ top[m] <= Before(m)

InOrder == \A m \in Members \ Excused : Streams(m) => InStep(m)

StreamInvariant == TypeOK /\ OnlyPublished /\ StagesAgree /\ OneBus /\ InOrder

---------------------------------------------------------------------------
(* Queues and histories.                                                   *)
LEMMA EmptyQueue == \A e : EndsAt(<<>>, e) /\ UpTo(<<>>, e)
  BY DEF EndsAt, UpTo

LEMMA AppendToRun ==
  ASSUME NEW s \in Seq(Events), NEW e \in Int, e + 1 \in Events
  PROVE  /\ Append(s, e + 1) \in Seq(Events) /\ Len(Append(s, e + 1)) = Len(s) + 1
         /\ EndsAt(s, e) => EndsAt(Append(s, e + 1), e + 1)
         /\ UpTo(s, e) => UpTo(Append(s, e + 1), e + 1)
  <1> DEFINE t == Append(s, e + 1)
  <1>1. /\ t \in Seq(Events) /\ Len(t) = Len(s) + 1 /\ t[Len(s) + 1] = e + 1
        /\ \A i \in 1..Len(s) : t[i] = s[i] /\ s[i] \in Events
    BY AppendProperties, ElementOfSeq
  <1>2. Len(s) \in Nat /\ \A i \in 1..Len(t) : i \in 1..Len(s) \/ i = Len(s) + 1
    BY <1>1, LenProperties
  <1> HIDE DEF t
  <1>3. EndsAt(s, e) => EndsAt(t, e + 1)
    BY <1>1, <1>2 DEF EndsAt
  <1>4. UpTo(s, e) => UpTo(t, e + 1)
    BY <1>1, <1>2 DEF UpTo, Events
  <1> QED
    BY <1>1, <1>3, <1>4 DEF t

LEMMA TailOfRun ==
  ASSUME NEW s \in Seq(Events), s # <<>>
  PROVE  /\ Head(s) \in Events /\ Head(s) = s[1]
         /\ Tail(s) \in Seq(Events) /\ Len(Tail(s)) = Len(s) - 1 /\ Len(s) \in Nat \ {0}
         /\ \A e \in Int : EndsAt(s, e) => EndsAt(Tail(s), e) /\ Head(s) = e - Len(s) + 1
         /\ \A e \in Int : UpTo(s, e) => UpTo(Tail(s), e) /\ Head(s) <= e
  <1>1. Head(s) = s[1] /\ Len(s) \in Nat \ {0}
    BY EmptySeq
  <1>2. /\ Head(s) \in Events /\ Tail(s) \in Seq(Events) /\ Len(Tail(s)) = Len(s) - 1
        /\ \A i \in 1..Len(Tail(s)) : Tail(s)[i] = s[i + 1]
    BY HeadTailProperties
  <1>3. \A i \in 1..Len(Tail(s)) : i + 1 \in 1..Len(s) /\ i \in Int
    BY <1>1, <1>2
  <1>4. \A e \in Int : EndsAt(s, e) => EndsAt(Tail(s), e) /\ Head(s) = e - Len(s) + 1
    BY <1>1, <1>2, <1>3 DEF EndsAt
  <1>5. \A e \in Int : UpTo(s, e) => UpTo(Tail(s), e) /\ Head(s) <= e
    BY <1>1, <1>2, <1>3 DEF UpTo
  <1> QED
    BY <1>1, <1>2, <1>4, <1>5

(* A queue takes an event, its oldest one leaves when it is full.          *)
LEMMA EnqueueInRun ==
  ASSUME NEW s \in Seq(Events), NEW e \in Events, Len(s) <= QueueSize
  PROVE  /\ _enqueue_event(s, e) \in Seq(Events) /\ Len(_enqueue_event(s, e)) <= QueueSize
         /\ \A k \in Int : UpTo(s, k) /\ e <= k => UpTo(_enqueue_event(s, e), k)
         /\ Len(s) # QueueSize /\ EndsAt(s, e - 1) =>
              EndsAt(_enqueue_event(s, e), e) /\ Len(_enqueue_event(s, e)) = Len(s) + 1
  <1> DEFINE r == IF Len(s) = QueueSize THEN Tail(s) ELSE s
             t == Append(r, e)
  <1>1. Len(s) \in Nat /\ QueueSize \in Nat \ {0}
    BY LenProperties, EventStreamAssumption
  <1>2. r \in Seq(Events) /\ Len(r) < QueueSize /\ \A k \in Int : UpTo(s, k) => UpTo(r, k)
    BY <1>1, TailOfRun, EmptySeq
  <1> HIDE DEF r
  <1>3. t \in Seq(Events) /\ Len(t) = Len(r) + 1 /\ Len(r) \in Nat
    BY <1>2, AppendProperties, LenProperties
  <1>4. ASSUME NEW k \in Int, UpTo(s, k), e <= k PROVE UpTo(t, k)
    <2>1. /\ t[Len(r) + 1] = e /\ \A i \in 1..Len(r) : t[i] = r[i]
      BY <1>2, AppendProperties
    <2>2. \A i \in 1..Len(t) : i \in 1..Len(r) \/ i = Len(r) + 1
      BY <1>3
    <2> QED
      BY <1>2, <1>4, <2>1, <2>2 DEF UpTo
  <1>5. ASSUME Len(s) # QueueSize, EndsAt(s, e - 1)
        PROVE  EndsAt(t, e) /\ Len(t) = Len(s) + 1
    <2>1. e - 1 \in Int /\ e - 1 + 1 = e
      BY DEF Events
    <2>2. r = s
      BY <1>5 DEF r
    <2> QED
      BY <1>5, <2>1, <2>2, AppendToRun
  <1> QED
    BY <1>1, <1>2, <1>3, <1>4, <1>5 DEF t, r, _enqueue_event

(* The newest events of a run are a run, and so is what follows one.       *)
LEMMA TrimToRun ==
  ASSUME NEW s \in Seq(Events)
  PROVE  /\ Trim(s) \in Seq(Events) /\ Len(Trim(s)) <= HistoryLimit
         /\ \A e \in Int : EndsAt(s, e) => EndsAt(Trim(s), e)
         /\ \A e \in Int : UpTo(s, e) => UpTo(Trim(s), e)
  <1>1. Len(s) \in Nat /\ HistoryLimit \in Nat \ {0}
    BY LenProperties, EventStreamAssumption
  <1>2. CASE Len(s) <= HistoryLimit
    BY <1>1, <1>2 DEF Trim
  <1>3. CASE Len(s) > HistoryLimit
    <2> DEFINE k == Len(s) - HistoryLimit
               t == SubSeq(s, k + 1, Len(s))
    <2>1. k \in Nat /\ Len(s) - k = HistoryLimit
      BY <1>1, <1>3
    <2>2. \A i \in k + 1 .. Len(s) : s[i] \in Events
      BY <2>1, ElementOfSeq
    <2>3. /\ t \in Seq(Events) /\ Len(t) = HistoryLimit
          /\ \A i \in 1..HistoryLimit : t[i] = s[k + i]
      BY <1>1, <2>1, <2>2, SubSeqProperties
    <2>4. \A i \in 1..HistoryLimit : k + i \in 1..Len(s)
      BY <1>1, <2>1
    <2>5. Trim(s) = t
      BY <1>3 DEF Trim
    <2> HIDE DEF t, k
    <2>6. ASSUME NEW e \in Int, EndsAt(s, e) PROVE EndsAt(t, e)
      <3>1. \A i \in 1..HistoryLimit : s[k + i] = e - Len(s) + (k + i)
        BY <2>4, <2>6 DEF EndsAt
      <3>2. \A i \in 1..HistoryLimit : e - Len(s) + (k + i) = e - HistoryLimit + i
        BY <1>1, <2>1
      <3> QED
        BY <2>3, <3>1, <3>2 DEF EndsAt
    <2>7. \A e \in Int : UpTo(s, e) => UpTo(t, e)
      BY <1>1, <2>1, <2>3, <2>4 DEF UpTo
    <2> QED
      BY <1>1, <2>3, <2>5, <2>6, <2>7
  <1> QED
    BY <1>1, <1>2, <1>3

LEMMA AfterInRun ==
  ASSUME NEW s \in Seq(Events), NEW id \in Events
  PROVE  /\ After(s, id) \in Seq(Events)
         /\ \A e \in Int : UpTo(s, e) => UpTo(After(s, id), e)
         /\ \A e \in Int : EndsAt(s, e) /\ Holds(s, id) =>
              EndsAt(After(s, id), e) /\ Len(After(s, id)) = e - id
  <1>1. DOMAIN s = 1..Len(s) /\ Len(s) \in Nat
    BY LenProperties
  <1>2. CASE ~Holds(s, id)
    <2>1. After(s, id) = <<>>
      BY <1>2 DEF Holds, After
    <2> QED
      BY <1>2, <2>1, EmptyQueue, EmptySeq
  <1>3. CASE Holds(s, id)
    <2> DEFINE n == CHOOSE i \in DOMAIN s : s[i] = id
               t == SubSeq(s, n + 1, Len(s))
    <2>1. n \in 1..Len(s) /\ s[n] = id
      BY <1>1, <1>3 DEF Holds
    <2>2. After(s, id) = t
      BY <1>3 DEF After, Holds
    <2> HIDE DEF n
    <2>3. \A i \in n + 1 .. Len(s) : s[i] \in Events
      BY <1>1, <2>1, ElementOfSeq
    <2>4. /\ t \in Seq(Events)
          /\ Len(t) = IF n + 1 <= Len(s) THEN Len(s) - (n + 1) + 1 ELSE 0
          /\ \A i \in 1..Len(s) - (n + 1) + 1 : t[i] = s[n + 1 + i - 1]
      BY <1>1, <2>1, <2>3, SubSeqProperties
    <2> HIDE DEF t
    <2>5. Len(t) = Len(s) - n /\ n \in Int
      <3>1. Len(s) \in Nat /\ n \in 1..Len(s)
        BY <1>1, <2>1
      <3>2. Len(t) = IF n + 1 <= Len(s) THEN Len(s) - (n + 1) + 1 ELSE 0
        BY <2>4
      <3> DEFINE k == Len(s)
                 l == Len(t)
      <3>3. k \in Nat /\ n \in 1..k /\ l = IF n + 1 <= k THEN k - (n + 1) + 1 ELSE 0
        BY <3>1, <3>2
      <3> HIDE DEF k, l
      <3>4. l = k - n /\ n \in Int
        BY <3>3
      <3> QED
        BY <3>4 DEF k, l
    <2>6. ASSUME NEW i \in 1..Len(t) PROVE t[i] = s[n + i] /\ n + i \in 1..Len(s)
      <3>1. i \in 1..Len(s) - (n + 1) + 1 /\ n + 1 + i - 1 = n + i /\ n + i \in 1..Len(s)
        BY <1>1, <2>1, <2>5
      <3> QED
        BY <2>4, <3>1
    <2>7. \A e \in Int : EndsAt(s, e) => EndsAt(t, e) /\ Len(t) = e - id
      BY <1>1, <2>1, <2>5, <2>6 DEF EndsAt
    <2>8. \A e \in Int : UpTo(s, e) => UpTo(t, e)
      BY <1>1, <2>5, <2>6 DEF UpTo
    <2> QED
      BY <2>2, <2>4, <2>7, <2>8
  <1> QED
    BY <1>2, <1>3

---------------------------------------------------------------------------
(* The first state.                                                        *)
LEMMA InvariantInit == Init => StreamInvariant
  <1> SUFFICES ASSUME Init PROVE StreamInvariant
    OBVIOUS
  <1> USE EventStreamAssumption DEF Init
  <1>1. <<>> \in Seq(Events) /\ Len(<<>>) = 0
    BY EmptySeq
  <1>2. (CHOOSE p \in Processes : TRUE) \in Processes
    OBVIOUS
  <1>3. TypeOK
    BY <1>1, <1>2 DEF TypeOK, Buses
  <1>4. OnlyPublished /\ StagesAgree
    BY EmptyQueue DEF OnlyPublished, StagesAgree, Streams
  <1>5. OneBus
    BY EmptyQueue DEF OneBus, OnRedis, InMemory, Streams
  <1>6. InOrder
    BY DEF InOrder, Streams
  <1> QED
    BY <1>3, <1>4, <1>5, <1>6 DEF StreamInvariant

---------------------------------------------------------------------------
(* Types, one step per action.                                             *)
LEMMA TypeStep == TypeOK /\ StagesAgree /\ [Next]_vars => TypeOK'
  <1> SUFFICES ASSUME TypeOK, StagesAgree, [Next]_vars PROVE TypeOK'
    OBVIOUS
  <1> USE DEF TypeOK, Buses
  <1>0. published \in Nat /\ (published < MaxEvents => published + 1 \in Events)
    BY EventStreamAssumption DEF Events
  <1>1. ASSUME NEW p \in Processes, Publish(p) PROVE TypeOK'
    <2>1. published + 1 \in Events /\ published' = published + 1 /\ published' \in 0..MaxEvents
      BY <1>0, <1>1, EventStreamAssumption DEF Publish
    <2>2. \A s \in Seq(Events) : Append(s, published + 1) \in Seq(Events)
      BY <2>1, AppendProperties
    <2>3. \A s \in Seq(Events) :
            /\ Trim(Append(s, published + 1)) \in Seq(Events)
            /\ Len(Trim(Append(s, published + 1))) <= HistoryLimit
      BY <2>2, TrimToRun
    <2>4. \A s \in Seq(Events) : Len(s) <= QueueSize =>
            /\ _enqueue_event(s, published + 1) \in Seq(Events)
            /\ Len(_enqueue_event(s, published + 1)) <= QueueSize
      BY <2>1, EnqueueInRun
    <2>5. CASE publish_redis(p)
      BY <1>1, <2>1, <2>2, <2>3, <2>5 DEF Publish, publish_redis
    <2>6. CASE publish_memory(p)
      <3>1. memory' \in [Processes -> Seq(Events)]
            /\ \A q \in Processes : Len(memory'[q]) <= HistoryLimit
        BY <2>3, <2>6 DEF publish_memory
      <3>2. queue' \in [Members -> Seq(Events)] /\ \A m \in Members : Len(queue'[m]) <= QueueSize
        BY <2>4, <2>6 DEF publish_memory
      <3>3. mode' \in [Processes -> {"redis", "memory"}] /\ lossy' \subseteq Members
        BY <2>6 DEF publish_memory, FallBack, Subscribers
      <3> QED
        BY <1>1, <2>1, <2>6, <3>1, <3>2, <3>3 DEF Publish, publish_memory
    <2> QED
      BY <1>1, <2>5, <2>6 DEF Publish
  <1>2. ASSUME NEW m \in Members, NEW p \in Processes, Connect(m, p) PROVE TypeOK'
    BY <1>2 DEF Connect, server
  <1>3. ASSUME NEW m \in Members, Subscribe(m) PROVE TypeOK'
    BY <1>3 DEF Subscribe, FallBack, Reaches
  <1>4. ASSUME NEW m \in Members, get_events_after(m) PROVE TypeOK'
    <2>1. last[m] \in Events
      BY <1>4, EventStreamAssumption, SMTT(30) DEF get_events_after, StagesAgree, Events
    <2>2. History(at[m]) \in Seq(Events)
      BY DEF History
    <2>3. After(History(at[m]), last[m]) \in Seq(Events)
      BY <2>1, <2>2, AfterInRun
    <2> QED
      BY <1>4, <2>3 DEF get_events_after, FallBack
  <1>5. ASSUME NEW m \in Members, Pump(m) PROVE TypeOK'
    <2>1. Head(channel[m]) \in Events /\ Tail(channel[m]) \in Seq(Events)
      BY <1>5, TailOfRun DEF Pump
    <2>2. /\ _enqueue_event(queue[m], Head(channel[m])) \in Seq(Events)
          /\ Len(_enqueue_event(queue[m], Head(channel[m]))) <= QueueSize
      BY <2>1, EnqueueInRun
    <2> QED
      BY <1>5, <2>1, <2>2 DEF Pump, server
  <1>6. ASSUME NEW m \in Members, SendReplayed(m) PROVE TypeOK'
    <2>1. Head(backlog[m]) \in Events /\ Tail(backlog[m]) \in Seq(Events)
      BY <1>6, TailOfRun DEF SendReplayed
    <2>2. Events \subseteq 0..MaxEvents
      BY DEF Events
    <2> QED
      BY <1>6, <2>1, <2>2 DEF SendReplayed, Received, server
  <1>7. ASSUME NEW m \in Members, SendQueued(m) PROVE TypeOK'
    <2>1. /\ Head(queue[m]) \in Events /\ Tail(queue[m]) \in Seq(Events)
          /\ Len(Tail(queue[m])) = Len(queue[m]) - 1 /\ Len(queue[m]) \in Nat
      BY <1>7, TailOfRun DEF SendQueued
    <2>2. Events \subseteq 0..MaxEvents /\ Len(Tail(queue[m])) <= QueueSize
      BY <2>1, EventStreamAssumption, SMTT(30) DEF Events
    <2> QED
      BY <1>7, <2>1, <2>2 DEF SendQueued, Received, server
  <1>8. ASSUME NEW m \in Members, Break(m) PROVE TypeOK'
    <2>1. <<>> \in Seq(Events) /\ Len(<<>>) <= QueueSize
      BY EmptySeq, EventStreamAssumption
    <2>2. breaks' \in 0..MaxBreaks
      BY <1>8, EventStreamAssumption DEF Break
    <2> QED
      BY <1>8, <2>1, <2>2 DEF Break
  <1>9. CASE Outage
    <2>1. <<>> \in Seq(Events)
      BY EmptySeq
    <2>2. outages' \in 0..MaxOutages
      BY <1>9, EventStreamAssumption DEF Outage
    <2> QED
      BY <1>9, <2>1, <2>2 DEF Outage
  <1>10. CASE Restore \/ Expire
    <2>1. <<>> \in Seq(Events) /\ Len(<<>>) <= HistoryLimit
      BY EmptySeq, EventStreamAssumption
    <2> QED
      BY <1>10, <2>1 DEF Restore, Expire, stream
  <1>11. CASE UNCHANGED vars
    BY <1>11 DEF vars, server, stream
  <1> QED
    BY <1>1, <1>2, <1>3, <1>4, <1>5, <1>6, <1>7, <1>8, <1>9, <1>10, <1>11 DEF Next

---------------------------------------------------------------------------
(* Nothing comes to a member that was not published.                       *)
LEMMA UpToLater ==
  ASSUME NEW s \in Seq(Events), NEW e \in Int, NEW k \in Int, e <= k, UpTo(s, e)
  PROVE  UpTo(s, k)
  <1> SUFFICES ASSUME NEW i \in 1..Len(s) PROVE s[i] <= k
    BY DEF UpTo
  <1>1. s[i] \in Events
    BY ElementOfSeq
  <1>2. s[i] <= e
    BY DEF UpTo
  <1> QED
    BY <1>1, <1>2 DEF Events

LEMMA ReceivedIsPublished ==
  ASSUME TypeOK, OnlyPublished, NEW m \in Members, NEW e \in Events, e <= published, Received(m, e)
  PROVE  \A n \in Members :
           last'[n] <= top'[n] /\ top'[n] <= published /\ (last'[n] = 0 => top'[n] = 0)
  BY DEF Received, OnlyPublished, TypeOK, Events

LEMMA OnlyPublishedStep ==
  TypeOK /\ OnlyPublished /\ StagesAgree /\ [Next]_vars => OnlyPublished'
  <1> SUFFICES ASSUME TypeOK, OnlyPublished, StagesAgree, [Next]_vars PROVE OnlyPublished'
    OBVIOUS
  <1>0. /\ stored \in Seq(Events) /\ \A p \in Processes : memory[p] \in Seq(Events)
        /\ published \in 0..MaxEvents /\ published \in Int
        /\ \A m \in Members :
             /\ channel[m] \in Seq(Events) /\ backlog[m] \in Seq(Events)
             /\ queue[m] \in Seq(Events) /\ Len(queue[m]) <= QueueSize
             /\ last[m] \in 0..MaxEvents /\ top[m] \in 0..MaxEvents
    BY DEF TypeOK
  <1>1. ASSUME NEW p \in Processes, Publish(p) PROVE OnlyPublished'
    <2> DEFINE e == published + 1
    <2>1. published' = e /\ e \in Events /\ e \in Int /\ published <= e
      BY <1>0, <1>1, EventStreamAssumption DEF Publish, Events
    <2>2. \A s \in Seq(Events) : UpTo(s, published) => UpTo(s, e)
      BY <1>0, <2>1, UpToLater
    <2>3. \A s \in Seq(Events) : UpTo(s, published) =>
             UpTo(Append(s, e), e) /\ UpTo(Trim(Append(s, e)), e)
      BY <1>0, <2>1, AppendToRun, TrimToRun
    <2>4. \A s \in Seq(Events) : Len(s) <= QueueSize /\ UpTo(s, published) =>
             UpTo(_enqueue_event(s, e), e)
      BY <2>1, <2>2, EnqueueInRun
    <2>5. \A m \in Members : UpTo(backlog[m], e) /\ last[m] <= top[m] /\ top[m] <= e
      BY <1>0, <2>1, <2>2 DEF OnlyPublished
    <2>6. UNCHANGED <<backlog, last, top>>
      BY <1>1 DEF Publish
    <2> HIDE DEF e
    <2>7. CASE publish_redis(p)
      <3>1. UpTo(stored', e)
        BY <1>0, <2>3, <2>7 DEF publish_redis, OnlyPublished, e
      <3>2. \A m \in Members : UpTo(channel'[m], e)
        BY <1>0, <2>2, <2>3, <2>7 DEF publish_redis, OnlyPublished, e
      <3>3. UNCHANGED <<memory, queue>>
        BY <2>7 DEF publish_redis
      <3> QED
        BY <1>0, <2>1, <2>2, <2>5, <2>6, <3>1, <3>2, <3>3 DEF OnlyPublished
    <2>8. CASE publish_memory(p)
      <3>1. \A q \in Processes : UpTo(memory'[q], e)
        BY <1>0, <2>2, <2>3, <2>8 DEF publish_memory, OnlyPublished, e, TypeOK
      <3>2. \A m \in Members : UpTo(queue'[m], e)
        BY <1>0, <2>2, <2>4, <2>8 DEF publish_memory, OnlyPublished, e
      <3>3. UNCHANGED <<stored, channel>>
        BY <2>8 DEF publish_memory
      <3> QED
        BY <1>0, <2>1, <2>2, <2>5, <2>6, <3>1, <3>2, <3>3 DEF OnlyPublished
    <2> QED
      BY <1>1, <2>7, <2>8 DEF Publish
  <1>2. ASSUME NEW m \in Members, NEW p \in Processes, Connect(m, p) PROVE OnlyPublished'
    BY <1>2 DEF Connect, server, OnlyPublished
  <1>3. ASSUME NEW m \in Members, Subscribe(m) PROVE OnlyPublished'
    BY <1>3 DEF Subscribe, OnlyPublished
  <1>4. ASSUME NEW m \in Members, get_events_after(m) PROVE OnlyPublished'
    <2>1. last[m] \in Events
      BY <1>0, <1>4, EventStreamAssumption DEF get_events_after, StagesAgree, Events
    <2>2. History(at[m]) \in Seq(Events) /\ UpTo(History(at[m]), published)
      BY <1>0 DEF History, OnlyPublished, TypeOK
    <2>3. UpTo(After(History(at[m]), last[m]), published)
      BY <1>0, <2>1, <2>2, AfterInRun
    <2> QED
      BY <1>4, <2>3 DEF get_events_after, OnlyPublished, TypeOK
  <1>5. ASSUME NEW m \in Members, Pump(m) PROVE OnlyPublished'
    <2>1. /\ Head(channel[m]) \in Events /\ Head(channel[m]) <= published
          /\ UpTo(Tail(channel[m]), published)
      BY <1>0, <1>5, TailOfRun DEF Pump, OnlyPublished
    <2>2. UpTo(_enqueue_event(queue[m], Head(channel[m])), published)
      BY <1>0, <2>1, EnqueueInRun DEF OnlyPublished
    <2> QED
      BY <1>5, <2>1, <2>2 DEF Pump, server, OnlyPublished, TypeOK
  <1>6. ASSUME NEW m \in Members, SendReplayed(m) PROVE OnlyPublished'
    <2>1. /\ Head(backlog[m]) \in Events /\ Head(backlog[m]) <= published
          /\ UpTo(Tail(backlog[m]), published)
      BY <1>0, <1>6, TailOfRun DEF SendReplayed, OnlyPublished
    <2>2. \A n \in Members :
            last'[n] <= top'[n] /\ top'[n] <= published /\ (last'[n] = 0 => top'[n] = 0)
      BY <1>6, <2>1, ReceivedIsPublished DEF SendReplayed
    <2> QED
      BY <1>6, <2>1, <2>2 DEF SendReplayed, Received, server, OnlyPublished, TypeOK
  <1>7. ASSUME NEW m \in Members, SendQueued(m) PROVE OnlyPublished'
    <2>1. /\ Head(queue[m]) \in Events /\ Head(queue[m]) <= published
          /\ UpTo(Tail(queue[m]), published)
      BY <1>0, <1>7, TailOfRun DEF SendQueued, OnlyPublished
    <2>2. \A n \in Members :
            last'[n] <= top'[n] /\ top'[n] <= published /\ (last'[n] = 0 => top'[n] = 0)
      BY <1>7, <2>1, ReceivedIsPublished DEF SendQueued
    <2> QED
      BY <1>7, <2>1, <2>2 DEF SendQueued, Received, server, OnlyPublished, TypeOK
  <1>8. ASSUME NEW m \in Members, Break(m) PROVE OnlyPublished'
    BY <1>8, EmptyQueue DEF Break, OnlyPublished, TypeOK
  <1>9. CASE Outage
    BY <1>9, EmptyQueue DEF Outage, OnlyPublished
  <1>10. CASE Restore \/ Expire
    BY <1>10, EmptyQueue DEF Restore, Expire, stream, OnlyPublished
  <1>11. CASE UNCHANGED vars
    BY <1>11 DEF vars, server, stream, OnlyPublished
  <1> QED
    BY <1>1, <1>2, <1>3, <1>4, <1>5, <1>6, <1>7, <1>8, <1>9, <1>10, <1>11 DEF Next

---------------------------------------------------------------------------
(* Only a stream that is served holds anything.                            *)
LEMMA StagesStep == TypeOK /\ OnlyPublished /\ StagesAgree /\ [Next]_vars => StagesAgree'
  <1> SUFFICES ASSUME TypeOK, OnlyPublished, StagesAgree, [Next]_vars PROVE StagesAgree'
    OBVIOUS
  <1> USE DEF StagesAgree, Streams, TypeOK
  <1>1. ASSUME NEW p \in Processes, Publish(p) PROVE StagesAgree'
    BY <1>1 DEF Publish, publish_redis, publish_memory, Subscribers
  <1>2. ASSUME NEW m \in Members, NEW p \in Processes, Connect(m, p) PROVE StagesAgree'
    BY <1>2 DEF Connect, server
  <1>3. ASSUME NEW m \in Members, Subscribe(m) PROVE StagesAgree'
    BY <1>3 DEF Subscribe
  <1>4. ASSUME NEW m \in Members, get_events_after(m) PROVE StagesAgree'
    BY <1>4 DEF get_events_after
  <1>5. ASSUME NEW m \in Members, Pump(m) PROVE StagesAgree'
    BY <1>5 DEF Pump, server
  <1>6. ASSUME NEW m \in Members, SendReplayed(m) PROVE StagesAgree'
    BY <1>6, EmptySeq DEF SendReplayed, Received, server
  <1>7. ASSUME NEW m \in Members, SendQueued(m) PROVE StagesAgree'
    BY <1>7 DEF SendQueued, Received, server
  <1>8. ASSUME NEW m \in Members, Break(m) PROVE StagesAgree'
    BY <1>8 DEF Break
  <1>9. CASE Outage
    BY <1>9 DEF Outage
  <1>10. CASE Restore \/ Expire
    BY <1>10 DEF Restore, Expire, stream
  <1>11. CASE UNCHANGED vars
    BY <1>11 DEF vars, server, stream
  <1> QED
    BY <1>1, <1>2, <1>3, <1>4, <1>5, <1>6, <1>7, <1>8, <1>9, <1>10, <1>11 DEF Next

---------------------------------------------------------------------------
(* Without an outage every process stays on the bus it began with, and its *)
(* history is up to date or expired.                                       *)
LEMMA OneBusStep == TypeOK /\ StagesAgree /\ OneBus /\ [Next]_vars => OneBus'
  <1> SUFFICES ASSUME TypeOK, StagesAgree, OneBus, [Next]_vars, outages' = 0
               PROVE  up' /\ (OnRedis' \/ \E p \in Processes : InMemory(p)')
    BY DEF OneBus
  <1> USE DEF TypeOK, Streams
  <1>0. outages = 0 /\ up /\ (OnRedis \/ \E p \in Processes : InMemory(p))
    <2>1. outages' = outages \/ outages' = outages + 1
      BY DEF Next, vars, server, stream, Publish, Connect, Subscribe, get_events_after, Pump,
             SendReplayed, SendQueued, Received, Break, Outage, Restore, Expire
    <2> QED
      BY <2>1 DEF OneBus
  <1> DEFINE Kept == /\ UNCHANGED <<published, up, stored, running, mode, memory>>
                     /\ \A m \in Members : /\ channel[m] = <<>> => channel'[m] = <<>>
                                           /\ stage'[m] \in {"replaying", "live"} =>
                                                /\ stage[m] \in {"replaying", "live"}
                                                /\ source'[m] = source[m]
                                                /\ pumping'[m] = pumping[m]
  <1>a. ASSUME Kept PROVE up' /\ (OnRedis' \/ \E q \in Processes : InMemory(q)')
    <2> HIDE DEF TypeOK, Streams
    <2>0. /\ published' = published /\ up' = up /\ stored' = stored
          /\ running' = running /\ mode' = mode /\ memory' = memory
      BY <1>a
    <2>a. \A m \in Members : /\ channel[m] = <<>> => channel'[m] = <<>>
                             /\ Streams(m)' => /\ Streams(m)
                                               /\ source'[m] = source[m]
                                               /\ pumping'[m] = pumping[m]
      BY <1>a DEF Streams
    <2> HIDE DEF Kept
    <2>1. CASE OnRedis
      <3>1. EndsAt(stored, published)'
        BY <2>0, <2>1 DEF OnRedis
      <3>2. OnRedis'
        BY <2>0, <2>a, <2>1, <3>1 DEF OnRedis
      <3> QED
        BY <1>0, <2>0, <3>2
    <2>2. ASSUME NEW q \in Processes, InMemory(q) PROVE InMemory(q)'
      <3>1. EndsAt(memory[q], published)'
        BY <2>0, <2>2 DEF InMemory
      <3> QED
        BY <2>0, <2>a, <2>2, <3>1 DEF InMemory
    <2> QED
      BY <1>0, <2>0, <2>1, <2>2
  <1>b. mode = [p \in Processes |-> "redis"] \/ mode = [p \in Processes |-> "memory"]
    BY <1>0 DEF OnRedis, InMemory
  <1>1. ASSUME NEW p \in Processes, Publish(p) PROVE up' /\ (OnRedis' \/ \E q \in Processes : InMemory(q)')
    <2>1. /\ published \in Int /\ published + 1 \in Events
          /\ published' = published + 1 /\ published' \in Int
      BY <1>1, EventStreamAssumption DEF Publish, Events
    <2>2. ASSUME NEW s \in Seq(Events), EndsAt(s, published)
          PROVE  EndsAt(Trim(Append(s, published + 1)), published')
      <3>1. /\ Append(s, published + 1) \in Seq(Events)
            /\ EndsAt(Append(s, published + 1), published')
        BY <2>1, <2>2, AppendToRun
      <3> QED
        BY <2>1, <3>1, TrimToRun
    <2>3. CASE OnRedis
      <3>1. Reaches(p)
        BY <1>0, <2>3 DEF OnRedis, Reaches
      <3>2. publish_redis(p)
        BY <1>1, <3>1 DEF Publish, publish_memory
      <3> QED
        BY <1>0, <1>1, <2>2, <2>3, <3>2 DEF OnRedis, Publish, publish_redis
    <2>4. ASSUME NEW q \in Processes, InMemory(q) PROVE up' /\ InMemory(q)'
      <3>1. p = q /\ ~Reaches(p)
        BY <1>1, <2>4 DEF InMemory, Publish, Reaches
      <3>2. publish_memory(p)
        BY <1>1, <3>1 DEF Publish, publish_redis
      <3>3. mode' = mode
        BY <2>4, <3>1, <3>2 DEF publish_memory, FallBack, InMemory
      <3>4. EndsAt(memory'[q], published')
        BY <2>2, <2>4, <3>1, <3>2 DEF publish_memory, InMemory
      <3> QED
        BY <1>0, <1>1, <2>4, <3>2, <3>3, <3>4 DEF InMemory, Publish, publish_memory
    <2> QED
      BY <1>0, <2>3, <2>4
  <1>2. ASSUME NEW m \in Members, NEW p \in Processes, Connect(m, p)
        PROVE  up' /\ (OnRedis' \/ \E q \in Processes : InMemory(q)')
    <2>1. Kept
      BY <1>2 DEF Connect, server
    <2> HIDE DEF Kept
    <2> QED
      BY <1>a, <2>1
  <1>3. ASSUME NEW m \in Members, Subscribe(m)
        PROVE  up' /\ (OnRedis' \/ \E q \in Processes : InMemory(q)')
    <2>1. CASE OnRedis
      <3>1. Reaches(at[m])
        BY <1>0, <2>1 DEF OnRedis, Reaches
      <3> QED
        BY <1>0, <1>3, <2>1, <3>1 DEF Subscribe, FallBack, OnRedis
    <2>2. ASSUME NEW p \in Processes, InMemory(p) PROVE up' /\ InMemory(p)'
      <3>1. at[m] = p /\ ~Reaches(p)
        BY <1>3, <2>2 DEF InMemory, Subscribe, Reaches, StagesAgree
      <3>2. mode' = mode
        BY <1>3, <2>2, <3>1 DEF Subscribe, FallBack, InMemory
      <3> QED
        BY <1>0, <1>3, <2>2, <3>1, <3>2 DEF Subscribe, InMemory
    <2> QED
      BY <1>0, <2>1, <2>2
  <1>4. ASSUME NEW m \in Members, get_events_after(m)
        PROVE  up' /\ (OnRedis' \/ \E q \in Processes : InMemory(q)')
    <2>1. mode' = mode
      BY <1>0, <1>b, <1>4 DEF get_events_after, FallBack, Reaches
    <2>2. Kept
      BY <1>4, <2>1 DEF get_events_after
    <2> HIDE DEF Kept
    <2> QED
      BY <1>a, <2>2
  <1>5. ASSUME NEW m \in Members, Pump(m)
        PROVE  up' /\ (OnRedis' \/ \E q \in Processes : InMemory(q)')
    <2>1. OnRedis
      BY <1>0, <1>5 DEF Pump, InMemory
    <2> QED
      BY <1>0, <1>5, <2>1 DEF Pump, server, OnRedis
  <1>6. ASSUME NEW m \in Members, SendReplayed(m) \/ SendQueued(m)
        PROVE  up' /\ (OnRedis' \/ \E q \in Processes : InMemory(q)')
    <2>1. UNCHANGED <<published, up, stored, running, mode, memory, stage, source, pumping, channel>>
      BY <1>6 DEF SendReplayed, SendQueued, Received, server
    <2>2. Kept
      BY <2>1
    <2> HIDE DEF Kept
    <2> QED
      BY <1>a, <2>2
  <1>7. ASSUME NEW m \in Members, Break(m)
        PROVE  up' /\ (OnRedis' \/ \E q \in Processes : InMemory(q)')
    <2>1. mode' = mode
      BY <1>0, <1>7, EventStreamAssumption DEF Break, OnRedis, InMemory
    <2>2. Kept
      BY <1>7, <2>1 DEF Break
    <2> HIDE DEF Kept
    <2> QED
      BY <1>a, <2>2
  <1>8. ~Outage /\ ~Restore
    BY <1>0 DEF Outage, Restore
  <1>9. CASE Expire
    BY <1>0, <1>9, EmptyQueue DEF Expire, stream, OnRedis, InMemory
  <1>10. CASE UNCHANGED vars
    BY <1>0, <1>10 DEF vars, server, stream, OnRedis, InMemory
  <1> QED
    BY <1>1, <1>2, <1>3, <1>4, <1>5, <1>6, <1>7, <1>8, <1>9, <1>10 DEF Next

---------------------------------------------------------------------------
(* What waits for a member begins where it will be, one step per action.   *)
LEMMA StepTypes ==
  ASSUME TypeOK, NEW m \in Members
  PROVE  /\ published \in Int /\ from[m] \in Int /\ upto[m] \in Int /\ top[m] \in Nat /\ last[m] \in Nat
         /\ channel[m] \in Seq(Events) /\ queue[m] \in Seq(Events) /\ backlog[m] \in Seq(Events)
         /\ Held(m) \in Nat /\ Queued(m) \in Nat /\ Left(m) \in Nat
         /\ Queued(m) <= QueueSize /\ Before(m) \in Int
  <1>1. /\ published \in Int /\ from[m] \in Int /\ upto[m] \in Int /\ top[m] \in Nat /\ last[m] \in Nat
        /\ channel[m] \in Seq(Events) /\ queue[m] \in Seq(Events) /\ backlog[m] \in Seq(Events)
        /\ Queued(m) <= QueueSize
    BY DEF TypeOK, Queued
  <1>2. Held(m) \in Nat /\ Queued(m) \in Nat /\ Left(m) \in Nat
    BY <1>1, LenProperties DEF Held, Queued, Left
  <1> QED
    BY <1>1, <1>2 DEF Before

LEMMA StepFrame ==
  ASSUME NEW m \in Members, InStep(m), published' = published, stage'[m] = stage[m],
         channel'[m] = channel[m], queue'[m] = queue[m], backlog'[m] = backlog[m],
         from'[m] = from[m], upto'[m] = upto[m], top'[m] = top[m]
  PROVE  InStep(m)'
  BY DEF InStep, Before, Held, Queued, Left

LEMMA InOrderPublish ==
  ASSUME TypeOK, OneBus, NEW m \in Members, NEW p \in Processes, Publish(p),
         InStep(m), Streams(m), m \notin Excused'
  PROVE  InStep(m)'
  <1> DEFINE e == published + 1
  <1>0. outages = 0 /\ m \notin lossy'
    BY DEF Excused, Publish, TypeOK
  <1>1. published' = e /\ e \in Events /\ e - 1 = published /\ e \in Int
    BY EventStreamAssumption DEF Publish, TypeOK, Events
  <1>2. UNCHANGED <<stage, backlog, from, upto, top>> /\ Left(m)' = Left(m)
    BY DEF Publish, Left
  <1> DEFINE Goal == /\ EndsAt(channel'[m], e) /\ EndsAt(queue'[m], e - Held(m)')
                     /\ e - Held(m)' - Queued(m)' = Before(m)
  <1> USE DEF Before
  <1>3. Goal
    <2>1. CASE OnRedis
      <3>1. Reaches(p)
        BY <1>0, <2>1 DEF OnRedis, Reaches, OneBus
      <3>2. publish_redis(p)
        BY <3>1 DEF Publish, publish_memory
      <3>3. channel'[m] = Append(channel[m], e) /\ queue' = queue
        BY <2>1, <3>2 DEF publish_redis, OnRedis, Subscribers, Streams
      <3>4. Held(m)' = Held(m) + 1 /\ EndsAt(channel'[m], e) /\ Queued(m)' = Queued(m)
        BY <1>1, <3>3, StepTypes, AppendToRun DEF InStep, Held, Queued
      <3>5. e - Held(m)' = published - Held(m) /\ e - Held(m)' - Queued(m)' = Before(m)
        BY <1>1, <3>4, StepTypes
      <3> QED
        BY <3>3, <3>4, <3>5 DEF InStep
    <2>2. ASSUME NEW q \in Processes, InMemory(q) PROVE Goal
      <3>1. p = q /\ ~Reaches(p)
        BY <2>2 DEF InMemory, Publish, Reaches
      <3>2. publish_memory(p)
        BY <3>1 DEF Publish, publish_redis
      <3>3. m \in Subscribers(p) /\ Queued(m) # QueueSize
        BY <1>0, <2>2, <3>1, <3>2 DEF Subscribers, Streams, InMemory, publish_memory, Full, Queued
      <3>4. queue'[m] = _enqueue_event(queue[m], e) /\ channel'[m] = <<>> /\ channel[m] = <<>>
        BY <2>2, <3>2, <3>3 DEF publish_memory, InMemory
      <3>5. Held(m) = 0 /\ Held(m)' = 0
        BY <3>4, EmptySeq DEF Held
      <3>6. EndsAt(queue[m], e - 1)
        BY <1>1, <3>5 DEF InStep
      <3>7. EndsAt(queue'[m], e) /\ Queued(m)' = Queued(m) + 1
        BY <1>1, <3>3, <3>4, <3>6, StepTypes, EnqueueInRun DEF Queued
      <3>8. e - Held(m)' = e /\ e - Held(m)' - Queued(m)' = Before(m)
        <4>1. published \in Int /\ Queued(m) \in Int /\ Held(m)' = 0 /\ Held(m) = 0
          BY <3>5, StepTypes
        <4>2. Queued(m)' = Queued(m) + 1
          BY <3>7
        <4> HIDE DEF Goal
        <4> QED
          BY <1>1, <4>1, <4>2
      <3> QED
        BY <3>4, <3>7, <3>8, EmptyQueue
    <2> QED
      BY <1>0, <2>1, <2>2 DEF OneBus
  <1> QED
    BY <1>1, <1>2, <1>3 DEF InStep

LEMMA InOrderReplay ==
  ASSUME TypeOK, OnlyPublished, StagesAgree, OneBus, NEW m \in Members, get_events_after(m),
         InStep(m), m \notin Excused'
  PROVE  InStep(m)'
  <1> DEFINE p == at[m]
             rest == After(History(p), last[m])
  <1>0. outages = 0 /\ m \notin lossy'
    BY DEF Excused, get_events_after, TypeOK
  <1>1. last[m] \in Events /\ published \in Int
    BY EventStreamAssumption DEF get_events_after, StagesAgree, TypeOK, Events
  <1>2. Holds(History(p), last[m])
    BY <1>0 DEF get_events_after
  <1>3. History(p) \in Seq(Events) /\ EndsAt(History(p), published)
    <2>1. CASE OnRedis
      BY <1>0, <2>1 DEF OnRedis, OneBus, History, Reaches, TypeOK
    <2>2. ASSUME NEW q \in Processes, InMemory(q)
          PROVE  History(p) \in Seq(Events) /\ EndsAt(History(p), published)
      BY <2>2 DEF InMemory, History, Reaches, TypeOK, get_events_after, StagesAgree
    <2> QED
      BY <1>0, <2>1, <2>2 DEF OneBus
  <1>4. rest \in Seq(Events) /\ EndsAt(rest, published) /\ Len(rest) = published - last[m]
    BY <1>1, <1>2, <1>3, AfterInRun
  <1> HIDE DEF rest
  <1>5. backlog'[m] = rest /\ upto'[m] = published /\ stage'[m] = "live" /\ Left(m)' = published - last[m]
    BY <1>4 DEF get_events_after, TypeOK, rest, Left
  <1>6. UNCHANGED <<published, channel, queue, from, top, Held(m), Queued(m)>> /\ stage[m] = "replaying"
    BY DEF get_events_after, Held, Queued
  <1>7. Before(m) = from[m] /\ last[m] <= top[m] /\ top[m] <= published /\ last[m] # 0
    BY <1>6 DEF InStep, OnlyPublished, get_events_after, StagesAgree
  <1>8. top[m] # 0 /\ published - Left(m)' = last[m] /\ from[m] <= published
    BY <1>1, <1>5, <1>7, StepTypes DEF Before
  <1>9. Before(m)' = Before(m)
    BY <1>6 DEF Before
  <1> QED
    BY <1>4, <1>5, <1>6, <1>7, <1>8, <1>9, StepTypes DEF InStep

LEMMA InOrderPump ==
  ASSUME TypeOK, NEW m \in Members, Pump(m), InStep(m), m \notin Excused'
  PROVE  InStep(m)'
  <1> DEFINE e == Head(channel[m])
  <1>1. Queued(m) # QueueSize
    BY DEF Excused, Pump, Full, Queued
  <1>2. /\ e \in Events /\ Len(Tail(channel[m])) = Held(m) - 1
        /\ EndsAt(Tail(channel[m]), published) /\ e = published - Held(m) + 1
    BY StepTypes, TailOfRun DEF Pump, InStep, Held
  <1> HIDE DEF e
  <1>3. e - 1 = published - Held(m) /\ e = published - (Held(m) - 1)
    BY <1>2, StepTypes, SMTT(30)
  <1>4. /\ EndsAt(_enqueue_event(queue[m], e), e)
        /\ Len(_enqueue_event(queue[m], e)) = Queued(m) + 1
    BY <1>1, <1>2, <1>3, StepTypes, EnqueueInRun DEF InStep, Queued
  <1>5. channel'[m] = Tail(channel[m]) /\ queue'[m] = _enqueue_event(queue[m], e)
    BY DEF Pump, TypeOK, e
  <1>6. UNCHANGED <<published, stage, backlog, from, upto, top, Left(m)>>
    BY DEF Pump, Left
  <1>7. Held(m)' = Held(m) - 1 /\ Queued(m)' = Queued(m) + 1
    BY <1>2, <1>4, <1>5 DEF Held, Queued
  <1>8. Before(m)' = Before(m) /\ published - Held(m)' = e
    BY <1>3, <1>6, <1>7, StepTypes DEF Before
  <1> QED
    BY <1>2, <1>4, <1>5, <1>6, <1>8 DEF InStep

LEMMA InOrderReplayed ==
  ASSUME TypeOK, NEW m \in Members, SendReplayed(m), InStep(m)
  PROVE  /\ InStep(m)'
         /\ top[m] = 0 \/ Head(backlog[m]) <= top[m] + 1
  <1> DEFINE e == Head(backlog[m])
             rest == Tail(backlog[m])
  <1>1. /\ e \in Events /\ Len(rest) = Left(m) - 1 /\ EndsAt(rest, upto[m])
        /\ e = upto[m] - Left(m) + 1 /\ Left(m) \in Nat \ {0}
    BY StepTypes, TailOfRun DEF SendReplayed, InStep, Left
  <1>2. backlog'[m] = rest /\ top'[m] = (IF e > top[m] THEN e ELSE top[m])
    BY DEF SendReplayed, Received, TypeOK
  <1>3. UNCHANGED <<published, stage, channel, queue, from, upto, Held(m), Queued(m)>>
    BY DEF SendReplayed, Received, Held, Queued
  <1>4. stage[m] = "live" /\ backlog[m] # <<>> /\ Left(m)' = Left(m) - 1
    BY <1>1, <1>2 DEF SendReplayed, Left
  <1> HIDE DEF e, rest
  <1>5. Before(m)' = Before(m)
    BY <1>3 DEF Before
  <1>6. e = upto[m] - Left(m)' /\ e <= upto[m] /\ e \in Nat \ {0}
    <2>1. upto[m] \in Int /\ e \in Nat \ {0}
      BY <1>1, StepTypes, EventStreamAssumption, SMTT(30) DEF Events
    <2> QED
      BY <1>1, <1>4, <2>1
  <1>7. top'[m] \in Nat \ {0} /\ e <= top'[m] /\ (top'[m] = top[m] \/ top'[m] <= upto[m])
    BY <1>2, <1>6, StepTypes
  <1>8. top[m] = 0 \/ e <= top[m] + 1
    BY <1>1, <1>4, StepTypes DEF InStep
  <1> QED
    BY <1>1, <1>2, <1>3, <1>4, <1>5, <1>6, <1>7, <1>8 DEF InStep, e

LEMMA InOrderQueued ==
  ASSUME TypeOK, NEW m \in Members, SendQueued(m), InStep(m)
  PROVE  /\ InStep(m)'
         /\ top[m] = 0 \/ Head(queue[m]) <= top[m] + 1
  <1> DEFINE e == Head(queue[m])
             rest == Tail(queue[m])
  <1>1. /\ e \in Events /\ Len(rest) = Queued(m) - 1
        /\ EndsAt(rest, published - Held(m)) /\ e = published - Held(m) - Queued(m) + 1
    <2>1. /\ queue[m] \in Seq(Events) /\ queue[m] # <<>> /\ published - Held(m) \in Int
          /\ EndsAt(queue[m], published - Held(m))
      BY StepTypes DEF SendQueued, InStep
    <2> QED
      BY <2>1, TailOfRun DEF Queued
  <1>2. queue'[m] = rest /\ top'[m] = (IF e > top[m] THEN e ELSE top[m])
    BY DEF SendQueued, Received, TypeOK
  <1>3. UNCHANGED <<published, stage, channel, backlog, from, upto, Held(m), Left(m)>>
    BY DEF SendQueued, Received, Held, Left
  <1>4. stage[m] = "live" /\ backlog[m] = <<>> /\ Left(m) = 0 /\ Queued(m)' = Queued(m) - 1
    BY <1>1, <1>2, EmptySeq DEF SendQueued, Left, Queued
  <1> HIDE DEF e, rest
  <1>5. Before(m)' = e /\ e = Before(m) + 1 /\ e \in Nat \ {0}
    BY <1>1, <1>3, <1>4, StepTypes, EventStreamAssumption, SMTT(30) DEF Before, Events
  <1>6. /\ top'[m] \in Nat \ {0} /\ e <= top'[m] /\ top[m] <= top'[m]
        /\ (top'[m] = top[m] \/ top'[m] = e)
    BY <1>2, <1>5, StepTypes
  <1>7. IF top[m] = 0 THEN from[m] = upto[m] ELSE upto[m] <= top[m]
    BY <1>4, StepTypes DEF InStep
  <1>8. /\ from[m] <= Before(m) /\ (from[m] < Before(m) => top[m] >= Before(m))
        /\ from[m] <= upto[m] /\ (top[m] <= upto[m] \/ top[m] <= Before(m))
    BY <1>4 DEF InStep
  <1>9. top[m] = 0 \/ e <= top[m] + 1
    BY <1>5, <1>7, <1>8, StepTypes
  <1>10. upto[m] <= top'[m] /\ from[m] <= e /\ (top'[m] <= upto[m] \/ top'[m] <= e)
    <2>1. from[m] \in Int /\ upto[m] \in Int /\ top[m] \in Nat /\ Before(m) \in Int
      BY StepTypes
    <2>2. from[m] <= e /\ upto[m] <= top'[m]
      <3>1. from[m] <= e
        BY <1>5, <1>8, <2>1
      <3>2. CASE top[m] = 0
        BY <1>6, <1>7, <2>1, <3>1, <3>2
      <3>3. CASE top[m] # 0
        BY <1>5, <1>6, <1>7, <2>1, <3>1, <3>3
      <3> QED
        BY <3>1, <3>2, <3>3
    <2>3. top'[m] <= upto[m] \/ top'[m] <= e
      BY <1>5, <1>6, <1>8, <2>1
    <2> QED
      BY <2>2, <2>3
  <1>11. upto'[m] - Left(m)' <= top'[m]
    BY <1>3, <1>4, <1>10, StepTypes
  <1>12. InStep(m)'
    BY <1>1, <1>2, <1>3, <1>4, <1>5, <1>6, <1>8, <1>10, <1>11, StepTypes DEF InStep
  <1> QED
    BY <1>9, <1>12 DEF e

LEMMA InOrderStep == StreamInvariant /\ [Next]_vars => InOrder'
  <1> SUFFICES ASSUME StreamInvariant, [Next]_vars,
                      NEW n \in Members, n \notin Excused', Streams(n)'
               PROVE  InStep(n)'
    BY DEF InOrder
  <1> USE DEF StreamInvariant
  <1>0. Streams(n) => InStep(n)
    <2>1. lossy \subseteq lossy' /\ (outages' = outages \/ outages' = outages + 1)
      BY DEF Next, vars, server, stream, Publish, publish_redis, publish_memory, Connect, Subscribe,
             get_events_after, Pump, SendReplayed, SendQueued, Received, Break, Outage, Restore, Expire
    <2>2. n \notin Excused
      BY <2>1 DEF Excused, TypeOK
    <2> QED
      BY <2>2 DEF InOrder
  <1>1. ASSUME NEW p \in Processes, Publish(p) PROVE InStep(n)'
    BY <1>0, <1>1, InOrderPublish DEF Publish, Streams
  <1>2. ASSUME NEW m \in Members, NEW p \in Processes, Connect(m, p) PROVE InStep(n)'
    BY <1>0, <1>2, StepFrame DEF Connect, Streams, TypeOK
  <1>3. ASSUME NEW m \in Members, Subscribe(m) PROVE InStep(n)'
    <2>1. CASE n = m
      <3>1. channel'[m] = <<>> /\ queue'[m] = <<>> /\ backlog'[m] = <<>>
        BY <1>3 DEF Subscribe, StagesAgree, Streams
      <3>2. Held(m)' = 0 /\ Queued(m)' = 0 /\ Left(m)' = 0 /\ published \in Int
        BY <3>1, EmptySeq DEF Held, Queued, Left, TypeOK
      <3>3. Before(m)' = published /\ published' = published /\ top' = top
        BY <1>3, <3>2 DEF Before, Subscribe
      <3>4. from'[m] = published /\ upto'[m] = published
        BY <1>3 DEF Subscribe, TypeOK
      <3>5. top[m] \in Nat /\ top[m] <= published /\ (stage'[m] = "live" => top[m] = 0)
        BY <1>3 DEF Subscribe, TypeOK, OnlyPublished
      <3> QED
        BY <2>1, <3>1, <3>2, <3>3, <3>4, <3>5, EmptyQueue DEF InStep
    <2>2. CASE n # m
      BY <1>0, <1>3, <2>2, StepFrame DEF Subscribe, Streams, TypeOK
    <2> QED
      BY <2>1, <2>2
  <1>4. ASSUME NEW m \in Members, get_events_after(m) PROVE InStep(n)'
    <2>1. CASE n = m
      BY <1>0, <1>4, <2>1, InOrderReplay DEF get_events_after, Streams
    <2>2. CASE n # m
      BY <1>0, <1>4, <2>2, StepFrame DEF get_events_after, Streams, TypeOK
    <2> QED
      BY <2>1, <2>2
  <1>5. ASSUME NEW m \in Members, Pump(m) PROVE InStep(n)'
    <2>1. CASE n = m
      BY <1>0, <1>5, <2>1, InOrderPump DEF Pump, Streams
    <2>2. CASE n # m
      BY <1>0, <1>5, <2>2, StepFrame DEF Pump, Streams, TypeOK
    <2> QED
      BY <2>1, <2>2
  <1>6. ASSUME NEW m \in Members, SendReplayed(m) PROVE InStep(n)'
    <2>1. CASE n = m
      BY <1>0, <1>6, <2>1, InOrderReplayed DEF SendReplayed, Streams
    <2>2. CASE n # m
      BY <1>0, <1>6, <2>2, StepFrame DEF SendReplayed, Received, Streams, TypeOK
    <2> QED
      BY <2>1, <2>2
  <1>7. ASSUME NEW m \in Members, SendQueued(m) PROVE InStep(n)'
    <2>1. CASE n = m
      BY <1>0, <1>7, <2>1, InOrderQueued DEF SendQueued, Streams
    <2>2. CASE n # m
      BY <1>0, <1>7, <2>2, StepFrame DEF SendQueued, Received, Streams, TypeOK
    <2> QED
      BY <2>1, <2>2
  <1>8. ASSUME NEW m \in Members, Break(m) PROVE InStep(n)'
    BY <1>0, <1>8, StepFrame DEF Break, Streams, TypeOK
  <1>9. ~Outage
    BY DEF Outage, Excused, TypeOK
  <1>10. CASE Restore \/ Expire
    BY <1>0, <1>10, StepFrame DEF Restore, Expire, stream, Streams
  <1>11. CASE UNCHANGED vars
    BY <1>0, <1>11, StepFrame DEF vars, stream, Streams
  <1> QED
    BY <1>1, <1>2, <1>3, <1>4, <1>5, <1>6, <1>7, <1>8, <1>9, <1>10, <1>11 DEF Next

THEOREM StreamInvariantHolds == Spec => []StreamInvariant
  <1>1. StreamInvariant /\ [Next]_vars => StreamInvariant'
    BY TypeStep, OnlyPublishedStep, StagesStep, OneBusStep, InOrderStep DEF StreamInvariant
  <1> QED
    BY InvariantInit, <1>1, PTL DEF Spec

---------------------------------------------------------------------------
(* Every variable keeps its type: a history never outgrows its limit and a *)
(* queue never its size (event_bus.py:135-204).                            *)
THEOREM TypeCorrectness == Spec => []TypeOK
  <1>1. StreamInvariant => TypeOK
    BY DEF StreamInvariant
  <1> QED
    BY <1>1, StreamInvariantHolds, PTL

LEMMA ItemsOfRun ==
  ASSUME NEW s \in Seq(Events), NEW e \in Int, EndsAt(s, e)
  PROVE  Items(s) = e - Len(s) + 1 .. e
  <1>1. DOMAIN s = 1..Len(s) /\ Len(s) \in Nat
    BY LenProperties
  <1>2. \A i \in 1..Len(s) : s[i] = e - Len(s) + i
    BY DEF EndsAt
  <1>3. \A i \in 1..Len(s) : e - Len(s) + i \in e - Len(s) + 1 .. e
    BY <1>1
  <1>4. ASSUME NEW k \in e - Len(s) + 1 .. e PROVE \E i \in 1..Len(s) : s[i] = k
    <2>1. k - e + Len(s) \in 1..Len(s) /\ e - Len(s) + (k - e + Len(s)) = k
      BY <1>1
    <2> QED
      BY <1>2, <2>1
  <1> QED
    BY <1>1, <1>2, <1>3, <1>4 DEF Items

(* A replay joins the subscription without a gap, and repeats only what    *)
(* both of them caught (sse.py:24-41, event_bus.py:135-204).               *)
THEOREM ReplayExactness == Spec => []ReplayIsExact
  <1>1. ASSUME StreamInvariant, NEW m \in Members \ Excused, stage[m] = "live"
        PROVE  /\ Items(channel[m]) = published - Held(m) + 1 .. published
               /\ Items(queue[m]) = Before(m) + 1 .. published - Held(m)
               /\ Items(backlog[m]) = upto[m] - Left(m) + 1 .. upto[m]
               /\ InStep(m)
    <2>1. InStep(m) /\ TypeOK
      BY <1>1 DEF StreamInvariant, InOrder, Streams
    <2>2. published - Held(m) \in Int /\ published - Held(m) - Queued(m) = Before(m)
      BY <2>1, StepTypes DEF Before
    <2> QED
      BY <1>1, <2>1, <2>2, StepTypes, ItemsOfRun DEF InStep, Held, Queued, Left
  <1>2. StreamInvariant => NothingLostOnTheWay
    <2> SUFFICES ASSUME StreamInvariant, NEW m \in Members \ Excused, stage[m] = "live", top[m] # 0,
                        NEW e \in top[m] + 1 .. published
                 PROVE  e \in Items(backlog[m]) \cup Items(queue[m]) \cup Items(channel[m])
      BY DEF NothingLostOnTheWay
    <2>1. /\ from[m] \in Int /\ upto[m] \in Int /\ top[m] \in Nat /\ Before(m) \in Int
          /\ Held(m) \in Nat /\ Left(m) \in Nat /\ published \in Int
      BY StepTypes DEF StreamInvariant
    <2>2. /\ upto[m] - Left(m) <= top[m] /\ from[m] <= upto[m] /\ from[m] <= Before(m)
          /\ (from[m] < Before(m) => top[m] >= Before(m))
      BY <1>1 DEF InStep
    <2>3. \/ e \in upto[m] - Left(m) + 1 .. upto[m]
          \/ e \in Before(m) + 1 .. published - Held(m)
          \/ e \in published - Held(m) + 1 .. published
      BY <2>1, <2>2
    <2> QED
      BY <1>1, <2>3
  <1>3. StreamInvariant => RepeatsOnlyAroundReplay
    <2> SUFFICES ASSUME StreamInvariant, NEW m \in Members \ Excused, stage[m] = "live",
                        NEW e \in Items(queue[m]) \cup Items(channel[m])
                 PROVE  e > from[m] /\ (e <= top[m] => e <= upto[m])
      BY DEF RepeatsOnlyAroundReplay
    <2>1. /\ from[m] \in Int /\ upto[m] \in Int /\ top[m] \in Nat /\ Before(m) \in Int
          /\ Held(m) \in Nat /\ Queued(m) \in Nat /\ published \in Int
          /\ Before(m) = published - Held(m) - Queued(m)
      BY StepTypes DEF StreamInvariant, Before
    <2>2. from[m] <= Before(m) /\ (top[m] <= upto[m] \/ top[m] <= Before(m))
      BY <1>1 DEF InStep
    <2>3. e \in Before(m) + 1 .. published - Held(m) \/ e \in published - Held(m) + 1 .. published
      BY <1>1
    <2> QED
      BY <2>1, <2>2, <2>3
  <1> QED
    BY <1>2, <1>3, StreamInvariantHolds, PTL DEF ReplayIsExact

---------------------------------------------------------------------------
(* The events reach a member one after the other and without a gap, unless *)
(* the member is excused: every step of the stream is one of the abstract  *)
(* log or changes nothing in it (sse.py:24-41, sse_client.dart:36-82).     *)
THEOREM StreamKeepsThePromise == Spec => DeliversInOrder
  <1> USE DEF Promise!Next, Promise!Publish, Promise!Receive, Promise!vars
  <1>1. Init => Promise!Init
    BY DEF Init, Promise!Init, Excused
  <1>2. StreamInvariant /\ [Next]_vars => [Promise!Next]_Promise!vars
    <2> SUFFICES ASSUME StreamInvariant, [Next]_vars
                 PROVE  [Promise!Next]_Promise!vars
      OBVIOUS
    <2>0. Excused \subseteq Excused'
      <3>1. lossy \subseteq lossy' /\ (outages' = outages \/ outages' = outages + 1)
        BY DEF Next, vars, server, stream, Publish, publish_redis, publish_memory, Connect, Subscribe,
               get_events_after, Pump, SendReplayed, SendQueued, Received, Break, Outage, Restore, Expire
      <3> QED
        BY <3>1 DEF Excused, StreamInvariant, TypeOK
    <2>1. ASSUME NEW m \in Members, NEW e \in Events, Received(m, e), e <= published,
                 m \notin Excused => top[m] = 0 \/ e <= top[m] + 1
          PROVE  Promise!Receive(m) \/ UNCHANGED <<published, top>>
      <3>1. top \in [Members -> Nat] /\ published \in Int /\ e \in 1..published
        BY <2>1, EventStreamAssumption DEF StreamInvariant, TypeOK, Events
      <3>2. published' = published /\ top' = [top EXCEPT ![m] = IF e > top[m] THEN e ELSE top[m]]
        BY <2>1 DEF Received
      <3>3. CASE e > top[m]
        <4>1. e \in 1..published /\ (e = top[m] + 1 \/ top[m] = 0 \/ (m \in Excused /\ e > top[m]))
          BY <2>1, <3>1, <3>3
        <4>2. top' = [top EXCEPT ![m] = e]
          BY <3>2, <3>3
        <4> QED
          BY <3>2, <4>1, <4>2
      <3>4. CASE ~(e > top[m])
        BY <3>1, <3>2, <3>4
      <3> QED
        BY <3>3, <3>4
    <2>2. ASSUME NEW m \in Members, SendReplayed(m) PROVE Promise!Receive(m) \/ UNCHANGED <<published, top>>
      <3>1. Received(m, Head(backlog[m])) /\ Head(backlog[m]) \in Events /\ Head(backlog[m]) <= published
        BY <2>2, StepTypes, TailOfRun DEF SendReplayed, StreamInvariant, OnlyPublished
      <3>2. m \notin Excused => top[m] = 0 \/ Head(backlog[m]) <= top[m] + 1
        BY <2>2, InOrderReplayed DEF StreamInvariant, InOrder, Streams, SendReplayed
      <3> QED
        BY <2>1, <3>1, <3>2
    <2>3. ASSUME NEW m \in Members, SendQueued(m) PROVE Promise!Receive(m) \/ UNCHANGED <<published, top>>
      <3>1. Received(m, Head(queue[m])) /\ Head(queue[m]) \in Events /\ Head(queue[m]) <= published
        BY <2>3, StepTypes, TailOfRun DEF SendQueued, StreamInvariant, OnlyPublished
      <3>2. m \notin Excused => top[m] = 0 \/ Head(queue[m]) <= top[m] + 1
        BY <2>3, InOrderQueued DEF StreamInvariant, InOrder, Streams, SendQueued
      <3> QED
        BY <2>1, <3>1, <3>2
    <2>4. ASSUME NEW p \in Processes, Publish(p) PROVE Promise!Publish
      BY <2>4 DEF Publish
    <2>5. ASSUME NEW m \in Members,
                 (\E p \in Processes : Connect(m, p)) \/ Subscribe(m) \/ get_events_after(m)
                   \/ Pump(m) \/ Break(m)
          PROVE  UNCHANGED <<published, top>>
      BY <2>5 DEF Connect, Subscribe, get_events_after, Pump, Break
    <2>6. CASE Outage \/ Restore \/ Expire \/ UNCHANGED vars
      BY <2>0, <2>6 DEF Outage, Restore, Expire, vars
    <2> QED
      BY <2>0, <2>2, <2>3, <2>4, <2>5, <2>6 DEF Next
  <1> QED
    BY <1>1, <1>2, StreamInvariantHolds, PTL DEF Spec, DeliversInOrder, Promise!Spec
=============================================================================
