-------------------------------- MODULE EventBus --------------------------------
(***************************************************************************)
(* runtime/event_bus.py with the tasks around it: the websocket workers    *)
(* and background jobs that publish, the trading decision worker and the   *)
(* reconcile loop that consume and publish, and the supervisor that pauses *)
(* the low priority lanes.  Each loop is one task: an exception or a       *)
(* cancellation ends it for good.                                          *)
(*                                                                         *)
(* Three lanes.  A P0 / P1 publisher waits for a slot of the trading       *)
(* queue.  P2 and P3 events never wait: when their lane is full or paused  *)
(* they are kept in the lane's retained list, where a later event of the   *)
(* same identity replaces an earlier one and the oldest is dropped when    *)
(* the list is full.  An event is named by its place in the log of         *)
(* publications.                                                           *)
(***************************************************************************)
EXTENDS Integers, Sequences, FiniteSets

CONSTANTS
  Publishers,        \* tasks that publish P0 / P1 events
  Capacity,          \* capacity of each lane's queue
  RetainedCapacity,  \* retained_capacity, one bound for each retained list
  Keys,              \* event identities (merge_key, idempotency_key, ...)
  Emits,             \* most events the trading worker publishes per event
  SinkBound,         \* bind_persistence_sink was called, as main.py does
  MaxEvents          \* bound of the model: number of publications

LowLanes == {"maintenance", "persistence"}
Lanes == LowLanes \union {"trading"}

Worker == "trading_decision"   \* the only consumer of the trading lane
Reconciler == "reconcile"      \* the only consumer of the maintenance lane
Consumers == {Worker, Reconciler}
Tasks == Publishers \union Consumers

ASSUME BusAssumption ==
  /\ Capacity \in [Lanes -> Nat \ {0}]
  /\ RetainedCapacity \in Nat \ {0}
  /\ Emits \in Nat
  /\ SinkBound \in BOOLEAN
  /\ MaxEvents \in Nat
  /\ Keys # {}
  /\ Worker \notin Publishers /\ Reconciler \notin Publishers

VARIABLES
  log,         \* history: every publication, its identity and whether it is the
               \* worker's own
  queue,       \* the three asyncio queues
  retained,    \* the retained lists of the low priority lanes
  paused,      \* _low_priority_paused
  waiting,     \* the publication each task waits to put, 0 for none
  todo,        \* what the worker still publishes for its event, -1 when idle
  reconciling, \* a run of the reconcile loop is under way
  ended,       \* the consumers that an exception or a cancellation has ended
  mirrored,    \* publications handed to the outbox sink
  delivered    \* history: newest publication of each key taken from each lane

vars == <<log, queue, retained, paused, waiting, todo, reconciling, ended,
          mirrored, delivered>>

loops == <<reconciling, ended>>

Nothing == 0

Init ==
  /\ log = <<>>
  /\ queue = [l \in Lanes |-> <<>>]
  /\ retained = [l \in LowLanes |-> <<>>]
  /\ paused = FALSE
  /\ waiting = [t \in Tasks |-> Nothing]
  /\ todo = -1
  /\ reconciling = FALSE
  /\ ended = {}
  /\ mirrored = {}
  /\ delivered = [l \in LowLanes |-> [k \in Keys |-> 0]]

IsFull(l) == Len(queue[l]) >= Capacity[l]

Mirror(n) == mirrored' = IF SinkBound THEN mirrored \union {n} ELSE mirrored

\* _flush_retained_best_effort: how many retained events of lane l it moves,
\* and the queues and retained lists it leaves, given the queues q and the
\* value p of the pause flag.
Moved(p, q, l) ==
  IF p THEN 0
  ELSE IF Capacity[l] - Len(q[l]) < Len(retained[l])
       THEN Capacity[l] - Len(q[l])
       ELSE Len(retained[l])

Flush(p, q) ==
  /\ queue' = [l \in Lanes |->
       IF l \in LowLanes THEN q[l] \o SubSeq(retained[l], 1, Moved(p, q, l))
                         ELSE q[l]]
  /\ retained' = [l \in LowLanes |->
       SubSeq(retained[l], Moved(p, q, l) + 1, Len(retained[l]))]

\* Mutant: the worker publishes when it finds room instead of waiting for it.
MayPublishWithRoom(t) ==
  /\ waiting[t] = Nothing
  /\ t = Worker => todo > 0 /\ ~IsFull("trading")
  /\ t = Reconciler => reconciling
  /\ t # Worker => Len(log) < MaxEvents

\* A task starts a publish: it is not waiting in an earlier one, the worker
\* publishes only while it handles an event, the reconcile loop in a run.
MayPublish(t) ==
  /\ waiting[t] = Nothing
  /\ t = Worker => todo > 0
  /\ t = Reconciler => reconciling
  /\ t # Worker => Len(log) < MaxEvents

Logged(k, t) == log' = Append(log, [key |-> k, own |-> (t = Worker)])

\* The trading lane does not look at an event's identity.
AnyKey == CHOOSE k \in Keys : TRUE

--------------------------------------------------------------------------------
(* The trading lane. *)

\* Mutant: the event is mirrored before the put is awaited.
PublishTradingMirrorFirst(t) ==
  /\ MayPublish(t)
  /\ Logged(AnyKey, t)
  /\ LET n == Len(log) + 1
     IN  /\ Mirror(n)
         /\ IF IsFull("trading")
            THEN waiting' = [waiting EXCEPT ![t] = n] /\ UNCHANGED queue
            ELSE /\ queue' = [queue EXCEPT !["trading"] = Append(@, n)]
                 /\ UNCHANGED waiting
  /\ todo' = IF t = Worker THEN todo - 1 ELSE todo
  /\ UNCHANGED <<retained, paused, loops, delivered>>

\* publish of a P0 / P1 event: await put, then mirror.
PublishTrading(t) ==
  /\ MayPublish(t)
  /\ Logged(AnyKey, t)
  /\ LET n == Len(log) + 1
     IN  IF IsFull("trading")
         THEN waiting' = [waiting EXCEPT ![t] = n] /\ UNCHANGED <<queue, mirrored>>
         ELSE /\ queue' = [queue EXCEPT !["trading"] = Append(@, n)]
              /\ Mirror(n)
              /\ UNCHANGED waiting
  /\ todo' = IF t = Worker THEN todo - 1 ELSE todo
  /\ UNCHANGED <<retained, paused, loops, delivered>>

\* A waiting put finds a slot.
PutWaiting(t) ==
  /\ waiting[t] # Nothing
  /\ ~IsFull("trading")
  /\ queue' = [queue EXCEPT !["trading"] = Append(@, waiting[t])]
  /\ Mirror(waiting[t])
  /\ waiting' = [waiting EXCEPT ![t] = Nothing]
  /\ UNCHANGED <<log, retained, paused, todo, loops, delivered>>

\* A task ends: an exception leaves its loop, which the supervised loop marks
\* and raises again and nothing starts anew, or the shutdown cancels it, also
\* while it waits in publish.  A publisher stands for any number of tasks one
\* after another, so only what it waits for is lost with it.
TaskEnds(t) ==
  /\ IF t \in Consumers THEN t \notin ended ELSE waiting[t] # Nothing
  /\ ended' = ended \union ({t} \intersect Consumers)
  /\ waiting' = [waiting EXCEPT ![t] = Nothing]
  /\ todo' = IF t = Worker THEN -1 ELSE todo
  /\ reconciling' = (reconciling /\ t # Reconciler)
  /\ UNCHANGED <<log, queue, retained, paused, mirrored, delivered>>

\* next_trading_event, then process_event: the worker ignores the events it
\* published itself and publishes up to Emits events for any other.
NextTradingEvent ==
  /\ Worker \notin ended
  /\ todo = -1
  /\ queue["trading"] # <<>>
  /\ LET n == Head(queue["trading"])
         q == [queue EXCEPT !["trading"] = Tail(@)]
     IN  /\ todo' \in IF log[n].own THEN {-1} ELSE 0..Emits
         /\ Flush(paused, q)
  /\ UNCHANGED <<log, paused, waiting, loops, mirrored, delivered>>

\* The worker has handled its event and asks for the next one.
EventHandled ==
  /\ todo = 0
  /\ waiting[Worker] = Nothing
  /\ todo' = -1
  /\ UNCHANGED <<log, queue, retained, paused, waiting, loops, mirrored, delivered>>

--------------------------------------------------------------------------------
(* The low priority lanes. *)

SameKey(l, k) == {i \in DOMAIN retained[l] : log[retained[l][i]].key = k}

\* _retain
Retained(l, k, n) ==
  IF SameKey(l, k) # {}
  THEN [retained EXCEPT ![l][CHOOSE i \in SameKey(l, k) :
                               \A j \in SameKey(l, k) : i <= j] = n]
  ELSE IF Len(retained[l]) >= RetainedCapacity
  THEN [retained EXCEPT ![l] = Append(Tail(@), n)]
  ELSE [retained EXCEPT ![l] = Append(@, n)]

\* Mutant: publish without its test of _low_priority_paused.
MustRetainIfFull(l) == IsFull(l)

\* The event cannot be queued now: the lanes are paused or the queue is full.
MustRetain(l) == paused \/ IsFull(l)

\* publish of a P2 / P3 event.  With a sink, P3 events only go to the sink.
PublishLow(l, k) ==
  /\ Len(log) < MaxEvents
  /\ Logged(k, "background")
  /\ LET n == Len(log) + 1
     IN  /\ Mirror(n)
         /\ IF l = "persistence" /\ SinkBound
            THEN UNCHANGED <<queue, retained>>
            ELSE IF MustRetain(l)
            THEN retained' = Retained(l, k, n) /\ UNCHANGED queue
            ELSE queue' = [queue EXCEPT ![l] = Append(@, n)] /\ UNCHANGED retained
  /\ UNCHANGED <<paused, waiting, todo, loops, delivered>>

\* The reconcile loop takes an event of the maintenance lane between two runs.
\* A run begins when the lane is drained or the batch is full, unless no event
\* of the batch asks for one.  The persistence lane has no loop of its own.
Take(l) ==
  /\ l = "maintenance" => ~reconciling /\ Reconciler \notin ended
  /\ reconciling' \in IF l = "maintenance" THEN BOOLEAN ELSE {reconciling}
  /\ UNCHANGED ended

\* Mutant: a get of a low lane without the flush.
NextLowEventNoFlush(l) ==
  /\ Take(l)
  /\ queue[l] # <<>>
  /\ LET n == Head(queue[l])
     IN  /\ delivered' = [delivered EXCEPT ![l][log[n].key] = n]
         /\ queue' = [queue EXCEPT ![l] = Tail(@)]
  /\ UNCHANGED <<log, retained, paused, waiting, todo, mirrored>>

\* next_maintenance_event and next_persistence_event.
NextLowEvent(l) ==
  /\ Take(l)
  /\ queue[l] # <<>>
  /\ LET n == Head(queue[l])
         q == [queue EXCEPT ![l] = Tail(@)]
     IN  /\ delivered' = [delivered EXCEPT ![l][log[n].key] = n]
         /\ Flush(paused, q)
  /\ UNCHANGED <<log, paused, waiting, todo, mirrored>>

\* A run of the reconcile loop is over.  It waits for each of its own events
\* that the trading lane has no room for.
RunEnds ==
  /\ reconciling /\ waiting[Reconciler] = Nothing
  /\ reconciling' = FALSE
  /\ UNCHANGED <<log, queue, retained, paused, waiting, todo, ended, mirrored, delivered>>

PauseLowPriority ==
  /\ paused' = TRUE
  /\ UNCHANGED <<log, queue, retained, waiting, todo, loops, mirrored, delivered>>

\* Mutant: resume flushes before it clears the flag.
ResumeBeforeClearing ==
  /\ Flush(paused, queue)
  /\ paused' = FALSE
  /\ UNCHANGED <<log, waiting, todo, loops, mirrored, delivered>>

\* resume_low_priority: the flush sees the new flag.
ResumeLowPriority ==
  /\ paused' = FALSE
  /\ Flush(FALSE, queue)
  /\ UNCHANGED <<log, waiting, todo, loops, mirrored, delivered>>

--------------------------------------------------------------------------------

Next ==
  \/ \E t \in Tasks : PublishTrading(t)
  \/ \E t \in Tasks : PutWaiting(t)
  \/ \E t \in Tasks : TaskEnds(t)
  \/ NextTradingEvent
  \/ EventHandled
  \/ \E l \in LowLanes, k \in Keys : PublishLow(l, k)
  \/ \E l \in LowLanes : NextLowEvent(l)
  \/ RunEnds
  \/ PauseLowPriority
  \/ ResumeLowPriority

Spec == Init /\ [][Next]_vars

\* As long as they live the consumers and the tasks waiting in a put are
\* scheduled by the event loop whenever they can run, and a run of the
\* reconcile loop ends, as each call it awaits has a timeout.  Nothing is
\* assumed of publishers, of the supervisor's pauses, or of how long a task
\* lives.
FairSpec ==
  /\ Spec
  /\ WF_vars(NextTradingEvent)
  /\ WF_vars(EventHandled)
  /\ WF_vars(PublishTrading(Worker))
  /\ \A t \in Tasks : WF_vars(PutWaiting(t))
  /\ WF_vars(NextLowEvent("maintenance"))
  /\ WF_vars(RunEnds)

--------------------------------------------------------------------------------
(* Properties. *)

Published == 1..Len(log)

Elements(s) == {s[i] : i \in 1..Len(s)}

\* Shape of the state; no queue or list outgrows its capacity and everything
\* in them was published.
TypeOK ==
  /\ log \in Seq([key : Keys, own : BOOLEAN])
  /\ queue \in [Lanes -> Seq(Published)]
  /\ \A l \in Lanes : Len(queue[l]) <= Capacity[l]
  /\ retained \in [LowLanes -> Seq(Published)]
  /\ \A l \in LowLanes : Len(retained[l]) <= RetainedCapacity
  /\ paused \in BOOLEAN
  /\ waiting \in [Tasks -> Published \union {Nothing}]
  /\ todo \in -1..Emits
  /\ reconciling \in BOOLEAN
  /\ ended \subseteq Consumers
  /\ mirrored \subseteq Published
  /\ delivered \in [LowLanes -> [Keys -> Published \union {Nothing}]]

\* A retained event is left behind only while its lane is paused or its queue
\* is full, so the next get or the resume moves it: next_maintenance_event
\* waits on the queue alone and would never see an event stranded beside an
\* empty queue.
RetainedOnlyWhenFull ==
  ~paused => \A l \in LowLanes : retained[l] # <<>> => Len(queue[l]) = Capacity[l]

\* The lanes and retained lists keep to their capacities, and nothing is
\* stranded in a retained list.
LanesSound == TypeOK /\ RetainedOnlyWhenFull

\* The outbox sink records a trading event once the lane has accepted it and
\* not before: everything queued is mirrored, nothing still waiting is.
MirrorFollowsQueue ==
  SinkBound =>
    /\ Elements(queue["trading"]) \subseteq mirrored
    /\ \A t \in Tasks : waiting[t] # Nothing => waiting[t] \notin mirrored

\* Within a low priority lane the events of one identity keep their order
\* through queue, retained list and replacement, and none is delivered after a
\* newer one: a consumer never sees an older snapshot of a market last.
Pipeline(l) == queue[l] \o retained[l]

KeyOrder ==
  \A l \in LowLanes :
    \A i \in 1..Len(Pipeline(l)) :
      LET n == Pipeline(l)[i]
      IN  /\ delivered[l][log[n].key] < n
          /\ \A j \in 1..Len(Pipeline(l)) :
               i < j /\ log[Pipeline(l)[j]].key = log[n].key => n < Pipeline(l)[j]

\* The worker waits in publish for a slot of the lane it alone empties.
WaitsForItself == waiting[Worker] # Nothing /\ IsFull("trading")

\* The trading lane is not emptied any more.
TradingStopped == Worker \in ended \/ WaitsForItself

\* The reconcile loop has ended, or its run waits for ever for a slot of a
\* trading lane that nobody empties.
ReconcileStopped ==
  \/ Reconciler \in ended
  \/ waiting[Reconciler] # Nothing /\ IsFull("trading") /\ TradingStopped

\* Once the supervisor stops pausing the low priority lanes, every event a
\* lane holds leaves it: it is delivered, replaced or dropped as the oldest,
\* unless an exception ended the reconcile loop or it waits behind a stopped
\* worker in the trading lane: nothing else strands a retained event.
LowLanesDrain ==
  <>[]~paused =>
    \A l \in LowLanes, n \in 1..MaxEvents :
      [](n \in Elements(Pipeline(l)) =>
           <>(n \notin Elements(Pipeline(l)) \/ ReconcileStopped))

\* Every event the trading lane accepted is eventually taken by the worker,
\* unless its loop has ended or it waits for itself: the end of any other task,
\* a pause, a full low lane or the reconcile run never stop the trading lane.
TradingDrains ==
  \A n \in 1..MaxEvents :
    [](n \in Elements(queue["trading"]) =>
         <>(n \notin Elements(queue["trading"]) \/ TradingStopped))

================================================================================
