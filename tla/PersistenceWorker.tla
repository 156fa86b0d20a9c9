--------------------------- MODULE PersistenceWorker ---------------------------
(***************************************************************************)
(* workers/persistence_worker.py driving the local outbox: publishers put  *)
(* events at any time, the worker takes a batch, drops superseded low      *)
(* priority events, writes one record per (event, kind) to the database    *)
(* and then acknowledges, retries or dead-letters every event of the batch *)
(* one by one.  Publishers run between any two awaits of the worker.       *)
(***************************************************************************)
EXTENDS LocalOutbox

CONSTANTS
  KindOf,           \* the table of each type: "market", "order", "account", ...,
                    \* "none" when its payload gives no record but the audit
  Entrances,        \* which of "put_nowait", "enqueue" the publishers call
  DbFailures,       \* failures the repository may answer: "transient", "fatal"
  PollBudget,       \* poll_timeout_s / enqueue_timeout: promotions that may
  DrainBudget       \* fail before the first, or a later, get times out

\* The kinds of record route_event plans according to the event type.
TypedKinds == {"market", "account", "orderbook", "order", "fill", "position"}

ASSUME WorkerAssumption ==
  /\ KindOf \in [Types -> TypedKinds \union {"none"}]
  /\ Entrances \subseteq {"put_nowait", "enqueue"}
  /\ DbFailures \subseteq {"transient", "fatal"}
  /\ PollBudget \in Nat \ {0}
  /\ DrainBudget \in Nat \ {0}

VARIABLES
  box,        \* the outbox
  published,  \* types of the events published so far, in order
  pc,         \* what the worker is about to do
  batch,      \* events taken from the outbox and not yet settled
  outcome,    \* result of the writes, by event id
  retrying,   \* the event whose retry waits for a slot
  attempts,   \* history: how often each publication was written or tried
  dropped,    \* history: how often it was tried and then left unsettled
  db          \* <<id, ver, kind>> records in the database

vars == <<box, published, pc, batch, outcome, retrying, attempts, dropped, db>>

NoEvent == Event(0, CHOOSE t \in Types : TRUE, 0)

Ids == 1..MaxEvents

Init ==
  /\ box = EmptyOutbox
  /\ published = <<>>
  /\ pc = "poll"
  /\ batch = <<>>
  /\ outcome = <<>>
  /\ retrying = NoEvent
  /\ attempts = [i \in Ids |-> 0]
  /\ dropped = [i \in Ids |-> 0]
  /\ db = {}

--------------------------------------------------------------------------------
(* Publishers. *)

Publish(t, how) ==
  LET n == Len(published) + 1
      e == Event(n, t, n)
  IN  /\ n <= MaxEvents
      /\ published' = Append(published, t)
      /\ box' = IF how = "enqueue" THEN Enqueue(box, e) ELSE PutNowait(box, e)
      /\ UNCHANGED <<pc, batch, outcome, retrying, attempts, dropped, db>>

--------------------------------------------------------------------------------
(* The worker. *)

\* Retained events a full ready queue has no room for: the promotion inside
\* get waits enqueue_timeout for each of them, one after the other.
Stalled(b) ==
  IF HasCapacity(b) THEN 0 ELSE Cardinality(DOMAIN b.retained \ b.queued)

\* while len(events) + 1 < self._batch_size
BatchHasRoom(s) == Len(s) < BatchSize

Budget(s) == IF s = <<>> THEN PollBudget ELSE DrainBudget

\* get promotes, and reaches the ready queue only if that takes less than the
\* timeout of the caller: _poll_event for the first event of a batch,
\* _drain_batch for the others.
StartGet(b, s) ==
  LET promoted == Promote(b)
  IN  /\ box' = promoted
      /\ pc' = IF Stalled(promoted) < Budget(s) THEN "poll" ELSE "overdue"

\* One pass of the loop of get; the next pass, or the next get, follows
\* without a suspension.
Collect ==
  /\ pc = "poll"
  /\ box.ready # <<>>
  /\ LET id == FirstReady(box)
         popped == PopReady(box)
         got == IF id \in DOMAIN box.events THEN Append(batch, box.events[id])
                                            ELSE batch
     IN  /\ batch' = got
         /\ IF BatchHasRoom(got)
            THEN StartGet(popped, got)
            ELSE box' = popped /\ pc' = "write"
  /\ UNCHANGED <<published, outcome, retrying, attempts, dropped, db>>

\* The poll or drain timeout fires, while get waits or while it promotes.
CollectTimeout ==
  /\ pc \in {"poll", "overdue"}
  /\ IF batch = <<>>
     THEN StartGet(box, <<>>)
     ELSE pc' = "write" /\ UNCHANGED box
  /\ UNCHANGED <<published, batch, outcome, retrying, attempts, dropped, db>>

\* route_event.  The outbox and allocation records are planned and written
\* like the audit record and not told apart from it.
RouteEvent(t) == {"audit"} \union ({KindOf[t]} \ {"none"})

\* The kinds _persist_batch writes.
RouteOrder ==
  {"audit", "market", "orderbook", "order", "fill", "position", "allocation", "outbox"}

Planned(s) ==
  {<<s[i].id, s[i].ver, k>> : i \in DOMAIN s, k \in RouteOrder} \intersect
  UNION {{<<s[i].id, s[i].ver, k>> : k \in RouteEvent(s[i].typ)} : i \in DOMAIN s}

\* required > 0 and succeeded >= required and no failed record.
FullyWritten(e, written) ==
  \A k \in RouteEvent(e.typ) : <<e.id, e.ver, k>> \in written

\* _persist_batch up to the outcomes.  A batch write that fails is repeated
\* record by record, so any subset of the planned records may be written.
Write ==
  /\ pc = "write"
  /\ \E events \in {Coalesce(batch)} : \E planned \in {Planned(events)} :
       \E written \in IF DbFailures = {} THEN {planned} ELSE SUBSET planned :
         \E why \in [ToSet(events) -> DbFailures \union {"transient"}] :
           /\ batch' = events
           /\ db' = db \union written
           /\ outcome' = [e \in ToSet(events) |->
                            IF FullyWritten(e, written) THEN "ok"
                            ELSE IF \E r \in planned \ written : r[1] = e.id
                                 THEN why[e] ELSE "transient"]
           /\ \A e \in ToSet(events) : why[e] = "fatal" => outcome'[e] = "fatal"
           /\ attempts' = [i \in Ids |-> attempts[i] +
                             Cardinality({e \in ToSet(events) : e.id = i})]
  /\ pc' = "settle"
  /\ UNCHANGED <<box, published, retrying, dropped>>

NextInBatch ==
  /\ batch' = Tail(batch)
  /\ pc' = "settle"
  /\ retrying' = NoEvent

SettleAck ==
  /\ pc = "settle"
  /\ batch # <<>>
  /\ outcome[Head(batch)] = "ok"
  /\ box' = Ack(box, Head(batch).id)
  /\ NextInBatch
  /\ UNCHANGED <<published, outcome, attempts, dropped, db>>

MayRetry(e) == outcome[e] = "transient" /\ e.retry < MaxRetryCount

\* retry of an event the outbox still knows.  With the ready queue full the
\* call waits, and publishers run before it stores the event again.
SettleRetry ==
  /\ pc = "settle"
  /\ batch # <<>>
  /\ outcome[Head(batch)] # "ok"
  /\ MayRetry(Head(batch))
  /\ Known(box, Head(batch).id)
  /\ LET id == Head(batch).id
         e == WithRetry(Current(box, id))
         stored == RetryStore(box, id)
     IN  \/ /\ id \in box.queued
            /\ box' = stored
            /\ NextInBatch
         \/ /\ id \notin box.queued
            /\ HasCapacity(stored)
            /\ box' = RetryEnqueue(stored, e)
            /\ NextInBatch
         \/ /\ id \notin box.queued
            /\ ~HasCapacity(stored)
            /\ box' = stored
            /\ retrying' = e
            /\ pc' = "retrying"
            /\ UNCHANGED batch
  /\ UNCHANGED <<published, outcome, attempts, dropped, db>>

RetryTimeout ==
  /\ pc = "retrying"
  /\ box' = StoreRetained(box, retrying)
  /\ NextInBatch
  /\ UNCHANGED <<published, outcome, attempts, dropped, db>>

SettleDeadLetter ==
  /\ pc = "settle"
  /\ batch # <<>>
  /\ outcome[Head(batch)] # "ok"
  /\ ~MayRetry(Head(batch))
  /\ Known(box, Head(batch).id)
  /\ box' = DeadLetter(box, Head(batch).id)
  /\ NextInBatch
  /\ UNCHANGED <<published, outcome, attempts, dropped, db>>

\* retry and dead_letter raise KeyError for an event the outbox evicted while
\* the worker held it; run() logs the exception and polls again, so the rest
\* of the batch is never settled.
SettleUnknown ==
  /\ pc = "settle"
  /\ batch # <<>>
  /\ outcome[Head(batch)] # "ok"
  /\ ~Known(box, Head(batch).id)
  /\ dropped' = [i \in Ids |->
                   dropped[i] + IF \E e \in ToSet(Tail(batch)) : e.id = i THEN 1 ELSE 0]
  /\ batch' = <<>>
  /\ UNCHANGED <<box, published, pc, outcome, retrying, attempts, db>>

\* The batch is settled; the next poll starts with a promotion.
BatchDone ==
  /\ pc = "settle"
  /\ batch = <<>>
  /\ outcome' = <<>>
  /\ StartGet(box, <<>>)
  /\ UNCHANGED <<published, batch, retrying, attempts, dropped, db>>

WorkerStep ==
  \/ Collect
  \/ CollectTimeout
  \/ Write
  \/ SettleAck
  \/ SettleRetry
  \/ RetryTimeout
  \/ SettleDeadLetter
  \/ SettleUnknown
  \/ BatchDone

Next ==
  \/ \E t \in Types, how \in Entrances : Publish(t, how)
  \/ WorkerStep

Spec == Init /\ [][Next]_vars

\* The worker's task is never starved: every await in it has a timeout.
FairSpec == Spec /\ WF_vars(WorkerStep)

--------------------------------------------------------------------------------
(* Properties. *)

PublishedIds == DOMAIN published

CriticalIds == {i \in PublishedIds : PriorityOf[published[i]] <= 1}

Persisted(i) ==
  /\ i \in PublishedIds
  /\ \E v \in Ids : \A k \in RouteEvent(published[i]) : <<i, v, k>> \in db

DeadLettered(i) == \E e \in box.dead : e.id = i

\* The outbox or the worker still holds the event and will process it.
Held(i) ==
  \/ i \in DOMAIN box.events /\ \E j \in DOMAIN box.ready : box.ready[j].id = i
  \/ i \in DOMAIN box.retained
  \/ \E j \in DOMAIN batch : batch[j].id = i

Records == [id : 0..MaxEvents, typ : Types, ver : 0..MaxEvents, retry : 0..(MaxRetryCount + 1)]

\* The type invariant.
TypeOK ==
  /\ Len(box.ready) <= MaxSize
  /\ Range(box.events) \union Range(box.retained) \union box.dead \subseteq Records
  /\ DOMAIN box.events \subseteq PublishedIds
  /\ box.queued \subseteq PublishedIds
  /\ pc \in {"poll", "overdue", "write", "settle", "retrying"}
  /\ Len(batch) <= BatchSize

\* A critical event, once published, is held, completely written, or in the
\* dead letters: no overflow, merge, retry or exception loses it.
CriticalNeverLost ==
  \A i \in CriticalIds : Held(i) \/ Persisted(i) \/ DeadLettered(i)

\* A critical event is given up when its retries are used up or a write failed for good.
CriticalGivenUpByRetries ==
  \A e \in box.dead :
    PriorityOf[e.typ] <= 1 =>
      /\ attempts[e.id] >= 1
      /\ DbFailures = {"transient"} => attempts[e.id] = MaxRetryCount + 1

\* Merging, retrying and queueing twice give no event more attempts than
\* allowed, but for one each time it is left unsettled in a batch cut short,
\* which no critical event ever is.
AttemptsBounded ==
  /\ \A i \in Ids : attempts[i] <= MaxRetryCount + 1 + dropped[i]
  /\ \A i \in CriticalIds : dropped[i] = 0

\* Low priority events never grow the retained area beyond its capacity.
RetainedBounded ==
  Cardinality(DOMAIN box.retained) > RetainedMaxSize => Evictable(box) = {}

\* The outbox keeps its bounds: the ready queue its capacity, and the retained
\* area too as long as one of its events may be evicted.
OutboxSound == TypeOK /\ RetainedBounded

\* However an event is merged, retained, queued twice and retried, it is tried
\* max_retry_count times more and no oftener, but for the tries that an event
\* evicted from its batch keeps from being counted, and a critical one no less
\* before it is given up.
RetriesCounted == AttemptsBounded /\ CriticalGivenUpByRetries

\* Every critical event is eventually written or dead-lettered.
CriticalSettled ==
  \A i \in Ids :
    [](i \in CriticalIds => <>(Persisted(i) \/ DeadLettered(i)))

================================================================================
