------------------------------ MODULE LocalOutbox ------------------------------
(***************************************************************************)
(* infra/outbox/local_queue.py: the in-memory buffer between the trading   *)
(* path (order executor, event bus sink) and the persistence worker.       *)
(*                                                                         *)
(* The class is a set of pure operators on one record, so that a caller    *)
(* can perform several of its calls in one step.  The whole asyncio        *)
(* program runs on one thread and a put into a queue with room does not    *)
(* suspend, so each call below is atomic; the one call that can suspend    *)
(* between two updates of the state (retry into a full ready queue) is     *)
(* split in two operators.                                                 *)
(*                                                                         *)
(* Events are numbered in the order they are published: the number is both *)
(* event_id and created_at.  A type stands for (event_type, market ids),   *)
(* the data merge_key is made of.  The payload is the number of the        *)
(* publication it came from ("ver").                                       *)
(***************************************************************************)
EXTENDS Integers, FiniteSets, SequencesExt

CONSTANTS
  Types,            \* event types, one per (event_type, market) pair
  PriorityOf,       \* priority P0..P3 of each type
  Identified,       \* types that name a market, condition or token
  MaxSize,          \* max_size: capacity of the ready queue
  RetainedMaxSize,  \* retained_max_size: capacity of the retained area
  BatchSize,        \* batch_size of the worker that takes the events
  MaxRetryCount,    \* and its max_retry_count
  MaxEvents         \* bound of the model: number of publications

ASSUME OutboxAssumption ==
  /\ PriorityOf \in [Types -> 0..3]
  /\ Identified \subseteq Types
  /\ MaxSize \in Nat \ {0}
  /\ RetainedMaxSize \in Nat \ {0}
  /\ BatchSize \in Nat \ {0}
  /\ MaxRetryCount \in Nat
  /\ MaxEvents \in Nat

Event(id, t, ver) == [id |-> id, typ |-> t, ver |-> ver, retry |-> 0]

IsCritical(e) == PriorityOf[e.typ] <= 1

\* Mutant: merge_key without the test for critical events.
MergeableAny(e) == e.typ \in Identified

\* Two events of one type merge exactly when merge_key is not None.
Mergeable(e) == PriorityOf[e.typ] >= 2 /\ e.typ \in Identified

\* The order in which retained events are promoted, and the reverse of the
\* order in which they are evicted: (priority, created_at, event_id).
Before(e, f) ==
  \/ PriorityOf[e.typ] < PriorityOf[f.typ]
  \/ PriorityOf[e.typ] = PriorityOf[f.typ] /\ e.id < f.id

\* The elements of a finite set in the order of a relation on it.
InOrder(S, order) ==
  CHOOSE s \in [1..Cardinality(S) -> S] :
    \A i, j \in 1..Cardinality(S) : i < j => <<s[i], s[j]>> \in order

\* That order on the ids of some of the events of a dict.
EventOrder(f, S) == {r \in S \X S : Before(f[r[1]], f[r[2]])}

EmptyOutbox ==
  [ready    |-> <<>>,      \* PriorityQueue of [prio, id], as they were put
   events   |-> <<>>,      \* _events_by_id
   queued   |-> {},        \* _queued_event_ids
   index    |-> <<>>,      \* _merge_index, by type
   retained |-> <<>>,      \* _retained, insertion order abstracted
   dead     |-> {}]        \* _dead_letters

Without(f, x) == [y \in DOMAIN f \ {x} |-> f[y]]

With(f, x, v) == [y \in DOMAIN f \union {x} |-> IF y = x THEN v ELSE f[y]]

HasCapacity(b) == Len(b.ready) < MaxSize

Entry(e) == [prio |-> PriorityOf[e.typ], id |-> e.id]

\* PriorityQueue.put of (priority, next(self._sequence), event_id).
PutReady(q, e) == Append(q, Entry(e))

\* The entry get takes: of the highest priority, the one put first.
FirstOut(q) ==
  CHOOSE i \in DOMAIN q :
    \A j \in DOMAIN q \ {i} :
      q[i].prio < q[j].prio \/ (q[i].prio = q[j].prio /\ i < j)

\* self._events_by_id.get(id) or self._retained.get(id)
Known(b, id) == id \in DOMAIN b.events \/ id \in DOMAIN b.retained

Current(b, id) == IF id \in DOMAIN b.events THEN b.events[id] ELSE b.retained[id]

Indexed(b, e) == IF Mergeable(e) THEN With(b.index, e.typ, e.id) ELSE b.index

Unindexed(b, e) ==
  IF Mergeable(e) /\ e.typ \in DOMAIN b.index /\ b.index[e.typ] = e.id
  THEN Without(b.index, e.typ) ELSE b.index

StorePending(b, e) ==
  [b EXCEPT !.events = With(@, e.id, e),
            !.retained = Without(@, e.id),
            !.index = Indexed(b, e)]

Evictable(b) ==
  {i \in DOMAIN b.retained : ~IsCritical(b.retained[i]) /\ i \notin b.queued}

\* Mutant: a retained area one larger than configured.
EvictedLate(b) ==
  LET over == Cardinality(DOMAIN b.retained) - (RetainedMaxSize + 1)
      can == Evictable(b)
  IN  IF over <= 0 \/ can = {} THEN {}
      ELSE {CHOOSE i \in can : \A j \in can \ {i} : Before(b.retained[j], b.retained[i])}

\* The loop evicts the last event in Before order until the area fits or only
\* critical or queued events are left.
Evicted(b) ==
  LET over == Cardinality(DOMAIN b.retained) - RetainedMaxSize
      can == Evictable(b)
      best == InOrder(can, EventOrder(b.retained, can))
  IN  {best[n] : n \in {m \in 1..Cardinality(can) : m > Cardinality(can) - over}}

EnforceRetainedCapacity(b) ==
  LET out == Evicted(b)
      kept(i) == i \notin out
  IN  [b EXCEPT
        !.retained = [i \in DOMAIN @ \ out |-> @[i]],
        !.events   = [i \in DOMAIN @ \ out |-> @[i]],
        !.index    = [t \in {u \in DOMAIN @ : kept(@[u])} |-> @[t]],
        !.dead     = @ \union {b.retained[i] : i \in out}]

StoreRetained(b, e) ==
  EnforceRetainedCapacity(
    [b EXCEPT !.events = With(@, e.id, e),
              !.retained = With(@, e.id, e),
              !.index = Indexed(b, e)])

\* Mutant: the merged event starts a new series of retries.
MergeForgetsRetries(b, e) ==
  LET old == Current(b, b.index[e.typ])
      new == [e EXCEPT !.id = old.id]
  IN  IF old.id \in b.queued THEN StorePending(b, new) ELSE StoreRetained(b, new)

\* A merged event keeps the identity, age and retry count of the one it
\* replaces and takes the new payload.
Merge(b, e) ==
  LET old == Current(b, b.index[e.typ])
      new == [e EXCEPT !.id = old.id, !.retry = old.retry]
  IN  IF old.id \in b.queued THEN StorePending(b, new) ELSE StoreRetained(b, new)

MergesInto(b, e) ==
  /\ Mergeable(e)
  /\ e.typ \in DOMAIN b.index
  /\ Known(b, b.index[e.typ])

EnqueueReady(b, e) ==
  [b EXCEPT !.ready = PutReady(@, e), !.queued = @ \union {e.id}]

\* put_nowait, the entry point of the event bus sink and the order executor.
\* It puts the id in the ready queue without recording it in queued.
PutNowait(b, e) ==
  IF MergesInto(b, e) THEN Merge(b, e)
  ELSE IF HasCapacity(b) THEN StorePending([b EXCEPT !.ready = PutReady(@, e)], e)
  ELSE StoreRetained(b, e)

\* enqueue / put, the asynchronous entry point.
Enqueue(b, e) ==
  IF MergesInto(b, e) THEN Merge(b, e)
  ELSE IF HasCapacity(b) THEN StorePending(EnqueueReady(b, e), e)
  ELSE StoreRetained(b, e)

\* The retained events, in order, for which the ready queue has the given room.
Promotable(b, room) ==
  LET waiting == DOMAIN b.retained \ b.queued
      moved == IF room < Cardinality(waiting) THEN room ELSE Cardinality(waiting)
  IN  SubSeq(InOrder(waiting, EventOrder(b.retained, waiting)), 1, moved)

\* _enqueue_ready, and out of the retained area, for each of these events.
Promoted(b, moved) ==
  [b EXCEPT !.ready = @ \o [n \in DOMAIN moved |-> Entry(b.retained[moved[n]])],
            !.queued = @ \union ToSet(moved),
            !.retained = [i \in DOMAIN @ \ ToSet(moved) |-> @[i]]]

\* Mutant: promotion leaves the last slot of the ready queue to new events.
PromoteLeavingASlot(b) ==
  IF Len(b.ready) = MaxSize THEN b
  ELSE Promoted(b, Promotable(b, MaxSize - 1 - Len(b.ready)))

\* _promote_retained_best_effort: in order, while the ready queue has room.
Promote(b) == Promoted(b, Promotable(b, MaxSize - Len(b.ready)))

FirstReady(b) == b.ready[FirstOut(b.ready)].id

\* The part of get after the wait: the first entry leaves the ready queue, and
\* is skipped by the caller when no event has its id any more.
PopReady(b) ==
  [b EXCEPT !.ready = RemoveAt(@, FirstOut(@)), !.queued = @ \ {FirstReady(b)}]

Ack(b, id) ==
  LET pending == IF id \in DOMAIN b.events THEN Unindexed(b, b.events[id]) ELSE b.index
  IN  Promote([b EXCEPT !.events = Without(@, id),
                        !.queued = @ \ {id},
                        !.retained = Without(@, id),
                        !.index = pending])

WithRetry(e) == [e EXCEPT !.retry = @ + 1]

\* retry up to the wait for a slot of the ready queue.
RetryStore(b, id) ==
  LET e == WithRetry(Current(b, id))
  IN  IF id \in b.queued THEN StorePending(b, e) ELSE StoreRetained(b, e)

RetryEnqueue(b, e) == [EnqueueReady(b, e) EXCEPT !.retained = Without(@, e.id)]

\* dead_letter removes the event from _events_by_id, or else from _retained.
DeadLetter(b, id) ==
  LET e == WithRetry(Current(b, id))
      live == id \in DOMAIN b.events
  IN  [b EXCEPT !.events = Without(@, id),
                !.retained = IF live THEN @ ELSE Without(@, id),
                !.queued = @ \ {id},
                !.index = Unindexed(b, e),
                !.dead = @ \union {e}]

--------------------------------------------------------------------------------
(* _coalesce_low_priority of the persistence worker, on a batch it has taken: *)
(* the critical events in the order they came, then the last event of each    *)
(* low priority type, oldest first.                                           *)

Kept(s) ==
  {i \in DOMAIN s : IsCritical(s[i]) \/ \A j \in DOMAIN s : j > i => s[j].typ # s[i].typ}

WrittenBefore(s, i, j) ==
  IF IsCritical(s[i]) THEN IsCritical(s[j]) => i < j
  ELSE ~IsCritical(s[j]) /\ s[i].id < s[j].id

WriteOrder(s) == {r \in Kept(s) \X Kept(s) : WrittenBefore(s, r[1], r[2])}

Coalesce(s) ==
  LET order == InOrder(Kept(s), WriteOrder(s))
  IN  [n \in 1..Cardinality(Kept(s)) |-> s[order[n]]]
================================================================================
