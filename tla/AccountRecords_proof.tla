------------------------ MODULE AccountRecords_proof ------------------------
(***************************************************************************)
(* Proofs about AccountRecords, for any orders, sizes of batches, retry    *)
(* limit, writes refused and crashes.  They use what                       *)
(* PersistenceWorker_proof shows of each call of the outbox.               *)
(*                                                                         *)
(* RecordsInv follows an event from the message to the acknowledgement:    *)
(* what the outbox forgets is in the tables, what it gives up has a reason *)
(* for each of its tries, and an order that rests on the exchange and has  *)
(* a row is restored by the next restart.  FollowInv, in the second half,  *)
(* keeps account of the order in which the events of one row are queued,   *)
(* taken, written and settled: without a fault the rows follow the events. *)
(***************************************************************************)
EXTENDS AccountRecords, PersistenceWorker_proof

--------------------------------------------------------------------------------
(* The walk along a sequence. *)

\* What holds at 0, and of a number once it holds of the one before, holds up to n.
LEMMA Walk ==
  ASSUME NEW n \in Nat, NEW B, B \subseteq 0..n, 0 \notin B,
         \A i \in 1..n : i \in B => i - 1 \in B
  PROVE  B = {}
<1>1. SUFFICES ASSUME B # {}  PROVE FALSE
  OBVIOUS
<1> DEFINE R == {r \in B \X B : r[2] < r[1]}
<1>2. PICK i \in B : \A j \in B \ {i} : <<j, i>> \in R
  <2>1. IsFiniteSet(B)
    <3>1. 0 \in Int /\ n \in Int
      OBVIOUS
    <3>2. IsFiniteSet(0..n)
      BY <3>1, FS_Interval
    <3>3. QED
      BY <3>2, FS_Subset
  <2>2. Total(B, R) /\ Transitive(B, R)
    BY DEF Total, Transitive
  <2> HIDE DEF R
  <2>3. QED
    BY <1>1, <2>1, <2>2, Greatest
<1>3. i \in 1..n /\ i - 1 \in B
  OBVIOUS
<1>4. <<i - 1, i>> \in R
  BY <1>2, <1>3
<1>5. QED
  BY <1>3, <1>4

(* The inductive invariant of the records. *)

\* What a user or market event publishes.
Publication ==
  [typ : RecordTypes,
   subject : Orders \union AllTrades \union {"token", "account", "market"},
   value : OrderStatuses \union {"confirmed", "eligible", "paused", Absent} \union Nat]

\* Subject and value are those of an event of the type.
Told(d) ==
  /\ d.typ = "order" => d.subject \in Orders /\ d.value \in OrderStatuses
  /\ d.typ = "fill" => d.subject \in AllTrades /\ d.value \in {"matched", "confirmed"}
  /\ d.typ = "position" => d.subject = "token" /\ d.value \in Nat
  /\ d.typ = "discovered" => d.value = "eligible"
  /\ d.typ = "filtered_out" => d.value \in {"paused", Absent}
  /\ d.typ = "resolved" => d.value = Absent

\* The log.
LogOK(L) ==
  /\ L \in Seq(Publication)
  /\ Len(L) <= MaxEvents
  /\ \A n \in DOMAIN L : Told(L[n])

\* The publications, as the outbox sees them.
TypesOf(L) == [n \in DOMAIN L |-> L[n].typ]

\* The payload of e is a publication of its type, and a critical event has its own.
Carries(L, e) ==
  /\ e.ver \in DOMAIN L
  /\ L[e.ver].typ = e.typ
  /\ IsCritical(e) => e.ver = e.id

\* Another event has the row of e's order.
Beaten(L, R, e) == e.typ = "order" /\ R.order[L[e.ver].subject].key \notin {0, e.id}

\* n tries of e failed, and not for nothing.
Excused(L, R, f, e, n) == e.typ = "balance" \/ f >= n \/ Beaten(L, R, e)

\* A pending event has a payload, and an excuse for each of its tries.
EventOK(L, R, f, e) == Carries(L, e) /\ Excused(L, R, f, e, e.retry)

\* A dead letter had all its tries.
GivenUp(L, R, f, e) ==
  /\ e.retry = MaxRetryCount + 1
  /\ e.ver \in DOMAIN L
  /\ L[e.ver].typ = e.typ
  /\ Excused(L, R, f, e, e.retry)

\* The outbox, between two steps: no critical event waits for room.
BoxSound(b, L, R, f) ==
  /\ BoxOK(b, TypesOf(L))
  /\ CritBox(b, TypesOf(L))
  /\ \A i \in DOMAIN b.events : EventOK(L, R, f, b.events[i])
  /\ \A i \in DOMAIN b.retained : EventOK(L, R, f, b.retained[i]) /\ ~IsCritical(b.retained[i])
  /\ \A e \in b.dead : GivenUp(L, R, f, e)

\* There is room for what the worker may put back: n events of its batch.
Roomy(b, n, L) == Len(b.ready) + Cardinality(DOMAIN b.retained) + n <= Len(L)

\* The events of s from place m on are in the worker's hands and pending.
InHand(s, m, b, L, R, f) ==
  \A j \in DOMAIN s : j > m =>
    /\ WellFormed(TypesOf(L), s[j])
    /\ EventOK(L, R, f, s[j])
    /\ s[j].id \in DOMAIN b.events
    /\ b.events[s[j].id].retry = s[j].retry
    /\ IsCritical(s[j]) => ~InReady(b, s[j].id)

\* No event is twice in s.
Distinct(s) == \A j, k \in DOMAIN s : s[j].id = s[k].id => j = k

\* The row event e has in the table of kind k.
HasRow(k, e, L, R) ==
  /\ k = "audit" => e.id \in R.audit
  /\ k = "outbox" => e.id \in R.outbox
  /\ k = "order" => R.order[L[e.ver].subject].key = e.id
  /\ k = "fill" => R.fill[L[e.ver].subject] # Absent
  /\ k = "position" => R.position # NoPosition
  /\ k = "market" => R.market # Absent

\* The kinds of KindOrder.
RowKinds == {"audit", "market", "order", "fill", "position", "outbox"}

\* The batch, the kinds of it already written and what failed of them.
WritingOK ==
  /\ writing \in Seq(EventsOf(TypesOf(log)))
  /\ Distinct(writing)
  /\ InHand(writing, 0, outbox, log, rows, failures)
  /\ kind \in 0..7
  /\ kind = 0 => writing = <<>>
  /\ \A j \in DOMAIN writing, k \in RowKinds :
       <<writing[j].id, k>> \in failed =>
         Excused(log, rows, failures, writing[j], writing[j].retry + 1)
  /\ \A j \in DOMAIN writing, l \in 1..6 :
       /\ l < kind
       /\ KindOrder[l] \in KindsOf(writing[j])
       /\ <<writing[j].id, KindOrder[l]>> \notin failed
       => HasRow(KindOrder[l], writing[j], log, rows)

\* The exchange and the store.
ExchangeOK ==
  /\ state \in [Orders -> {"none", "live", "matched", "cancelled"}]
  /\ filled \in [Orders -> Nat]
  /\ \A o \in Orders : /\ filled[o] <= Size[o]
                       /\ state[o] = "none" => filled[o] = 0
                       /\ state[o] = "live" => filled[o] < Size[o]
  /\ SharesHeld \in Nat

\* What the store holds of the orders.
OpenOrders == [Orders -> OpenStatuses \union {Absent}]

\* The store, the registry, the answers awaited and the counters.
StoreOK ==
  /\ account \in [orders : OpenOrders, shares : Nat]
  /\ asked # NotAsked => asked \in [orders : OpenOrders, shares : Nat]
  /\ listing \in {Absent, "eligible", "paused", "resolved"}
  /\ crashes \in Nat /\ failures \in Nat
  /\ ~up => crashes > 0

\* The tables.
Tables ==
  [order : OrderTable, fill : FillTable, position : PositionTable,
   market : MarketTable, audit : AuditTable, outbox : OutboxTable]

\* A row of an order is what one of its events says.
RowsTold ==
  \A o \in Orders : rows.order[o] # NoRow =>
    \E n \in DOMAIN log : /\ log[n].typ = "order" /\ log[n].subject = o
                          /\ rows.order[o].status = log[n].value

\* An order is reported closed when it is cancelled.
OpenTold ==
  \A n \in DOMAIN log :
    log[n].typ = "order" /\ state[log[n].subject] # "cancelled" => log[n].value \in OpenStatuses

\* The inductive invariant: every event acknowledged has its rows.
RecordsInv ==
  /\ ExchangeOK
  /\ StoreOK
  /\ LogOK(log)
  /\ rows \in Tables
  /\ RowsTold
  /\ OpenTold
  /\ BoxSound(outbox, log, rows, failures)
  /\ Roomy(outbox, Len(writing), log)
  /\ WritingOK
  /\ \A a \in acked : a[2] \in DOMAIN log /\ Recorded(a[1], log[a[2]])


--------------------------------------------------------------------------------
(* Types, and the log. *)

\* Only what discovery publishes has a low priority, and merges.
LEMMA RecordPriorities ==
  ASSUME NEW t \in Types
  PROVE  /\ PriorityOf[t] = 0 \/ t \in {"discovered", "filtered_out"}
         /\ t \in {"discovered", "filtered_out"} =>
              PriorityOf[t] \in {2, 3} /\ t \in Identified
BY RecordsAssumption DEF RecordTypes, MarketTypes

\* The log as the sequence of types the outbox lemmas are about.
LEMMA LogFacts ==
  ASSUME NEW L, LogOK(L)
  PROVE  /\ Publications(TypesOf(L))
         /\ Len(L) \in Nat /\ Len(L) <= MaxEvents
         /\ DOMAIN L = 1..Len(L) /\ DOMAIN TypesOf(L) = DOMAIN L
         /\ \A n \in DOMAIN L : TypesOf(L)[n] = L[n].typ /\ L[n].typ \in Types
<1>1. Len(L) \in Nat /\ Len(L) <= MaxEvents /\ DOMAIN L = 1..Len(L)
  BY DEF LogOK
<1>2. \A n \in DOMAIN L : L[n].typ \in Types
  <2>1. \A n \in DOMAIN L : L[n] \in Publication
    BY DEF LogOK
  <2>2. QED
    BY <2>1, RecordsAssumption DEF Publication
<1>3. TypesOf(L) \in [1..Len(L) -> Types]
  BY <1>1, <1>2 DEF TypesOf
<1>4. TypesOf(L) \in Seq(Types) /\ Len(TypesOf(L)) = Len(L)
  BY <1>1, <1>3, EnumerationIsSeq
<1>5. QED
  BY <1>1, <1>2, <1>4 DEF TypesOf, Publications

\* The log K begins with L.
Extends(K, L) == DOMAIN L \subseteq DOMAIN K /\ \A n \in DOMAIN L : K[n] = L[n]

\* One more publication.
LEMMA LogGrows ==
  ASSUME NEW L, LogOK(L), NEW d \in Publication, Told(d), Len(L) < MaxEvents,
         NEW K, K = Append(L, d)
  PROVE  /\ LogOK(K) /\ Len(K) = Len(L) + 1
         /\ DOMAIN K = DOMAIN L \union {Len(L) + 1} /\ Len(L) + 1 \notin DOMAIN L
         /\ Extends(K, L) /\ K[Len(L) + 1] = d
<1>1. L \in Seq(Publication) /\ Len(L) \in Nat /\ DOMAIN L = 1..Len(L)
  BY DEF LogOK
<1> HIDE DEF Publication
<1>2. /\ K \in Seq(Publication) /\ Len(K) = Len(L) + 1
      /\ K[Len(L) + 1] = d /\ \A n \in 1..Len(L) : K[n] = L[n]
  BY <1>1
<1>3. DOMAIN K = 1..(Len(L) + 1)
  BY <1>2
<1>4. Len(K) <= MaxEvents
  BY <1>1, <1>2, OutboxAssumption
<1>5. \A n \in DOMAIN K : Told(K[n])
  BY <1>1, <1>2, <1>3 DEF LogOK
<1>6. QED
  BY <1>1, <1>2, <1>3, <1>4, <1>5 DEF LogOK, Extends

\* What a longer log says of an event, of rows and of tries.
LEMMA StillOK ==
  ASSUME NEW L, NEW K, Extends(K, L), NEW R, NEW f, NEW e
  PROVE  /\ EventOK(L, R, f, e) => EventOK(K, R, f, e)
         /\ GivenUp(L, R, f, e) => GivenUp(K, R, f, e)
         /\ LogOK(L) /\ LogOK(K) /\ WellFormed(TypesOf(L), e) => WellFormed(TypesOf(K), e)
<1>1. ASSUME LogOK(L), LogOK(K), WellFormed(TypesOf(L), e)
      PROVE  WellFormed(TypesOf(K), e)
  <2>1. /\ DOMAIN TypesOf(L) = DOMAIN L /\ DOMAIN TypesOf(K) = DOMAIN K
        /\ \A n \in DOMAIN L : TypesOf(K)[n] = TypesOf(L)[n]
    BY <1>1, LogFacts DEF Extends
  <2>2. QED
    BY <1>1, <2>1 DEF WellFormed, Extends
<1>2. QED
  BY <1>1 DEF EventOK, GivenUp, Carries, Excused, Beaten, Extends

--------------------------------------------------------------------------------
(* The outbox with room for everything. *)

\* r has event e under its id, and the other events of f.
IsWith(r, f, e) ==
  /\ DOMAIN r = DOMAIN f \union {e.id}
  /\ \A i \in DOMAIN r : r[i] = IF i = e.id THEN e ELSE f[i]

\* The index once event e is stored.
IsIndexed(r, b, e) ==
  /\ \A t : t \in DOMAIN r.index <=> t \in DOMAIN b.index \/ (Mergeable(e) /\ t = e.typ)
  /\ \A t \in DOMAIN r.index :
       r.index[t] = IF Mergeable(e) /\ t = e.typ THEN e.id ELSE b.index[t]

\* A retained area within its capacity loses nothing.
LEMMA NothingEvicted ==
  ASSUME NEW p, Publications(p), NEW b, IsBox(b), MapOK(b.retained, p),
         Cardinality(DOMAIN b.retained) <= RetainedMaxSize,
         NEW r, r = EnforceRetainedCapacity(b)
  PROVE  /\ DOMAIN r = DOMAIN b
         /\ r.ready = b.ready /\ r.queued = b.queued /\ r.dead = b.dead
         /\ DOMAIN r.events = DOMAIN b.events
         /\ \A i \in DOMAIN b.events : r.events[i] = b.events[i]
         /\ DOMAIN r.retained = DOMAIN b.retained
         /\ \A i \in DOMAIN b.retained : r.retained[i] = b.retained[i]
         /\ DOMAIN r.index = DOMAIN b.index
         /\ \A t \in DOMAIN b.index : r.index[t] = b.index[t]
<1>1. Evicted(b) = {}
  <2>1. Evictable(b) \subseteq DOMAIN b.retained
    BY DEF Evictable
  <2>2. /\ Cardinality(Evictable(b)) \in Nat /\ Cardinality(DOMAIN b.retained) \in Nat
        /\ RetainedMaxSize \in Nat
    BY <2>1, MapFinite, FS_Subset, FS_CardinalityType, OutboxAssumption
  <2> DEFINE c == Cardinality(Evictable(b))
             over == Cardinality(DOMAIN b.retained) - RetainedMaxSize
             best == InOrder(Evictable(b), EventOrder(b.retained, Evictable(b)))
  <2>3. Evicted(b) = {best[n] : n \in {m \in 1..c : m > c - over}}
    BY DEF Evicted
  <2> HIDE DEF best
  <2>4. {m \in 1..c : m > c - over} = {}
    BY <2>2
  <2> HIDE DEF c, over
  <2>5. QED
    BY <2>3, <2>4
<1> DEFINE out == Evicted(b)
<1>2. /\ DOMAIN r = DOMAIN b
      /\ r.ready = b.ready /\ r.queued = b.queued
      /\ r.dead = b.dead \union {b.retained[i] : i \in out}
      /\ r.retained = [i \in DOMAIN b.retained \ out |-> b.retained[i]]
      /\ r.events = [i \in DOMAIN b.events \ out |-> b.events[i]]
      /\ r.index = [t \in {u \in DOMAIN b.index : b.index[u] \notin out} |-> b.index[t]]
  <2> HIDE DEF out
  <2>1. QED
    BY DEF EnforceRetainedCapacity, IsBox, out
<1>3. QED
  BY <1>1, <1>2

\* The index when an event is stored.
LEMMA IndexedIs ==
  ASSUME NEW b, NEW e, NEW r, r.index = Indexed(b, e)
  PROVE  IsIndexed(r, b, e)
BY DEF IsIndexed, Indexed, With

\* _store_pending,
LEMMA PendingIs ==
  ASSUME NEW b, IsBox(b), NEW e, NEW r, r = StorePending(b, e)
  PROVE  /\ DOMAIN r = DOMAIN b
         /\ r.ready = b.ready /\ r.queued = b.queued /\ r.dead = b.dead
         /\ IsWith(r.events, b.events, e)
         /\ r.retained = Without(b.retained, e.id)
         /\ IsIndexed(r, b, e)
<1>1. /\ DOMAIN r = DOMAIN b
      /\ r.ready = b.ready /\ r.queued = b.queued /\ r.dead = b.dead
      /\ r.events = With(b.events, e.id, e)
      /\ r.retained = Without(b.retained, e.id)
      /\ r.index = Indexed(b, e)
  BY DEF StorePending, IsBox
<1>2. QED
  BY <1>1, IndexedIs DEF IsWith, With

\* and _store_retained.
LEMMA RetainedIs ==
  ASSUME NEW p, Publications(p), NEW b, Shape(b, p), NEW e, WellFormed(p, e),
         Cardinality(DOMAIN b.retained \union {e.id}) <= RetainedMaxSize,
         NEW r, r = StoreRetained(b, e)
  PROVE  /\ DOMAIN r = DOMAIN b
         /\ r.ready = b.ready /\ r.queued = b.queued /\ r.dead = b.dead
         /\ IsWith(r.events, b.events, e)
         /\ IsWith(r.retained, b.retained, e)
         /\ IsIndexed(r, b, e)
<1> DEFINE m == [b EXCEPT !.events = With(@, e.id, e),
                          !.retained = With(@, e.id, e),
                          !.index = Indexed(b, e)]
<1>1. /\ DOMAIN m = DOMAIN b /\ IsBox(m)
      /\ m.ready = b.ready /\ m.queued = b.queued /\ m.dead = b.dead
      /\ m.events = With(b.events, e.id, e)
      /\ m.retained = With(b.retained, e.id, e)
      /\ m.index = Indexed(b, e)
  BY DEF Shape, IsBox
<1>2. r = EnforceRetainedCapacity(m)
  BY DEF StoreRetained
<1> HIDE DEF m
<1>3. MapOK(m.retained, p)
  BY <1>1, MapWith DEF Shape
<1>4. DOMAIN m.retained = DOMAIN b.retained \union {e.id}
  BY <1>1 DEF With
<1>5. /\ DOMAIN r = DOMAIN m
      /\ r.ready = m.ready /\ r.queued = m.queued /\ r.dead = m.dead
      /\ DOMAIN r.events = DOMAIN m.events
      /\ \A i \in DOMAIN m.events : r.events[i] = m.events[i]
      /\ DOMAIN r.retained = DOMAIN m.retained
      /\ \A i \in DOMAIN m.retained : r.retained[i] = m.retained[i]
      /\ DOMAIN r.index = DOMAIN m.index
      /\ \A t \in DOMAIN m.index : r.index[t] = m.index[t]
  BY <1>1, <1>2, <1>3, <1>4, NothingEvicted
<1>6. IsIndexed(r, b, e)
  <2>1. IsIndexed(m, b, e)
    BY <1>1, IndexedIs
  <2>2. QED
    BY <1>5, <2>1 DEF IsIndexed
<1>7. QED
  BY <1>1, <1>5, <1>6 DEF IsWith, With


\* A new event, put behind the others in the ready queue,
IsPut(b, r, e) ==
  /\ r.ready = Append(b.ready, Entry(e))
  /\ r.queued = b.queued /\ r.dead = b.dead
  /\ IsWith(r.events, b.events, e)
  /\ r.retained = Without(b.retained, e.id)
  /\ IsIndexed(r, b, e)

\* or merged into an event of its type, which becomes new.
IsMerged(b, r, e, new) ==
  /\ Mergeable(e)
  /\ new.id \in DOMAIN b.events
  /\ new = [e EXCEPT !.id = new.id, !.retry = b.events[new.id].retry]
  /\ r.ready = b.ready /\ r.queued = b.queued /\ r.dead = b.dead
  /\ IsWith(r.events, b.events, new)
  /\ DOMAIN r.retained \subseteq DOMAIN b.retained \union {new.id}
  /\ \A i \in DOMAIN r.retained : r.retained[i] = IF i = new.id THEN new ELSE b.retained[i]

\* put_nowait of a new event.
LEMMA PutIs ==
  ASSUME NEW p, Publications(p), NEW b, BoxOK(b, p), NEW e, WellFormed(p, e),
         Len(b.ready) < MaxSize, Cardinality(DOMAIN b.retained) < RetainedMaxSize,
         NEW r, r = PutNowait(b, e)
  PROVE  \/ ~MergesInto(b, e) /\ IsPut(b, r, e)
         \/ MergesInto(b, e) /\ \E new : WellFormed(p, new) /\ IsMerged(b, r, e, new)
<1>1. IsBox(b) /\ Shape(b, p)
  BY DEF BoxOK, Shape
<1>2. CASE ~MergesInto(b, e)
  <2> DEFINE m == [b EXCEPT !.ready = PutReady(@, e)]
  <2>1. /\ IsBox(m) /\ m.ready = Append(b.ready, Entry(e))
        /\ m.queued = b.queued /\ m.dead = b.dead /\ m.events = b.events
        /\ m.retained = b.retained /\ m.index = b.index
    BY <1>1 DEF IsBox, PutReady
  <2>2. r = StorePending(m, e)
    BY <1>2 DEF PutNowait, HasCapacity
  <2> HIDE DEF m
  <2>3. /\ r.ready = m.ready /\ r.queued = m.queued /\ r.dead = m.dead
        /\ IsWith(r.events, m.events, e)
        /\ r.retained = Without(m.retained, e.id)
        /\ IsIndexed(r, m, e)
    BY <2>1, <2>2, PendingIs
  <2>4. QED
    BY <1>2, <2>1, <2>3 DEF IsPut, IsIndexed
<1>3. CASE MergesInto(b, e)
  <2> DEFINE o == b.index[e.typ]
             new == [e EXCEPT !.id = o, !.retry = b.events[o].retry]
  <2>1. /\ o \in DOMAIN b.events /\ p[o] = e.typ /\ o \in DOMAIN p /\ Mergeable(e)
    BY <1>1, <1>3 DEF MergesInto, Shape, IndexOK, MapOK
  <2>2. WellFormed(p, b.events[o]) /\ b.events[o].id = o /\ Current(b, o) = b.events[o]
    BY <1>1, <2>1 DEF Shape, MapOK, Current
  <2> HIDE DEF o
  <2>3. WellFormed(p, new) /\ new.id = o /\ new.retry = b.events[o].retry
    BY <2>1, <2>2 DEF WellFormed
  <2>4. r = IF o \in b.queued THEN StorePending(b, new) ELSE StoreRetained(b, new)
    BY <1>3, <2>2 DEF PutNowait, Merge, o
  <2>5. new = [e EXCEPT !.id = new.id, !.retry = b.events[new.id].retry]
    BY <2>3
  <2> HIDE DEF new
  <2>6. CASE o \in b.queued
    <3>1. /\ r.ready = b.ready /\ r.queued = b.queued /\ r.dead = b.dead
          /\ IsWith(r.events, b.events, new)
          /\ r.retained = Without(b.retained, o)
      BY <1>1, <2>3, <2>4, <2>6, PendingIs
    <3>2. IsMerged(b, r, e, new)
      BY <2>1, <2>3, <2>5, <3>1 DEF IsMerged, Without
    <3>3. QED
      BY <1>3, <2>3, <3>2
  <2>7. CASE o \notin b.queued
    <3>1. Cardinality(DOMAIN b.retained \union {new.id}) <= RetainedMaxSize
      <4>1. IsFiniteSet(DOMAIN b.retained) /\ Cardinality(DOMAIN b.retained) \in Nat
        BY <1>1, MapFinite DEF Shape
      <4>2. CASE new.id \in DOMAIN b.retained
        <5>1. DOMAIN b.retained \union {new.id} = DOMAIN b.retained
          BY <4>2
        <5>2. Cardinality(DOMAIN b.retained \union {new.id}) = Cardinality(DOMAIN b.retained)
          BY <5>1
        <5>3. QED
          BY <4>1, <5>2, OutboxAssumption
      <4>3. CASE new.id \notin DOMAIN b.retained
        <5>1. Cardinality(DOMAIN b.retained \union {new.id}) = Cardinality(DOMAIN b.retained) + 1
          BY <4>1, <4>3, FS_AddElement
        <5>2. QED
          BY <4>1, <5>1, OutboxAssumption
      <4>4. QED
        BY <4>2, <4>3
    <3>2. /\ r.ready = b.ready /\ r.queued = b.queued /\ r.dead = b.dead
          /\ IsWith(r.events, b.events, new)
          /\ IsWith(r.retained, b.retained, new)
      BY <1>1, <2>3, <2>4, <2>7, <3>1, RetainedIs
    <3>3. IsMerged(b, r, e, new)
      BY <2>1, <2>3, <2>5, <3>2 DEF IsMerged, IsWith
    <3>4. QED
      BY <1>3, <2>3, <3>3
  <2>8. QED
    BY <2>6, <2>7
<1>4. QED
  BY <1>2, <1>3

\* An entry put behind the others.
LEMMA AppendReady ==
  ASSUME NEW p, NEW b, ReadyOK(b, p), NEW e, WellFormed(p, e), e.typ \in Types,
         NEW r, r.ready = Append(b.ready, Entry(e))
  PROVE  /\ Len(r.ready) = Len(b.ready) + 1 /\ Len(b.ready) \in Nat
         /\ DOMAIN b.ready = 1..Len(b.ready)
         /\ DOMAIN r.ready = 1..(Len(b.ready) + 1)
         /\ r.ready[Len(b.ready) + 1] = Entry(e)
         /\ \A j \in DOMAIN b.ready : r.ready[j] = b.ready[j]
         /\ \A i : InReady(r, i) <=> InReady(b, i) \/ i = e.id
<1> DEFINE T == [prio : 0..3, id : DOMAIN p]
           q == b.ready
           x == Entry(e)
<1>1. q \in Seq(T) /\ x \in T /\ x.id = e.id
  BY OutboxAssumption DEF ReadyOK, WellFormed, Entry
<1> HIDE DEF T, x, q
<1>2. /\ Len(q) \in Nat /\ DOMAIN q = 1..Len(q)
      /\ Len(Append(q, x)) = Len(q) + 1
      /\ DOMAIN Append(q, x) = 1..(Len(q) + 1)
      /\ Append(q, x)[Len(q) + 1] = x
      /\ \A j \in 1..Len(q) : Append(q, x)[j] = q[j]
  BY <1>1
<1>3. r.ready = Append(q, x)
  BY DEF q, x
<1>4. \A j \in DOMAIN r.ready : j \in DOMAIN q \/ j = Len(q) + 1
  BY <1>2, <1>3
<1>5. \A i : InReady(r, i) <=> InReady(b, i) \/ i = e.id
  BY <1>1, <1>2, <1>3, <1>4 DEF InReady, q
<1>6. QED
  BY <1>2, <1>3, <1>5 DEF q, x

\* What is known of the outbox and of the worker's batch s, of which m events
\* are settled, all told.
Sound(b, s, m, L, R, f) ==
  /\ BoxSound(b, L, R, f)
  /\ InHand(s, m, b, L, R, f)

\* Publication d follows the log L, and K is what it becomes.
OneMore(L, d, K) ==
  LogOK(L) /\ d \in Publication /\ Told(d) /\ Len(L) < MaxEvents /\ K = Append(L, d)

\* A publication.
LEMMA PutSound ==
  ASSUME NEW L, NEW d, NEW K, OneMore(L, d, K), NEW R, NEW f \in Nat, NEW n \in Nat, NEW m, NEW s, NEW b,
         Sound(b, s, m, L, R, f), Roomy(b, n, L),
         NEW e, e = Event(Len(L) + 1, d.typ, Len(L) + 1), NEW r, r = PutNowait(b, e)
  PROVE  /\ Sound(r, s, m, K, R, f) /\ Roomy(r, n, K)
         /\ \/ ~MergesInto(b, e) /\ IsPut(b, r, e)
            \/ MergesInto(b, e) /\ \E new : IsMerged(b, r, e, new)
<1> DEFINE p == TypesOf(L)
           q == TypesOf(K)
<1>1. /\ LogOK(K) /\ Len(K) = Len(L) + 1
      /\ DOMAIN K = DOMAIN L \union {e.id} /\ e.id \notin DOMAIN L
      /\ Extends(K, L) /\ K[e.id] = d
  BY LogGrows DEF OneMore, Event
<1>0. LogOK(L) /\ Len(L) < MaxEvents
  BY DEF OneMore
<1>2. /\ Publications(p) /\ DOMAIN p = DOMAIN L /\ Len(L) \in Nat
      /\ \A i \in DOMAIN L : p[i] = L[i].typ /\ L[i].typ \in Types
      /\ Publications(q) /\ DOMAIN q = DOMAIN K /\ DOMAIN K = 1..Len(K)
      /\ \A i \in DOMAIN K : q[i] = K[i].typ /\ K[i].typ \in Types
  BY <1>0, <1>1, LogFacts
<1>3. WellFormed(q, e) /\ e.retry = 0 /\ e.ver = e.id /\ e.typ = d.typ
  BY <1>1, <1>2, OutboxAssumption DEF WellFormed, Event, Ids, LogOK
<1> HIDE DEF p, q
<1>4. /\ BoxOK(b, q)
      /\ e.id \notin DOMAIN b.events /\ e.id \notin DOMAIN b.retained /\ e.id \notin b.queued
      /\ ~InReady(b, e.id) /\ \A x \in b.dead : x.id # e.id
      /\ \A i \in DOMAIN q : Critical(q, i) /\ i # e.id => OnePlace(b, i)
  <2>1. BoxOK(b, p) /\ CritBox(b, p)
    BY DEF Sound, BoxSound, p
  <2>2. DOMAIN q = DOMAIN p \union {e.id} /\ e.id \notin DOMAIN p
    BY <1>1, <1>2
  <2>3. \A i \in DOMAIN p : q[i] = p[i] /\ (Critical(q, i) <=> Critical(p, i))
    BY <1>1, <1>2 DEF Extends, Critical
  <2>4. /\ BoxOK(b, q)
        /\ e.id \notin DOMAIN b.events /\ e.id \notin DOMAIN b.retained /\ e.id \notin b.queued
        /\ ~InReady(b, e.id) /\ \A x \in b.dead : x.id # e.id
        /\ CritBox(b, p) => \A i \in DOMAIN q : Critical(q, i) /\ i # e.id => OnePlace(b, i)
    BY <2>1, <2>2, <2>3, GrownBox
  <2>5. QED
    BY <2>1, <2>4
<1>5. /\ Len(b.ready) \in Nat /\ Cardinality(DOMAIN b.retained) \in Nat
      /\ IsFiniteSet(DOMAIN b.retained)
  BY <1>2, <1>4, MapFinite, ReadyFacts DEF BoxOK, Shape
<1>6. Len(b.ready) < MaxSize /\ Cardinality(DOMAIN b.retained) < RetainedMaxSize
  BY <1>0, <1>2, <1>5, OutboxAssumption, RecordsAssumption DEF Roomy
<1>7. BoxOK(r, q) /\ CritBox(r, q)
  BY <1>2, <1>3, <1>4, PublishFacts
<1>8. \/ ~MergesInto(b, e) /\ IsPut(b, r, e)
      \/ MergesInto(b, e) /\ \E new : WellFormed(q, new) /\ IsMerged(b, r, e, new)
  BY <1>2, <1>3, <1>4, <1>6, PutIs
<1>9. \A x : /\ EventOK(L, R, f, x) => EventOK(K, R, f, x)
             /\ GivenUp(L, R, f, x) => GivenUp(K, R, f, x)
             /\ WellFormed(p, x) => WellFormed(q, x)
  BY <1>0, <1>1, StillOK DEF p, q
<1>10. /\ \A i \in DOMAIN b.events : EventOK(K, R, f, b.events[i])
       /\ \A i \in DOMAIN b.retained :
            EventOK(K, R, f, b.retained[i]) /\ ~IsCritical(b.retained[i])
       /\ \A x \in b.dead : GivenUp(K, R, f, x)
       /\ InHand(s, m, b, L, R, f)
  BY <1>9 DEF Sound, BoxSound
<1>11. CASE ~MergesInto(b, e) /\ IsPut(b, r, e)
  <2>1. EventOK(K, R, f, e)
    BY <1>1, <1>3 DEF EventOK, Carries, Excused
  <2>2. /\ Len(r.ready) = Len(b.ready) + 1
        /\ \A i : InReady(r, i) <=> InReady(b, i) \/ i = e.id
    <3>1. ReadyOK(b, q) /\ e.typ \in Types /\ r.ready = Append(b.ready, Entry(e))
      BY <1>3, <1>4, <1>11 DEF IsPut, BoxOK, Shape, WellFormed
    <3>2. QED
      BY <1>3, <3>1, AppendReady
  <2>3. IsWith(r.events, b.events, e) /\ r.dead = b.dead
    BY <1>11 DEF IsPut
  <2>4. /\ DOMAIN r.retained = DOMAIN b.retained
        /\ \A i \in DOMAIN r.retained : r.retained[i] = b.retained[i]
    BY <1>4, <1>11 DEF IsPut, Without
  <2>5. BoxSound(r, K, R, f)
    BY <1>7, <1>10, <2>1, <2>3, <2>4 DEF BoxSound, IsWith, q
  <2>6. InHand(s, m, r, K, R, f)
    <3>1. SUFFICES ASSUME NEW j \in DOMAIN s, j > m
                   PROVE  /\ WellFormed(q, s[j])
                          /\ EventOK(K, R, f, s[j])
                          /\ s[j].id \in DOMAIN r.events
                          /\ r.events[s[j].id].retry = s[j].retry
                          /\ IsCritical(s[j]) => ~InReady(r, s[j].id)
      BY DEF InHand, q
    <3>2. /\ WellFormed(p, s[j]) /\ EventOK(L, R, f, s[j])
          /\ s[j].id \in DOMAIN b.events /\ b.events[s[j].id].retry = s[j].retry
          /\ IsCritical(s[j]) => ~InReady(b, s[j].id)
      BY <1>10, <3>1 DEF InHand, p
    <3>3. s[j].id # e.id
      BY <1>4, <3>2
    <3>4. QED
      BY <1>9, <2>2, <2>3, <3>2, <3>3 DEF IsWith
  <2>7. Roomy(r, n, K)
    <3>1. Cardinality(DOMAIN r.retained) = Cardinality(DOMAIN b.retained)
      BY <2>4
    <3>2. Len(b.ready) + Cardinality(DOMAIN b.retained) + n <= Len(L)
      BY DEF Roomy
    <3>3. Len(r.ready) + Cardinality(DOMAIN r.retained) + n <= Len(K)
      BY <1>1, <1>2, <1>5, <2>2, <3>1, <3>2
    <3>4. QED
      BY <3>3 DEF Roomy
  <2>8. QED
    BY <1>11, <2>5, <2>6, <2>7 DEF Sound
<1>12. CASE MergesInto(b, e) /\ \E new : WellFormed(q, new) /\ IsMerged(b, r, e, new)
  <2>1. PICK new : WellFormed(q, new) /\ IsMerged(b, r, e, new)
    BY <1>12
  <2>2. /\ new.id \in DOMAIN b.events /\ new.typ = e.typ /\ new.ver = e.ver
        /\ new.retry = b.events[new.id].retry
        /\ PriorityOf[e.typ] >= 2 /\ e.typ \in Types
    BY <1>3, <2>1 DEF IsMerged, Mergeable, WellFormed
  <2>3. EventOK(K, R, f, new)
    <3>1. e.typ \in {"discovered", "filtered_out"} /\ PriorityOf[e.typ] \in {2, 3}
      BY <2>2, RecordPriorities
    <3>2. Carries(K, new)
      BY <1>1, <1>3, <2>2, <3>1 DEF Carries, IsCritical
    <3>3. EventOK(K, R, f, b.events[new.id]) /\ b.events[new.id].typ = new.typ
      <4>1. MapOK(b.events, q)
        BY <1>4 DEF BoxOK, Shape
      <4>2. WellFormed(q, b.events[new.id]) /\ b.events[new.id].id = new.id
        BY <2>2, <4>1 DEF MapOK
      <4>3. b.events[new.id].typ = new.typ
        BY <2>1, <4>2 DEF WellFormed
      <4>4. QED
        BY <1>10, <2>2, <4>3
    <3>4. f >= new.retry
      BY <2>2, <3>1, <3>3 DEF EventOK, Excused, Beaten
    <3>5. QED
      BY <3>2, <3>4 DEF EventOK, Excused
  <2>4. ~IsCritical(new)
    BY <2>2, RecordPriorities DEF IsCritical
  <2>5. BoxSound(r, K, R, f)
    BY <1>7, <1>10, <2>1, <2>3, <2>4 DEF BoxSound, IsMerged, IsWith, q
  <2>6. InHand(s, m, r, K, R, f)
    <3>1. SUFFICES ASSUME NEW j \in DOMAIN s, j > m
                   PROVE  /\ WellFormed(q, s[j])
                          /\ EventOK(K, R, f, s[j])
                          /\ s[j].id \in DOMAIN r.events
                          /\ r.events[s[j].id].retry = s[j].retry
                          /\ IsCritical(s[j]) => ~InReady(r, s[j].id)
      BY DEF InHand, q
    <3>2. /\ WellFormed(p, s[j]) /\ EventOK(L, R, f, s[j])
          /\ s[j].id \in DOMAIN b.events /\ b.events[s[j].id].retry = s[j].retry
          /\ IsCritical(s[j]) => ~InReady(b, s[j].id)
      BY <1>10, <3>1 DEF InHand, p
    <3>3. InReady(r, s[j].id) <=> InReady(b, s[j].id)
      BY <2>1 DEF InReady, IsMerged
    <3>4. QED
      BY <1>9, <2>1, <2>2, <3>2, <3>3 DEF IsMerged, IsWith
  <2>7. Roomy(r, n, K)
    <3>1. /\ IsFiniteSet(DOMAIN b.retained \union {new.id})
          /\ Cardinality(DOMAIN b.retained \union {new.id}) <= Cardinality(DOMAIN b.retained) + 1
      <4>1. CASE new.id \in DOMAIN b.retained
        <5>1. DOMAIN b.retained \union {new.id} = DOMAIN b.retained
          BY <4>1
        <5>2. Cardinality(DOMAIN b.retained \union {new.id}) = Cardinality(DOMAIN b.retained)
          BY <5>1
        <5>3. IsFiniteSet(DOMAIN b.retained \union {new.id})
          BY <1>5, <5>1
        <5>4. Cardinality(DOMAIN b.retained) <= Cardinality(DOMAIN b.retained) + 1
          BY <1>5
        <5>5. QED
          BY <5>2, <5>3, <5>4
      <4>2. CASE new.id \notin DOMAIN b.retained
        <5>1. /\ Cardinality(DOMAIN b.retained \union {new.id}) = Cardinality(DOMAIN b.retained) + 1
              /\ IsFiniteSet(DOMAIN b.retained \union {new.id})
          BY <1>5, <4>2, FS_AddElement
        <5>2. QED
          BY <1>5, <5>1
      <4>3. QED
        BY <4>1, <4>2
    <3>2. /\ Cardinality(DOMAIN r.retained) <= Cardinality(DOMAIN b.retained \union {new.id})
          /\ Cardinality(DOMAIN r.retained) \in Nat
          /\ Cardinality(DOMAIN b.retained \union {new.id}) \in Nat
      BY <2>1, <3>1, FS_Subset, FS_CardinalityType DEF IsMerged
    <3>3. r.ready = b.ready
      BY <2>1 DEF IsMerged
    <3>4. QED
      BY <1>1, <1>2, <1>5, <3>1, <3>2, <3>3 DEF Roomy
  <2>8. QED
    BY <1>12, <2>1, <2>5, <2>6, <2>7 DEF Sound
<1>13. QED
  BY <1>8, <1>11, <1>12


\* The puts of a publication, one after the other.
Puts(b, N, events, f, n) ==
  f = [i \in 0..n |-> IF i = 0 THEN b ELSE Put(f[i - 1], N + i, events[i].typ)]

\* Its steps and its result.
PutRun(b, N, events, f) ==
  /\ f[0] = b
  /\ \A i \in 1..Len(events) : f[i] = Put(f[i - 1], N + i, events[i].typ)
  /\ PutAll(b, N, events) = f[Len(events)]

\* There is such a run, and it ends with what PutAll returns.
LEMMA PutAllRun ==
  ASSUME NEW b, NEW N, NEW events, Len(events) \in Nat
  PROVE  \E f : PutRun(b, N, events, f)
<1> DEFINE n == Len(events)
<1>0. n \in Nat
  OBVIOUS
<1> HIDE DEF n
<1> DEFINE B == {i \in 0..n : ~\E f : Puts(b, N, events, f, i)}
<1>1. 0 \notin B
  <2>1. Puts(b, N, events, [i \in 0..0 |-> b], 0)
    BY DEF Puts
  <2>2. QED
    BY <2>1
<1>2. ASSUME NEW k \in 1..n, k \in B, k - 1 \notin B
      PROVE  FALSE
  <2>0. k - 1 \in 0..n
    BY <1>0
  <2>1. PICK f : Puts(b, N, events, f, k - 1)
    BY <1>2, <2>0
  <2> DEFINE g == [i \in 0..k |-> IF i = k THEN Put(f[k - 1], N + k, events[k].typ) ELSE f[i]]
  <2>2. \A i \in 0..k - 1 : f[i] = IF i = 0 THEN b ELSE Put(f[i - 1], N + i, events[i].typ)
    BY <2>1 DEF Puts
  <2>3. ASSUME NEW i \in 0..k
        PROVE  g[i] = IF i = 0 THEN b ELSE Put(g[i - 1], N + i, events[i].typ)
    <3>1. CASE i = k
      <4>1. g[i] = Put(f[k - 1], N + k, events[k].typ) /\ g[k - 1] = f[k - 1]
        BY <3>1
      <4>2. QED
        BY <3>1, <4>1
    <3>2. CASE i # k
      <4>1. i \in 0..k - 1 /\ (i # 0 => i - 1 \in 0..k /\ i - 1 # k)
        BY <3>2
      <4>2. g[i] = f[i] /\ (i # 0 => g[i - 1] = f[i - 1])
        BY <3>2, <4>1
      <4>3. QED
        BY <2>2, <4>1, <4>2
    <3>3. QED
      BY <3>1, <3>2
  <2>4. Puts(b, N, events, g, k)
    <3>1. g = [i \in 0..k |-> g[i]]
      OBVIOUS
    <3> HIDE DEF g
    <3>2. QED
      BY <2>3, <3>1 DEF Puts
  <2>5. QED
    BY <1>2, <2>4
<1>3. n \notin B
  <2>1. B \subseteq 0..n
    OBVIOUS
  <2>0. n \in 0..n
    BY <1>0
  <2> HIDE DEF B
  <2>2. B = {}
    BY <1>0, <1>1, <1>2, <2>1, Walk
  <2>3. QED
    BY <2>0, <2>2
<1>4. \E f : Puts(b, N, events, f, n)
  BY <1>0, <1>3
<1>5. PICK f : Puts(b, N, events, f, n) /\ PutAll(b, N, events) = f[n]
  <2> DEFINE g == CHOOSE f : Puts(b, N, events, f, n)
  <2>1. Puts(b, N, events, g, n)
    BY <1>4
  <2>2. PutAll(b, N, events) = g[n]
    BY DEF PutAll, Puts, n
  <2>3. QED
    BY <2>1, <2>2
<1>6. QED
  BY <1>0, <1>5 DEF Puts, PutRun, n


\* The first n publications of a log.
First(L, n) == SubSeq(L, 1, n)

\* The events follow the log L, and K is what it becomes.
Publishes(L, events, K) ==
  /\ LogOK(L) /\ events \in Seq(Publication) /\ \A i \in DOMAIN events : Told(events[i])
  /\ Len(L) + Len(events) <= MaxEvents
  /\ K = L \o events

\* A log grows one publication after the other.
LEMMA LogPrefixes ==
  ASSUME NEW L, NEW events, NEW K, Publishes(L, events, K)
  PROVE  /\ LogOK(K) /\ Extends(K, L) /\ Len(K) = Len(L) + Len(events)
         /\ Len(events) \in Nat /\ Len(L) \in Nat /\ DOMAIN events = 1..Len(events)
         /\ DOMAIN L = 1..Len(L) /\ DOMAIN K = 1..(Len(L) + Len(events))
         /\ \A i \in DOMAIN events : K[Len(L) + i] = events[i]
         /\ First(K, Len(L)) = L /\ First(K, Len(L) + Len(events)) = K
         /\ \A i \in DOMAIN events :
              /\ First(K, Len(L) + i) = Append(First(K, Len(L) + i - 1), events[i])
              /\ LogOK(First(K, Len(L) + i - 1)) /\ Len(First(K, Len(L) + i - 1)) = Len(L) + i - 1
<1>0. /\ LogOK(L) /\ events \in Seq(Publication) /\ K = L \o events
      /\ Len(L) + Len(events) <= MaxEvents /\ \A i \in DOMAIN events : Told(events[i])
  BY DEF Publishes
<1>1. L \in Seq(Publication) /\ Len(L) \in Nat /\ Len(events) \in Nat /\ DOMAIN L = 1..Len(L)
      /\ \A n \in DOMAIN L : L[n] \in Publication /\ Told(L[n])
  <2>1. L \in Seq(Publication) /\ \A n \in DOMAIN L : Told(L[n])
    BY <1>0 DEF LogOK
  <2>2. Len(L) \in Nat /\ Len(events) \in Nat /\ DOMAIN L = 1..Len(L)
    BY <1>0, <2>1
  <2>3. \A n \in DOMAIN L : L[n] \in Publication
    BY <2>1
  <2>4. QED
    BY <2>1, <2>2, <2>3
<1>2. /\ K \in Seq(Publication) /\ Len(K) = Len(L) + Len(events)
      /\ DOMAIN K = 1..(Len(L) + Len(events)) /\ DOMAIN events = 1..Len(events)
      /\ \A i \in 1..Len(L) : K[i] = L[i]
      /\ \A i \in 1..Len(events) : K[Len(L) + i] = events[i]
  BY <1>0, <1>1
<1>3. \A n \in DOMAIN K : Told(K[n]) /\ K[n] \in Publication
  <2>1. SUFFICES ASSUME NEW n \in DOMAIN K  PROVE Told(K[n]) /\ K[n] \in Publication
    OBVIOUS
  <2>2. CASE n \in 1..Len(L)
    BY <1>1, <1>2, <2>2
  <2>3. CASE n \notin 1..Len(L)
    <3>1. n - Len(L) \in 1..Len(events) /\ n = Len(L) + (n - Len(L))
      BY <1>1, <1>2, <2>3
    <3>2. K[n] = events[n - Len(L)]
      BY <1>2, <3>1
    <3>3. events[n - Len(L)] \in Publication /\ Told(events[n - Len(L)])
      BY <1>0, <1>2, <3>1
    <3>4. QED
      BY <3>2, <3>3
  <2>4. QED
    BY <2>2, <2>3
<1>4. \A n \in 0..Len(K) : /\ First(K, n) \in Seq(Publication) /\ Len(First(K, n)) = n
                           /\ DOMAIN First(K, n) = 1..n
                           /\ \A j \in 1..n : First(K, n)[j] = K[j]
  BY <1>1, <1>2 DEF First
<1>5. \A n \in 0..Len(K) : LogOK(First(K, n))
  <2>1. SUFFICES ASSUME NEW n \in 0..Len(K)  PROVE LogOK(First(K, n))
    OBVIOUS
  <2>2. /\ First(K, n) \in Seq(Publication) /\ Len(First(K, n)) = n
        /\ DOMAIN First(K, n) = 1..n /\ \A j \in 1..n : First(K, n)[j] = K[j]
    BY <1>4
  <2>3. n <= MaxEvents
    BY <1>0, <1>1, <1>2, OutboxAssumption
  <2>4. \A j \in 1..n : Told(First(K, n)[j])
    <3>1. \A j \in 1..n : j \in DOMAIN K
      BY <1>1, <1>2
    <3>2. QED
      BY <1>3, <2>2, <3>1
  <2>5. QED
    BY <2>2, <2>3, <2>4 DEF LogOK
<1>6. First(K, Len(L)) = L
  <2>1. Len(L) \in 0..Len(K)
    BY <1>1, <1>2
  <2>2. /\ First(K, Len(L)) \in Seq(Publication) /\ Len(First(K, Len(L))) = Len(L)
        /\ \A j \in 1..Len(L) : First(K, Len(L))[j] = L[j]
    BY <1>2, <1>4, <2>1
  <2>3. QED
    BY <1>1, <2>2, SeqEqual
<1>7. First(K, Len(K)) = K
  <2>1. Len(K) \in 0..Len(K)
    BY <1>1, <1>2
  <2>2. /\ First(K, Len(K)) \in Seq(Publication) /\ Len(First(K, Len(K))) = Len(K)
        /\ \A j \in 1..Len(K) : First(K, Len(K))[j] = K[j]
    BY <1>4, <2>1
  <2>3. QED
    BY <1>2, <2>2, SeqEqual
<1>8. ASSUME NEW i \in DOMAIN events
      PROVE  First(K, Len(L) + i) = Append(First(K, Len(L) + i - 1), events[i])
  <2>1. /\ i \in Nat /\ Len(L) + i - 1 \in 0..Len(K) /\ Len(L) + i \in 0..Len(K)
        /\ K[Len(L) + i] = events[i] /\ events[i] \in Publication
        /\ (Len(L) + i - 1) + 1 = Len(L) + i
    BY <1>1, <1>2
  <2> DEFINE n == Len(L) + i - 1
             u == First(K, n)
             v == First(K, n + 1)
  <2>0. n \in 0..Len(K) /\ n + 1 \in 0..Len(K) /\ n \in Nat /\ K[n + 1] = events[i] /\ n + 1 = Len(L) + i
    BY <1>1, <1>2, <2>1
  <2> HIDE DEF n
  <2>2. /\ u \in Seq(Publication) /\ Len(u) = n /\ \A j \in 1..n : u[j] = K[j]
        /\ v \in Seq(Publication) /\ Len(v) = n + 1 /\ \A j \in 1..(n + 1) : v[j] = K[j]
    BY <1>4, <2>0
  <2> HIDE DEF u, v
  <2>5a. events[i] \in Publication
    BY <2>1
  <2>5b. u \in Seq(Publication) /\ Len(u) = n /\ n \in Nat
    BY <2>0, <2>2
  <2>3. /\ Append(u, events[i]) \in Seq(Publication) /\ Len(Append(u, events[i])) = n + 1
        /\ \A j \in 1..n : Append(u, events[i])[j] = u[j]
        /\ Append(u, events[i])[n + 1] = events[i]
    BY <2>5a, <2>5b
  <2>4. \A j \in 1..(n + 1) : v[j] = Append(u, events[i])[j]
    <3>1. \A j \in 1..(n + 1) : j \in 1..n \/ j = n + 1
      BY <2>0
    <3>2. QED
      BY <2>0, <2>2, <2>3, <3>1
  <2>5. v = Append(u, events[i])
    BY <2>0, <2>2, <2>3, <2>4, SeqEqual
  <2>6. QED
    <3>1. n + 1 = Len(L) + i /\ n = Len(L) + i - 1
      BY <2>0 DEF n
    <3>2. First(K, n + 1) = Append(First(K, n), events[i])
      BY <2>5 DEF u, v
    <3>3. QED
      BY <3>1, <3>2
<1>9. \A i \in DOMAIN events : Len(L) + i - 1 \in 0..Len(K)
  BY <1>1, <1>2
<1>10. LogOK(K)
  <2>1. Len(K) \in 0..Len(K)
    BY <1>1, <1>2
  <2>2. QED
    BY <1>5, <1>7, <2>1
<1>11. Extends(K, L)
  <2>1. \A i \in 1..Len(L) : i \in 1..(Len(L) + Len(events))
    BY <1>1
  <2>2. QED
    BY <1>1, <1>2, <2>1 DEF Extends
<1>12. ASSUME NEW i \in DOMAIN events
       PROVE  LogOK(First(K, Len(L) + i - 1)) /\ Len(First(K, Len(L) + i - 1)) = Len(L) + i - 1
  BY <1>4, <1>5, <1>9, <1>12
<1>13. First(K, Len(L) + Len(events)) = K
  BY <1>2, <1>7
<1>14. QED
  BY <1>1, <1>2, <1>6, <1>8, <1>10, <1>11, <1>12, <1>13


\* A publication as a whole.
LEMMA PutAllSound ==
  ASSUME NEW L, NEW events, NEW K, Publishes(L, events, K),
         NEW R, NEW f \in Nat, NEW n \in Nat, NEW m, NEW s, NEW b,
         Sound(b, s, m, L, R, f), Roomy(b, n, L), NEW r, r = PutAll(b, Len(L), events)
  PROVE  /\ LogOK(K) /\ Extends(K, L)
         /\ Sound(r, s, m, K, R, f) /\ Roomy(r, n, K)
<1>1. /\ LogOK(K) /\ Extends(K, L) /\ Len(events) \in Nat /\ Len(L) \in Nat
      /\ DOMAIN events = 1..Len(events)
      /\ First(K, Len(L)) = L /\ First(K, Len(L) + Len(events)) = K
      /\ \A i \in DOMAIN events :
           /\ First(K, Len(L) + i) = Append(First(K, Len(L) + i - 1), events[i])
           /\ LogOK(First(K, Len(L) + i - 1)) /\ Len(First(K, Len(L) + i - 1)) = Len(L) + i - 1
  BY LogPrefixes
<1>2. Len(events) \in Nat
  BY <1>1
<1>3. \E g : PutRun(b, Len(L), events, g)
  BY <1>2, PutAllRun
<1>4. PICK put : PutRun(b, Len(L), events, put)
  BY <1>3
<1> DEFINE N == Len(events)
           P(i) == First(K, Len(L) + i)
<1>5. /\ N \in Nat /\ P(0) = L /\ P(N) = K
      /\ put[0] = b /\ r = put[N]
      /\ \A i \in 1..N : /\ P(i) = Append(P(i - 1), events[i])
                         /\ LogOK(P(i - 1)) /\ Len(P(i - 1)) = Len(L) + i - 1
                         /\ put[i] = Put(put[i - 1], Len(L) + i, events[i].typ)
                         /\ events[i] \in Publication /\ Told(events[i])
  <2>1. Len(L) + 0 = Len(L) /\ \A i \in 1..N : Len(L) + (i - 1) = Len(L) + i - 1
    BY <1>1
  <2>2. \A i \in 1..N : events[i] \in Publication
    BY <1>1 DEF Publishes
  <2>4. \A i \in 1..N : Told(events[i])
    BY <1>1 DEF Publishes
  <2>3. QED
    BY <1>1, <1>4, <2>1, <2>2, <2>4 DEF PutRun
<1>6. \A i \in 1..N : Len(L) + i - 1 < MaxEvents /\ (Len(L) + i - 1) + 1 = Len(L) + i
  BY <1>1, OutboxAssumption DEF Publishes
<1>7. Sound(put[0], s, m, P(0), R, f) /\ Roomy(put[0], n, P(0))
  BY <1>5
<1> HIDE DEF N, P
<1>8. ASSUME NEW i \in 1..N, Sound(put[i - 1], s, m, P(i - 1), R, f), Roomy(put[i - 1], n, P(i - 1))
      PROVE  Sound(put[i], s, m, P(i), R, f) /\ Roomy(put[i], n, P(i))
  <2>1. OneMore(P(i - 1), events[i], P(i))
    BY <1>5, <1>6 DEF OneMore
  <2>2. put[i] = PutNowait(put[i - 1], Event(Len(P(i - 1)) + 1, events[i].typ, Len(P(i - 1)) + 1))
    BY <1>5, <1>6 DEF Put
  <2>3. QED
    BY <1>8, <2>1, <2>2, PutSound
<1> DEFINE B == {i \in 0..N : ~(Sound(put[i], s, m, P(i), R, f) /\ Roomy(put[i], n, P(i)))}
<1>9. /\ B \subseteq 0..N /\ 0 \notin B
      /\ \A i \in 1..N : i \in B => i - 1 \in B
  <2>1. ASSUME NEW i \in 1..N, i \in B  PROVE i - 1 \in B
    <3>1. i - 1 \in 0..N
      BY <1>5
    <3>2. QED
      BY <1>8, <2>1, <3>1
  <2>2. QED
    BY <1>7, <2>1
<1>10. Sound(put[N], s, m, P(N), R, f) /\ Roomy(put[N], n, P(N))
  <2>1. N \in 0..N
    BY <1>5
  <2> HIDE DEF B
  <2>2. B = {}
    BY <1>5, <1>9, Walk
  <2>3. QED
    BY <2>1, <2>2 DEF B
<1>11. QED
  BY <1>1, <1>5, <1>10


--------------------------------------------------------------------------------
(* Publishing, and what it leaves. *)

\* The parts of the invariant that are about the log, the outbox and the tables.
TablesInv ==
  /\ LogOK(log)
  /\ rows \in Tables
  /\ RowsTold
  /\ BoxSound(outbox, log, rows, failures)
  /\ Roomy(outbox, Len(writing), log)
  /\ WritingOK
  /\ \A a \in acked : a[2] \in DOMAIN log /\ Recorded(a[1], log[a[2]])

\* A publication changes the log and the outbox.
LEMMA PublishedKeeps ==
  ASSUME RecordsInv, NEW events, Publishes(log, events, log'),
         outbox' = PutAll(outbox, Len(log), events),
         UNCHANGED <<rows, worker, acked, failures>>
  PROVE  TablesInv' /\ Extends(log', log)
<1>1. UNCHANGED <<writing, kind, failed, rows, acked, failures>>
  BY DEF worker
<1>2. /\ failures \in Nat /\ LogOK(log) /\ Sound(outbox, writing, 0, log, rows, failures)
      /\ Roomy(outbox, Len(writing), log)
      /\ writing \in Seq(EventsOf(TypesOf(log))) /\ Len(writing) \in Nat
  BY DEF RecordsInv, StoreOK, WritingOK, Sound
<1>3. /\ LogOK(log') /\ Extends(log', log)
      /\ Sound(outbox', writing, 0, log', rows, failures) /\ Roomy(outbox', Len(writing), log')
  BY <1>2, PutAllSound
<1>4. RowsTold'
  BY <1>1, <1>3 DEF RecordsInv, RowsTold, Extends
<1>5. (\A a \in acked : a[2] \in DOMAIN log /\ Recorded(a[1], log[a[2]]))'
  BY <1>1, <1>3 DEF RecordsInv, Recorded, Extends
<1>6. writing \in Seq(EventsOf(TypesOf(log')))
  <2>1. EventsOf(TypesOf(log)) \subseteq EventsOf(TypesOf(log'))
    BY <1>2, <1>3, LogFacts DEF EventsOf, Extends
  <2>2. QED
    BY <1>2, <2>1, SeqMonotonic
<1>7. \A j \in DOMAIN writing :
        /\ writing[j].ver \in DOMAIN log /\ log'[writing[j].ver] = log[writing[j].ver]
        /\ Excused(log', rows, failures, writing[j], writing[j].retry + 1)
             <=> Excused(log, rows, failures, writing[j], writing[j].retry + 1)
        /\ KindsOf(writing[j])' = KindsOf(writing[j])
        /\ \A k : HasRow(k, writing[j], log', rows) <=> HasRow(k, writing[j], log, rows)
  <2>1. SUFFICES ASSUME NEW j \in DOMAIN writing
                 PROVE  /\ writing[j].ver \in DOMAIN log
                        /\ log'[writing[j].ver] = log[writing[j].ver]
                        /\ Excused(log', rows, failures, writing[j], writing[j].retry + 1)
                             <=> Excused(log, rows, failures, writing[j], writing[j].retry + 1)
                        /\ KindsOf(writing[j])' = KindsOf(writing[j])
                        /\ \A k : HasRow(k, writing[j], log', rows)
                                    <=> HasRow(k, writing[j], log, rows)
    OBVIOUS
  <2>2. j \in DOMAIN writing /\ j > 0
    BY <1>2
  <2>3. writing[j].ver \in DOMAIN log
    BY <1>2, <2>2 DEF Sound, InHand, EventOK, Carries
  <2>4. log'[writing[j].ver] = log[writing[j].ver]
    BY <1>3, <2>3 DEF Extends
  <2>5. KindsOf(writing[j])' = KindsOf(writing[j])
    BY <1>1, <2>4 DEF KindsOf, Payload
  <2>6. QED
    BY <2>3, <2>4, <2>5 DEF Excused, Beaten, HasRow
<1>8. WritingOK'
  <2>1. /\ Distinct(writing)' /\ (kind \in 0..7)' /\ (kind = 0 => writing = <<>>)'
    BY <1>1 DEF RecordsInv, WritingOK, Distinct
  <2>2. InHand(writing, 0, outbox, log, rows, failures)'
    BY <1>1, <1>3 DEF Sound
  <2>3. ASSUME NEW j \in DOMAIN writing, NEW k \in RowKinds, <<writing[j].id, k>> \in failed
        PROVE  Excused(log', rows, failures, writing[j], writing[j].retry + 1)
    BY <1>7, <2>3 DEF RecordsInv, WritingOK
  <2>4. ASSUME NEW j \in DOMAIN writing, NEW l \in 1..6, l < kind,
               KindOrder[l] \in KindsOf(writing[j])', <<writing[j].id, KindOrder[l]>> \notin failed
        PROVE  HasRow(KindOrder[l], writing[j], log', rows)
    BY <1>7, <2>4 DEF RecordsInv, WritingOK
  <2>5. QED
    BY <1>1, <1>6, <2>1, <2>2, <2>3, <2>4 DEF WritingOK
<1>9. BoxSound(outbox, log, rows, failures)' /\ Roomy(outbox, Len(writing), log)'
  BY <1>1, <1>3 DEF Sound
<1>10. (rows \in Tables)'
  BY <1>1 DEF RecordsInv
<1>11. QED
  BY <1>3, <1>4, <1>5, <1>8, <1>9, <1>10 DEF TablesInv

\* Without a publication they stay as they are.
LEMMA TablesKeep ==
  ASSUME RecordsInv, UNCHANGED <<log, outbox, rows, worker, acked, failures>>
  PROVE  TablesInv' /\ Extends(log', log)
BY DEF RecordsInv, TablesInv, Extends, worker, RowsTold, WritingOK, Distinct, KindsOf, Payload,
       Recorded, KindOrder, Tables


--------------------------------------------------------------------------------
(* The exchange. *)

\* There are finitely many trades.
LEMMA TradesFinite == IsFiniteSet(AllTrades)
<1>1. \A o \in Orders : IsFiniteSet(TradesOf(o))
  <2>1. SUFFICES ASSUME NEW o \in Orders  PROVE IsFiniteSet(TradesOf(o))
    OBVIOUS
  <2>2. Size[o] \in Nat /\ 1 \in Int /\ Size[o] \in Int
    BY RecordsAssumption
  <2>3. IsFiniteSet(1..Size[o])
    BY <2>2, FS_Interval
  <2> DEFINE I == 1..Size[o]
             g == [n \in I |-> <<o, n>>]
  <2>4. g \in Surjection(I, TradesOf(o))
    BY DEF TradesOf, Surjection
  <2>5. IsFiniteSet(I)
    BY <2>3
  <2> HIDE DEF I, g
  <2>6. QED
    BY <2>4, <2>5, FS_Surjection
<1> DEFINE T == {TradesOf(o) : o \in Orders}
           h == [o \in Orders |-> TradesOf(o)]
<1>2. IsFiniteSet(T)
  <2>1. h \in Surjection(Orders, T)
    BY DEF Surjection
  <2>2. IsFiniteSet(Orders)
    BY RecordsAssumption
  <2> HIDE DEF T, h
  <2>3. QED
    BY <2>1, <2>2, FS_Surjection
<1>3. \A S \in T : IsFiniteSet(S)
  BY <1>1
<1>4. AllTrades = UNION T
  BY DEF AllTrades
<1> HIDE DEF T
<1>5. QED
  BY <1>2, <1>3, <1>4, FS_UNION

\* A trade is an order and the number of the share.
LEMMA TradeIs ==
  ASSUME NEW t \in AllTrades
  PROVE  t[1] \in Orders /\ t[2] \in 1..Size[t[1]] /\ t = <<t[1], t[2]>>
BY DEF AllTrades, TradesOf

\* One more share of an order.
LEMMA HeldGrows ==
  ASSUME ExchangeOK, NEW o \in Orders, filled[o] < Size[o],
         filled' = [filled EXCEPT ![o] = filled[o] + 1],
         Side[o] = "sell" => SharesHeld > 0
  PROVE  SharesHeld' \in Nat
<1> DEFINE Of1(side) == {t \in AllTrades : t[2] <= filled[t[1]] /\ Side[t[1]] = side}
           Of2(side) == {t \in AllTrades : t[2] <= filled'[t[1]] /\ Side[t[1]] = side}
           new == <<o, filled[o] + 1>>
<1>1. /\ filled \in [Orders -> Nat] /\ Size[o] \in Nat /\ SharesHeld \in Nat
      /\ Side[o] \in {"buy", "sell"} /\ filled[o] \in Nat
  BY RecordsAssumption DEF ExchangeOK
<1>2. new \in AllTrades /\ new[1] = o /\ new[2] = filled[o] + 1
  BY <1>1 DEF AllTrades, TradesOf
<1>3. \A side : IsFiniteSet(Of1(side)) /\ IsFiniteSet(Of2(side))
                /\ Cardinality(Of1(side)) \in Nat /\ Cardinality(Of2(side)) \in Nat
  <2>1. \A side : Of1(side) \subseteq AllTrades /\ Of2(side) \subseteq AllTrades
    OBVIOUS
  <2> HIDE DEF Of1, Of2
  <2>2. QED
    BY <2>1, TradesFinite, FS_Subset, FS_CardinalityType
<1>4. \A side : Of2(side) = IF Side[o] = side THEN Of1(side) \union {new} ELSE Of1(side)
  <2>1. SUFFICES ASSUME NEW side, NEW t \in AllTrades
                 PROVE  t \in Of2(side) <=>
                          t \in Of1(side) \/ (Side[o] = side /\ t = new)
    <3>1. new \in AllTrades
      BY <1>2
    <3> HIDE DEF new
    <3>2. QED
      BY <2>1, <3>1
  <2>2. t[1] \in Orders /\ t[2] \in Nat /\ t = <<t[1], t[2]>>
    BY TradeIs, RecordsAssumption
  <2>3. CASE t[1] # o
    <3>1. filled'[t[1]] = filled[t[1]] /\ t # new
      BY <1>1, <1>2, <2>2, <2>3
    <3>2. QED
      BY <3>1
  <2>4. CASE t[1] = o
    <3>1. filled'[t[1]] = filled[o] + 1 /\ (t = new <=> t[2] = filled[o] + 1)
      BY <1>1, <1>2, <2>2, <2>4
    <3>2. t[2] <= filled[o] + 1 <=> t[2] <= filled[o] \/ t[2] = filled[o] + 1
      BY <1>1, <2>2
    <3>3. QED
      BY <2>4, <3>1, <3>2
  <2>5. QED
    BY <2>3, <2>4
<1>5. \A side : new \notin Of1(side)
  BY <1>1, <1>2
<1>6. /\ SharesHeld = Cardinality(Of1("buy")) - Cardinality(Of1("sell"))
      /\ SharesHeld' = Cardinality(Of2("buy")) - Cardinality(Of2("sell"))
  BY DEF SharesHeld
<1> HIDE DEF Of1, Of2, new
<1>7. \A side : Side[o] = side => Cardinality(Of2(side)) = Cardinality(Of1(side)) + 1
  <2>1. \A side : Cardinality(Of1(side) \union {new}) = Cardinality(Of1(side)) + 1
    BY <1>3, <1>5, FS_AddElement
  <2>2. QED
    BY <1>4, <2>1
<1>8. \A side : Side[o] # side => Cardinality(Of2(side)) = Cardinality(Of1(side))
  BY <1>4
<1>9. CASE Side[o] = "buy"
  <2>1. /\ Cardinality(Of2("buy")) = Cardinality(Of1("buy")) + 1
        /\ Cardinality(Of2("sell")) = Cardinality(Of1("sell"))
    BY <1>7, <1>8, <1>9
  <2>2. QED
    BY <1>1, <1>3, <1>6, <2>1
<1>10. CASE Side[o] = "sell"
  <2>1. /\ Cardinality(Of2("sell")) = Cardinality(Of1("sell")) + 1
        /\ Cardinality(Of2("buy")) = Cardinality(Of1("buy"))
    BY <1>7, <1>8, <1>10
  <2>2. QED
    BY <1>1, <1>3, <1>6, <1>10, <2>1
<1>11. QED
  BY <1>1, <1>9, <1>10


\* The status an order message has for its order: one of an open order, unless
\* the order was cancelled.
LEMMA StatusTold ==
  ASSUME NEW o, NEW k \in {"placement", "update", "cancellation"},
         NEW s \in {"live", "matched", "cancelled"}, s = "cancelled" <=> k = "cancellation",
         NEW f \in Nat, NEW n \in Nat, NEW text \in BOOLEAN,
         NEW u, u = UserOrderStatus(OrderMessage(o, k, IF text THEN StatusText(o, s) ELSE NoText, f, n))
  PROVE  u \in OrderStatuses /\ (s # "cancelled" => u \in OpenStatuses)
<1>1. CASE text
  <2>1. CASE s = "cancelled"
    <3>1. u = "cancelled"
      <4>1. u = NormalizeOrderStatus("canceled")
        BY <1>1, <2>1 DEF UserOrderStatus, OrderMessage, StatusText, NoText
      <4>2. QED
        BY <4>1 DEF NormalizeOrderStatus, OrderStatuses, Aliases
    <3>2. QED
      BY <2>1, <3>1 DEF OrderStatuses
  <2>2. CASE s # "cancelled"
    <3>1. u = NormalizeOrderStatus(s)
      BY <1>1, <2>2 DEF UserOrderStatus, OrderMessage, StatusText, NoText
    <3>2. u = s
      BY <3>1 DEF NormalizeOrderStatus, OrderStatuses
    <3>3. QED
      BY <2>2, <3>2 DEF OpenStatuses, OrderStatuses, ClosedStatuses
  <2>3. QED
    BY <2>1, <2>2
<1>2. CASE ~text
  <2>1. u \in {"cancelled", "matched", "partially_filled", "live"}
        /\ (k # "cancellation" => u # "cancelled")
    BY <1>2 DEF UserOrderStatus, OrderMessage, NoText
  <2>2. QED
    BY <2>1 DEF OpenStatuses, OrderStatuses, ClosedStatuses
<1>3. QED
  BY <1>1, <1>2

\* What handling a message publishes and stores.
Handled(result) ==
  /\ result.events \in Seq(Publication) /\ \A i \in DOMAIN result.events : Told(result.events[i])
  /\ result.account \in [orders : OpenOrders, shares : Nat]

\* An event with a subject and a value of its type.
LEMMA EventTold ==
  ASSUME NEW d, \/ \E o \in Orders, u \in OrderStatuses : d = DomainEvent("order", o, u)
                \/ \E t \in AllTrades, u \in {"matched", "confirmed"} : d = DomainEvent("fill", t, u)
                \/ \E n \in Nat : d = DomainEvent("position", "token", n)
                \/ d = DomainEvent("balance", "account", 0)
                \/ d = DomainEvent("discovered", "market", "eligible")
                \/ \E v \in {"paused", Absent} : d = DomainEvent("filtered_out", "market", v)
                \/ d = DomainEvent("resolved", "market", Absent)
  PROVE  d \in Publication /\ Told(d)
<1>1. CASE \E o \in Orders, u \in OrderStatuses : d = DomainEvent("order", o, u)
  <2>1. PICK o \in Orders, u \in OrderStatuses : d = DomainEvent("order", o, u)
    BY <1>1
  <2>2. d.typ = "order" /\ d \in Publication
    BY <2>1 DEF DomainEvent, Publication, Told, RecordTypes, MarketTypes, Absent, OrderStatuses
  <2>3. Told(d)
    BY <2>1, <2>2 DEF Told, DomainEvent
  <2>4. QED
    BY <2>2, <2>3
<1>2. CASE \E t \in AllTrades, u \in {"matched", "confirmed"} : d = DomainEvent("fill", t, u)
  <2>1. PICK t \in AllTrades, u \in {"matched", "confirmed"} : d = DomainEvent("fill", t, u)
    BY <1>2
  <2>2. d.typ = "fill" /\ d \in Publication
    BY <2>1 DEF DomainEvent, Publication, Told, RecordTypes, MarketTypes, Absent, OrderStatuses
  <2>3. Told(d)
    BY <2>1, <2>2 DEF Told, DomainEvent
  <2>4. QED
    BY <2>2, <2>3
<1>3. CASE \E n \in Nat : d = DomainEvent("position", "token", n)
  <2>1. PICK n \in Nat : d = DomainEvent("position", "token", n)
    BY <1>3
  <2>2. d.typ = "position" /\ d \in Publication
    BY <2>1 DEF DomainEvent, Publication, Told, RecordTypes, MarketTypes, Absent, OrderStatuses
  <2>3. Told(d)
    BY <2>1, <2>2 DEF Told, DomainEvent
  <2>4. QED
    BY <2>2, <2>3
<1>4. CASE d = DomainEvent("balance", "account", 0)
  <2>2. d.typ = "balance" /\ d \in Publication
    BY <1>4 DEF DomainEvent, Publication, Told, RecordTypes, MarketTypes, Absent, OrderStatuses
  <2>3. Told(d)
    BY <1>4, <2>2 DEF Told, DomainEvent
  <2>4. QED
    BY <2>2, <2>3
<1>5. CASE d = DomainEvent("discovered", "market", "eligible")
  <2>2. d.typ = "discovered" /\ d \in Publication
    BY <1>5 DEF DomainEvent, Publication, Told, RecordTypes, MarketTypes, Absent, OrderStatuses
  <2>3. Told(d)
    BY <1>5, <2>2 DEF Told, DomainEvent
  <2>4. QED
    BY <2>2, <2>3
<1>6. CASE \E v \in {"paused", Absent} : d = DomainEvent("filtered_out", "market", v)
  <2>1. PICK v \in {"paused", Absent} : d = DomainEvent("filtered_out", "market", v)
    BY <1>6
  <2>2. d.typ = "filtered_out" /\ d \in Publication
    BY <2>1 DEF DomainEvent, Publication, Told, RecordTypes, MarketTypes, Absent, OrderStatuses
  <2>3. Told(d)
    BY <2>1, <2>2 DEF Told, DomainEvent
  <2>4. QED
    BY <2>2, <2>3
<1>7. CASE d = DomainEvent("resolved", "market", Absent)
  <2>2. d.typ = "resolved" /\ d \in Publication
    BY <1>7 DEF DomainEvent, Publication, Told, RecordTypes, MarketTypes, Absent, OrderStatuses
  <2>3. Told(d)
    BY <1>7, <2>2 DEF Told, DomainEvent
  <2>4. QED
    BY <2>2, <2>3
<1>8. QED
  BY <1>1, <1>2, <1>3, <1>4, <1>5, <1>6, <1>7

\* The store after an order event.
LEMMA OrderStored ==
  ASSUME NEW orders \in OpenOrders, NEW o \in Orders, NEW u \in OrderStatuses,
         NEW snapshot, snapshot = [order |-> o, status |-> u]
  PROVE  StoreOrder(orders, snapshot) \in OpenOrders
BY DEF StoreOrder, OpenOrders, OpenStatuses

\* An order message,
LEMMA OrderHandled ==
  ASSUME NEW a \in [orders : OpenOrders, shares : Nat], NEW o \in Orders,
         NEW m, m.order = o, UserOrderStatus(m) \in OrderStatuses,
         NEW result, result = HandleOrder(a, m)
  PROVE  /\ Handled(result)
         /\ result.events = <<DomainEvent("order", o, UserOrderStatus(m))>>
<1> DEFINE d == DomainEvent("order", o, UserOrderStatus(m))
           snapshot == OrderSnapshot(m)
<1>1. d \in Publication /\ Told(d)
  BY EventTold
<1>2. /\ result.events = <<d>>
      /\ result.account = [a EXCEPT !.orders = StoreOrder(a.orders, snapshot)]
  BY DEF HandleOrder, OrderEvent, OrderSnapshot
<1>3. StoreOrder(a.orders, snapshot) \in OpenOrders
  BY OrderStored DEF OrderSnapshot
<1> HIDE DEF d, snapshot
<1>4. result.events \in Seq(Publication) /\ \A i \in DOMAIN result.events : Told(result.events[i])
  BY <1>1, <1>2
<1>5. result.account \in [orders : OpenOrders, shares : Nat]
  BY <1>2, <1>3
<1>6. QED
  BY <1>2, <1>4, <1>5 DEF Handled, d


\* a trade message,
LEMMA FillHandled ==
  ASSUME NEW a \in [orders : OpenOrders, shares : Nat], NEW t \in AllTrades,
         NEW s \in {"matched", "confirmed"}, NEW named \in BOOLEAN,
         NEW result,
         result = HandleFill(a, FillSnapshot(t, IF named THEN t[1] ELSE NoText, Side[t[1]], s))
  PROVE  /\ Handled(result)
         /\ \E n \in Nat :
              result.events =
                IF named THEN <<DomainEvent("order", t[1], "matched"), DomainEvent("fill", t, s),
                                DomainEvent("position", "token", n)>>
                ELSE <<DomainEvent("fill", t, s), DomainEvent("position", "token", n)>>
<1> DEFINE f == FillSnapshot(t, IF named THEN t[1] ELSE NoText, Side[t[1]], s)
           n == ApplyFill(a.shares, f)
<1>1. t[1] \in Orders
  BY TradeIs
<1>2. n \in Nat
  BY DEF ApplyFill, Least0
<1>3. /\ named <=> f.order # NoText
      /\ named => f.order = t[1] /\ OrderFromFill(f) = [order |-> t[1], status |-> "matched"]
      /\ f.trade = t /\ f.status = s
  BY <1>1, RecordsAssumption DEF FillSnapshot, OrderFromFill
<1>4. result.account =
        [a EXCEPT !.shares = n, !.orders = IF named THEN StoreOrder(a.orders, OrderFromFill(f)) ELSE a.orders]
  BY <1>3 DEF HandleFill
<1>5. result.events = (IF named THEN <<OrderEvent(OrderFromFill(f))>> ELSE <<>>)
                        \o <<FillEvent(f), PositionEvent(n)>>
  BY <1>3 DEF HandleFill
<1>6. named => OrderEvent(OrderFromFill(f)) = DomainEvent("order", t[1], "matched")
  BY <1>3 DEF OrderEvent
<1>7. FillEvent(f) = DomainEvent("fill", t, s) /\ PositionEvent(n) = DomainEvent("position", "token", n)
  BY <1>3 DEF FillEvent, PositionEvent
<1>8. named => StoreOrder(a.orders, OrderFromFill(f)) \in OpenOrders
  BY <1>1, <1>3, OrderStored DEF OrderStatuses
<1> DEFINE d1 == DomainEvent("order", t[1], "matched")
           d2 == DomainEvent("fill", t, s)
           d3 == DomainEvent("position", "token", n)
<1>9. /\ d1 \in Publication /\ Told(d1) /\ d2 \in Publication /\ Told(d2)
      /\ d3 \in Publication /\ Told(d3)
  <2>1. "matched" \in OrderStatuses
    BY DEF OrderStatuses
  <2>2. QED
    BY <1>1, <1>2, <2>1, EventTold
<1>10. result.events = IF named THEN <<d1, d2, d3>> ELSE <<d2, d3>>
  <2> HIDE DEF f, n
  <2>1. CASE named
    BY <1>5, <1>6, <1>7, <2>1
  <2>2. CASE ~named
    BY <1>5, <1>7, <2>2
  <2>3. QED
    BY <2>1, <2>2
<1> HIDE DEF d1, d2, d3, f, n
<1>11. result.events \in Seq(Publication) /\ \A i \in DOMAIN result.events : Told(result.events[i])
  <2>1. CASE named
    <3>1. result.events = <<d1, d2, d3>>
      BY <1>10, <2>1
    <3>2. d1 \in Publication /\ d2 \in Publication /\ d3 \in Publication
      BY <1>9
    <3>3. result.events \in Seq(Publication)
      <4>1. <<d1, d2, d3>> \in Seq(Publication)
        BY <3>2
      <4>2. QED
        BY <3>1, <4>1
    <3>4. DOMAIN result.events = 1..3 /\ result.events[1] = d1 /\ result.events[2] = d2 /\ result.events[3] = d3
      BY <3>1
    <3>5. QED
      BY <1>9, <3>3, <3>4
  <2>2. CASE ~named
    <3>1. result.events = <<d2, d3>>
      BY <1>10, <2>2
    <3>2. d2 \in Publication /\ d3 \in Publication
      BY <1>9
    <3>3. result.events \in Seq(Publication)
      <4>1. <<d2, d3>> \in Seq(Publication)
        BY <3>2
      <4>2. QED
        BY <3>1, <4>1
    <3>4. DOMAIN result.events = 1..2 /\ result.events[1] = d2 /\ result.events[2] = d3
      BY <3>1
    <3>5. QED
      BY <1>9, <3>3, <3>4
  <2>3. QED
    BY <2>1, <2>2
<1>12. result.account \in [orders : OpenOrders, shares : Nat]
  BY <1>2, <1>4, <1>8
<1>13. QED
  BY <1>2, <1>10, <1>11, <1>12 DEF Handled, d1, d2, d3

\* a position and a balance.
LEMMA PositionHandled ==
  ASSUME NEW a \in [orders : OpenOrders, shares : Nat], NEW n \in Nat,
         NEW result, result = HandlePosition(a, n)
  PROVE  Handled(result) /\ result.events = <<DomainEvent("position", "token", n)>>
<1> DEFINE d == DomainEvent("position", "token", n)
<1>1. d \in Publication /\ Told(d)
  BY EventTold
<1>2. result.events = <<d>> /\ result.account = [a EXCEPT !.shares = n]
  BY DEF HandlePosition, PositionEvent
<1> HIDE DEF d
<1>3. QED
  BY <1>1, <1>2 DEF Handled, d

\* A balance message.
LEMMA BalanceHandled ==
  ASSUME NEW a \in [orders : OpenOrders, shares : Nat],
         NEW result, result = HandleBalance(a)
  PROVE  Handled(result) /\ result.events = <<DomainEvent("balance", "account", 0)>>
<1> DEFINE d == DomainEvent("balance", "account", 0)
<1>1. d \in Publication /\ Told(d)
  BY EventTold
<1>2. result.events = <<d>> /\ result.account = a
  BY DEF HandleBalance, BalanceEvent
<1> HIDE DEF d
<1>3. QED
  BY <1>1, <1>2 DEF Handled, d


\* A message handled or lost.
LEMMA ProcessedKeeps ==
  ASSUME RecordsInv, NEW result, Handled(result), Processed(result), UNCHANGED Unpublished
  PROVE  /\ TablesInv' /\ StoreOK' /\ Extends(log', log)
         /\ \A n \in DOMAIN log' :
              n \in DOMAIN log \/ \E i \in DOMAIN result.events : log'[n] = result.events[i]
<1>1. UNCHANGED <<up, listing, asked, rows, worker, acked, failures, crashes>>
  BY DEF Unpublished, history
<1>2. CASE up
  <2>1. /\ Publishes(log, result.events, log')
        /\ outbox' = PutAll(outbox, Len(log), result.events)
        /\ account' = result.account
    BY <1>2 DEF Processed, Published, HasRoom, Handled, Publishes, RecordsInv
  <2>2. TablesInv' /\ Extends(log', log)
    BY <1>1, <2>1, PublishedKeeps
  <2>3. StoreOK'
    BY <1>1, <2>1 DEF StoreOK, RecordsInv, Handled
  <2>4. ASSUME NEW n \in DOMAIN log', n \notin DOMAIN log
        PROVE  \E i \in DOMAIN result.events : log'[n] = result.events[i]
    <3>1. /\ Len(log) \in Nat /\ Len(result.events) \in Nat
          /\ DOMAIN result.events = 1..Len(result.events)
          /\ DOMAIN log = 1..Len(log) /\ DOMAIN log' = 1..(Len(log) + Len(result.events))
          /\ \A i \in DOMAIN result.events : log'[Len(log) + i] = result.events[i]
      BY <2>1, LogPrefixes
    <3>2. n - Len(log) \in 1..Len(result.events) /\ Len(log) + (n - Len(log)) = n
      BY <2>4, <3>1
    <3>3. QED
      BY <3>1, <3>2
  <2>5. QED
    BY <2>2, <2>3, <2>4
<1>3. CASE ~up
  <2>1. UNCHANGED <<account, log, outbox>>
    BY <1>3 DEF Processed
  <2>2. TablesInv' /\ Extends(log', log)
    BY <1>1, <2>1, TablesKeep
  <2>3. StoreOK'
    BY <1>1, <2>1 DEF StoreOK, RecordsInv
  <2>4. QED
    BY <2>1, <2>2, <2>3
<1>4. QED
  BY <1>2, <1>3

\* A step that publishes nothing of an order but what is open keeps OpenTold.
LEMMA OpenToldKeeps ==
  ASSUME OpenTold, Extends(log', log), state' = state, NEW events,
         \A n \in DOMAIN log' : n \in DOMAIN log \/ \E i \in DOMAIN events : log'[n] = events[i],
         \A i \in DOMAIN events : events[i].typ = "order" => events[i].value \in OpenStatuses
  PROVE  OpenTold'
BY DEF OpenTold, Extends

\* An order is placed, matched or cancelled.
LEMMA OrderStep ==
  ASSUME RecordsInv, NEW o \in Orders,
         NEW k \in {"placement", "update", "cancellation"},
         NEW s \in {"live", "matched", "cancelled"}, s = "cancelled" <=> k = "cancellation",
         NEW f \in Nat, OrderMoves(o, k, s, f),
         f = filled[o] \/ (f = filled[o] + 1 /\ (Side[o] = "sell" => SharesHeld > 0)),
         filled[o] < Size[o], s = "live" => f < Size[o], state[o] \in {"none", "live"}
  PROVE  RecordsInv'
<1>1. PICK text \in Texts :
        Processed(HandleOrder(account,
          OrderMessage(o, k, IF text THEN StatusText(o, s) ELSE NoText, f, Size[o])))
  BY DEF OrderMoves
<1> DEFINE m == OrderMessage(o, k, IF text THEN StatusText(o, s) ELSE NoText, f, Size[o])
           u == UserOrderStatus(m)
           result == HandleOrder(account, m)
<1>2. u \in OrderStatuses /\ (s # "cancelled" => u \in OpenStatuses)
  <2>1. text \in BOOLEAN /\ Size[o] \in Nat
    BY RecordsAssumption
  <2>2. QED
    BY <2>1, StatusTold
<1>3. Handled(result) /\ result.events = <<DomainEvent("order", o, u)>>
  <2>1. m.order = o
    BY DEF OrderMessage
  <2>2. account \in [orders : OpenOrders, shares : Nat]
    BY DEF RecordsInv, StoreOK
  <2> HIDE DEF m
  <2>3. QED
    BY <1>2, <2>1, <2>2, OrderHandled
<1>4. Processed(result)
  BY <1>1
<1> HIDE DEF m, u, result
<1>5. /\ state' = [state EXCEPT ![o] = s] /\ filled' = [filled EXCEPT ![o] = f]
      /\ UNCHANGED Unpublished
  BY DEF OrderMoves
<1>6. /\ TablesInv' /\ StoreOK' /\ Extends(log', log)
      /\ \A n \in DOMAIN log' :
           n \in DOMAIN log \/ \E i \in DOMAIN result.events : log'[n] = result.events[i]
  BY <1>3, <1>4, <1>5, ProcessedKeeps
<1>7. ExchangeOK'
  <2>1. /\ state \in [Orders -> {"none", "live", "matched", "cancelled"}]
        /\ filled \in [Orders -> Nat] /\ Size[o] \in Nat /\ filled[o] \in Nat
        /\ \A x \in Orders : /\ filled[x] <= Size[x]
                             /\ state[x] = "none" => filled[x] = 0
                             /\ state[x] = "live" => filled[x] < Size[x]
    BY RecordsAssumption DEF RecordsInv, ExchangeOK
  <2>2. SharesHeld' \in Nat
    <3>1. CASE f = filled[o]
      <4>1. filled' = filled
        BY <1>5, <2>1, <3>1
      <4>2. SharesHeld' = SharesHeld
        BY <4>1 DEF SharesHeld
      <4>3. QED
        BY <4>2 DEF RecordsInv, ExchangeOK
    <3>2. CASE f = filled[o] + 1 /\ (Side[o] = "sell" => SharesHeld > 0)
      BY <1>5, <3>2, HeldGrows DEF RecordsInv
    <3>3. QED
      BY <3>1, <3>2
  <2>3. /\ state' \in [Orders -> {"none", "live", "matched", "cancelled"}]
        /\ filled' \in [Orders -> Nat]
    BY <1>5, <2>1
  <2>4. ASSUME NEW x \in Orders
        PROVE  /\ filled'[x] <= Size[x]
               /\ state'[x] = "none" => filled'[x] = 0
               /\ state'[x] = "live" => filled'[x] < Size[x]
    <3>1. CASE x = o
      <4>1. filled'[x] = f /\ state'[x] = s
        BY <1>5, <2>1, <3>1
      <4>2. QED
        BY <2>1, <3>1, <4>1
    <3>2. CASE x # o
      <4>1. filled'[x] = filled[x] /\ state'[x] = state[x]
        BY <1>5, <2>1, <3>2
      <4>2. QED
        BY <2>1, <4>1
    <3>3. QED
      BY <3>1, <3>2
  <2>5. QED
    BY <2>2, <2>3, <2>4 DEF ExchangeOK
<1>8. OpenTold'
  <2>1. SUFFICES ASSUME NEW n \in DOMAIN log', log'[n].typ = "order",
                        state'[log'[n].subject] # "cancelled"
                 PROVE  log'[n].value \in OpenStatuses
    BY DEF OpenTold
  <2>2. state \in [Orders -> {"none", "live", "matched", "cancelled"}]
    BY DEF RecordsInv, ExchangeOK
  <2>3. CASE n \in DOMAIN log
    <3>1. log'[n] = log[n] /\ log[n].subject \in Orders
      BY <1>6, <2>1, <2>3 DEF Extends, RecordsInv, LogOK, Told
    <3>2. state[log[n].subject] # "cancelled"
      BY <1>5, <2>1, <2>2, <3>1
    <3>3. QED
      BY <2>1, <2>3, <3>1, <3>2 DEF RecordsInv, OpenTold
  <2>4. CASE n \notin DOMAIN log
    <3>1. log'[n] = DomainEvent("order", o, u)
      BY <1>3, <1>6, <2>1, <2>4
    <3>2. log'[n].subject = o /\ log'[n].value = u
      BY <3>1 DEF DomainEvent
    <3>3. state'[o] = s
      BY <1>5, <2>2
    <3>4. QED
      BY <1>2, <2>1, <3>2, <3>3
  <2>5. QED
    BY <2>3, <2>4
<1>9. QED
  BY <1>6, <1>7, <1>8 DEF RecordsInv, TablesInv


\* An order is placed,
LEMMA PlaceStep ==
  ASSUME RecordsInv, NEW o \in Orders, Place(o)
  PROVE  RecordsInv'
<1>1. /\ filled[o] = 0 /\ Size[o] \in Nat \ {0} /\ state[o] = "none"
  BY RecordsAssumption DEF Place, RecordsInv, ExchangeOK
<1>2. OrderMoves(o, "placement", "live", 0)
  BY DEF Place
<1>3. QED
  BY <1>1, <1>2, OrderStep

\* matched
LEMMA MatchStep ==
  ASSUME RecordsInv, NEW o \in Orders, Match(o)
  PROVE  RecordsInv'
<1>1. /\ filled[o] \in Nat /\ Size[o] \in Nat /\ filled[o] < Size[o] /\ state[o] = "live"
      /\ Side[o] = "sell" => SharesHeld > 0
  BY RecordsAssumption DEF Match, RecordsInv, ExchangeOK
<1>2. CASE filled[o] + 1 = Size[o]
  <2>1. OrderMoves(o, "update", "matched", filled[o] + 1)
    BY <1>2 DEF Match
  <2>2. filled[o] + 1 \in Nat
    BY <1>1
  <2>3. QED
    BY <1>1, <2>1, <2>2, OrderStep
<1>3. CASE filled[o] + 1 # Size[o]
  <2>1. OrderMoves(o, "update", "live", filled[o] + 1)
    BY <1>3 DEF Match
  <2>2. filled[o] + 1 \in Nat /\ filled[o] + 1 < Size[o]
    BY <1>1, <1>3
  <2>3. QED
    BY <1>1, <2>1, <2>2, OrderStep
<1>4. QED
  BY <1>2, <1>3

\* or cancelled.
LEMMA CancelStep ==
  ASSUME RecordsInv, NEW o \in Orders, Cancel(o)
  PROVE  RecordsInv'
<1>1. filled[o] \in Nat /\ filled[o] < Size[o] /\ state[o] = "live"
  BY DEF Cancel, RecordsInv, ExchangeOK
<1>2. OrderMoves(o, "cancellation", "cancelled", filled[o])
  BY DEF Cancel
<1>3. QED
  BY <1>1, <1>2, OrderStep

\* A trade, a position or the balance is reported.
LEMMA ReportStep ==
  ASSUME RecordsInv, NEW result, Handled(result), Processed(result), UNCHANGED Unpublished,
         UNCHANGED <<state, filled>>,
         \A i \in DOMAIN result.events :
           result.events[i].typ = "order" => result.events[i].value \in OpenStatuses
  PROVE  RecordsInv'
<1>1. /\ TablesInv' /\ StoreOK' /\ Extends(log', log)
      /\ \A n \in DOMAIN log' :
           n \in DOMAIN log \/ \E i \in DOMAIN result.events : log'[n] = result.events[i]
  BY ProcessedKeeps
<1>2. ExchangeOK'
  <2>1. SharesHeld' = SharesHeld
    BY DEF SharesHeld
  <2>2. QED
    BY <2>1 DEF RecordsInv, ExchangeOK
<1>3. OpenTold'
  <2>1. OpenTold
    BY DEF RecordsInv
  <2>2. QED
    BY <1>1, <2>1, OpenToldKeeps
<1>4. QED
  BY <1>1, <1>2, <1>3 DEF RecordsInv, TablesInv

\* A trade,
LEMMA TradeReportedStep ==
  ASSUME RecordsInv, NEW t \in AllTrades, NEW s \in {"matched", "confirmed"}, TradeReported(t, s)
  PROVE  RecordsInv'
<1>1. PICK named \in Named :
        Processed(HandleFill(account,
          FillSnapshot(t, IF named THEN t[1] ELSE NoText, Side[t[1]], s)))
  BY DEF TradeReported
<1> DEFINE result == HandleFill(account,
                       FillSnapshot(t, IF named THEN t[1] ELSE NoText, Side[t[1]], s))
<1>2. Processed(result)
  BY <1>1
<1>3. named \in BOOLEAN /\ account \in [orders : OpenOrders, shares : Nat]
  BY RecordsAssumption DEF RecordsInv, StoreOK
<1>4. /\ Handled(result)
      /\ \E n \in Nat :
           result.events =
             IF named THEN <<DomainEvent("order", t[1], "matched"), DomainEvent("fill", t, s),
                             DomainEvent("position", "token", n)>>
             ELSE <<DomainEvent("fill", t, s), DomainEvent("position", "token", n)>>
  BY <1>3, FillHandled
<1> HIDE DEF result
<1>5. \A i \in DOMAIN result.events :
        result.events[i].typ = "order" => result.events[i].value \in OpenStatuses
  <2>1. PICK n \in Nat :
          result.events =
            IF named THEN <<DomainEvent("order", t[1], "matched"), DomainEvent("fill", t, s),
                            DomainEvent("position", "token", n)>>
            ELSE <<DomainEvent("fill", t, s), DomainEvent("position", "token", n)>>
    BY <1>4
  <2> DEFINE d1 == DomainEvent("order", t[1], "matched")
             d2 == DomainEvent("fill", t, s)
             d3 == DomainEvent("position", "token", n)
  <2>2. /\ d1.value = "matched" /\ d2.typ = "fill" /\ d3.typ = "position"
    BY DEF DomainEvent
  <2>3. result.events = IF named THEN <<d1, d2, d3>> ELSE <<d2, d3>>
    BY <2>1
  <2> HIDE DEF d1, d2, d3
  <2>4. \A i \in DOMAIN result.events : result.events[i] \in {d1, d2, d3}
    <3>1. CASE named
      <4>1. result.events = <<d1, d2, d3>>
        BY <2>3, <3>1
      <4>2. QED
        BY <4>1
    <3>2. CASE ~named
      <4>1. result.events = <<d2, d3>>
        BY <2>3, <3>2
      <4>2. QED
        BY <4>1
    <3>3. QED
      BY <3>1, <3>2
  <2>5. "matched" \in OpenStatuses
    BY DEF OpenStatuses, OrderStatuses, ClosedStatuses
  <2>6. QED
    BY <2>2, <2>4, <2>5
<1>6. UNCHANGED Unpublished /\ UNCHANGED <<state, filled>>
  BY DEF TradeReported
<1>7. QED
  BY <1>2, <1>4, <1>5, <1>6, ReportStep

\* a position
LEMMA PositionReportedStep ==
  ASSUME RecordsInv, PositionReported
  PROVE  RecordsInv'
<1> DEFINE result == HandlePosition(account, SharesHeld)
<1>1. account \in [orders : OpenOrders, shares : Nat] /\ SharesHeld \in Nat
  BY DEF RecordsInv, StoreOK, ExchangeOK
<1>2. Handled(result) /\ result.events = <<DomainEvent("position", "token", SharesHeld)>>
  BY <1>1, PositionHandled
<1>3. Processed(result) /\ UNCHANGED Unpublished /\ UNCHANGED <<state, filled>>
  BY DEF PositionReported, exchange
<1> HIDE DEF result
<1>4. \A i \in DOMAIN result.events : result.events[i].typ # "order"
  BY <1>2 DEF DomainEvent
<1>5. QED
  BY <1>2, <1>3, <1>4, ReportStep

\* and a balance.
LEMMA BalanceReportedStep ==
  ASSUME RecordsInv, BalanceReported
  PROVE  RecordsInv'
<1> DEFINE result == HandleBalance(account)
<1>1. account \in [orders : OpenOrders, shares : Nat]
  BY DEF RecordsInv, StoreOK
<1>2. Handled(result) /\ result.events = <<DomainEvent("balance", "account", 0)>>
  BY <1>1, BalanceHandled
<1>3. Processed(result) /\ UNCHANGED Unpublished /\ UNCHANGED <<state, filled>>
  BY DEF BalanceReported, exchange
<1> HIDE DEF result
<1>4. \A i \in DOMAIN result.events : result.events[i].typ # "order"
  BY <1>2 DEF DomainEvent
<1>5. QED
  BY <1>2, <1>3, <1>4, ReportStep

\* The market moves.
LEMMA MarketMovesStep ==
  ASSUME RecordsInv, NEW t, NEW s \in {Absent, "eligible", "paused", "resolved"}, NEW v,
         MarketMoves(t, s, v),
         \/ t = "discovered" /\ v = "eligible"
         \/ t = "filtered_out" /\ v \in {"paused", Absent}
         \/ t = "resolved" /\ v = Absent
  PROVE  RecordsInv'
<1> DEFINE d == DomainEvent(t, "market", v)
<1>1. d \in Publication /\ Told(d)
  BY EventTold
<1>2. d.typ # "order"
  BY DEF DomainEvent
<1>3. HasRoom(<<d>>) /\ listing' = s /\ Published(<<d>>)
  BY DEF MarketMoves
<1>4. UNCHANGED <<state, filled, up, account, asked, writing, kind, failed, rows,
                  acked, failures, crashes>>
  BY DEF MarketMoves, exchange, worker
<1> HIDE DEF d
<1>5. <<d>> \in Seq(Publication) /\ Len(<<d>>) = 1 /\ DOMAIN <<d>> = 1..1 /\ <<d>>[1] = d
  BY <1>1
<1>6. /\ Publishes(log, <<d>>, log') /\ outbox' = PutAll(outbox, Len(log), <<d>>)
  BY <1>1, <1>3, <1>5 DEF Published, HasRoom, Publishes, RecordsInv
<1>7. UNCHANGED <<rows, worker, acked, failures>>
  BY <1>4 DEF worker
<1>8. TablesInv' /\ Extends(log', log)
  BY <1>6, <1>7, PublishedKeeps
<1>9. StoreOK'
  BY <1>3, <1>4 DEF StoreOK, RecordsInv
<1>10. ExchangeOK'
  <2>1. SharesHeld' = SharesHeld
    BY <1>4 DEF SharesHeld
  <2>2. QED
    BY <1>4, <2>1 DEF RecordsInv, ExchangeOK
<1>11. OpenTold'
  <2>1. \A n \in DOMAIN log' : n \in DOMAIN log \/ log'[n] = d
    <3> DEFINE events == <<d>>
    <3>0. Publishes(log, events, log')
      BY <1>6
    <3>4. Len(events) = 1 /\ 1 \in DOMAIN events /\ events[1] = d
      BY <1>5
    <3> HIDE DEF events
    <3>1. /\ Len(log) \in Nat /\ Len(events) \in Nat
          /\ DOMAIN events = 1..Len(events)
          /\ DOMAIN log = 1..Len(log) /\ DOMAIN log' = 1..(Len(log) + Len(events))
          /\ \A i \in DOMAIN events : log'[Len(log) + i] = events[i]
      BY <3>0, LogPrefixes
    <3>2. log'[Len(log) + 1] = d /\ DOMAIN log' = 1..(Len(log) + 1)
      BY <3>1, <3>4
    <3>3. QED
      BY <3>1, <3>2
  <2>2. QED
    BY <1>2, <1>4, <1>8, <2>1 DEF OpenTold, RecordsInv, Extends
<1>12. QED
  BY <1>8, <1>9, <1>10, <1>11 DEF RecordsInv, TablesInv

\* The four ways the market moves.
LEMMA MarketStep ==
  ASSUME RecordsInv, MarketDiscovered \/ MarketUpdated \/ MarketFilteredOut \/ MarketResolved
  PROVE  RecordsInv'
<1>1. CASE MarketDiscovered
  BY <1>1, MarketMovesStep DEF MarketDiscovered
<1>2. CASE MarketUpdated
  <2>1. listing' = "eligible"
        /\ UNCHANGED <<state, filled, up, account, asked, log, outbox, writing, kind, failed,
                       rows, acked, failures, crashes>>
    BY <1>2 DEF MarketUpdated, exchange, worker, history
  <2>2. TablesInv' /\ Extends(log', log)
    BY <2>1, TablesKeep DEF worker
  <2>3. SharesHeld' = SharesHeld
    BY <2>1 DEF SharesHeld
  <2>4. ExchangeOK' /\ OpenTold' /\ StoreOK'
    BY <2>1, <2>3 DEF RecordsInv, ExchangeOK, OpenTold, StoreOK
  <2>5. QED
    BY <2>2, <2>4 DEF RecordsInv, TablesInv
<1>3. CASE MarketFilteredOut
  BY <1>3, MarketMovesStep DEF MarketFilteredOut
<1>4. CASE MarketResolved
  BY <1>4, MarketMovesStep DEF MarketResolved
<1>5. QED
  BY <1>1, <1>2, <1>3, <1>4


--------------------------------------------------------------------------------
(* Reconcile, crash, restart, and the start. *)

\* The answers of the exchange change the store only.
LEMMA ReconcileStep ==
  ASSUME RecordsInv, ReconcileAsks \/ \E answered \in SUBSET Calls : ReconcileApplies(answered)
  PROVE  RecordsInv'
<1>1. UNCHANGED <<state, filled, up, listing, log, outbox, writing, kind, failed, rows,
                  acked, failures, crashes>>
  BY DEF ReconcileAsks, ReconcileApplies, exchange, worker, history
<1>2. TablesInv' /\ Extends(log', log)
  BY <1>1, TablesKeep DEF worker
<1>3. SharesHeld' = SharesHeld
  BY <1>1 DEF SharesHeld
<1>4. ExchangeOK' /\ OpenTold'
  BY <1>1, <1>3 DEF RecordsInv, ExchangeOK, OpenTold
<1>5. CASE ReconcileAsks
  <2>1. asked' = [orders |-> OpenOrdersAnswer, shares |-> PositionsAnswer] /\ account' = account
    BY <1>5 DEF ReconcileAsks
  <2>2. OpenOrdersAnswer \in OpenOrders
    BY DEF OpenOrdersAnswer, OpenOrders, OpenStatuses, OrderStatuses, ClosedStatuses
  <2>3. PositionsAnswer \in Nat
    BY DEF PositionsAnswer, RecordsInv, ExchangeOK
  <2>4. asked' \in [orders : OpenOrders, shares : Nat]
    BY <2>1, <2>2, <2>3
  <2>5. StoreOK'
    BY <1>1, <2>1, <2>4 DEF RecordsInv, StoreOK
  <2>6. QED
    BY <1>2, <1>4, <2>5 DEF RecordsInv, TablesInv
<1>6. CASE \E answered \in SUBSET Calls : ReconcileApplies(answered)
  <2>1. PICK answered \in SUBSET Calls : ReconcileApplies(answered)
    BY <1>6
  <2>2. /\ asked # NotAsked /\ asked' = NotAsked
        /\ account' = [orders |-> IF "orders" \in answered THEN asked.orders ELSE account.orders,
                       shares |-> IF "positions" \in answered THEN asked.shares ELSE account.shares]
    BY <2>1 DEF ReconcileApplies
  <2>3. /\ asked \in [orders : OpenOrders, shares : Nat]
        /\ account \in [orders : OpenOrders, shares : Nat]
    BY <2>2 DEF RecordsInv, StoreOK
  <2>4. account' \in [orders : OpenOrders, shares : Nat]
    BY <2>2, <2>3
  <2>5. StoreOK'
    BY <1>1, <2>2, <2>4 DEF RecordsInv, StoreOK
  <2>6. QED
    BY <1>2, <1>4, <2>5 DEF RecordsInv, TablesInv
<1>7. QED
  BY <1>5, <1>6

\* A restart loads the tables, which hold what the store may.
LEMMA RestartStep ==
  ASSUME RecordsInv, Restart
  PROVE  RecordsInv'
<1>1. UNCHANGED <<state, filled, asked, log, outbox, writing, kind, failed, rows,
                  acked, failures, crashes>> /\ up' = TRUE
  BY DEF Restart, exchange, worker, history
<1>2. TablesInv' /\ Extends(log', log)
  BY <1>1, TablesKeep DEF worker
<1>3. SharesHeld' = SharesHeld
  BY <1>1 DEF SharesHeld
<1>4. ExchangeOK' /\ OpenTold'
  BY <1>1, <1>3 DEF RecordsInv, ExchangeOK, OpenTold
<1>5. RestoredOrders \in OpenOrders
  BY DEF RestoredOrders, OpenOrders
<1>6. RestoredShares \in Nat /\ RestoredMarket \in {"eligible", "paused", Absent}
  BY DEF RestoredShares, RestoredMarket, RecordsInv, Tables, PositionTable, NoPosition, MarketTable
<1>7. CASE /\ account' = [orders |-> RestoredOrders, shares |-> RestoredShares]
           /\ listing' = RestoredMarket
  BY <1>1, <1>2, <1>4, <1>5, <1>6, <1>7 DEF RecordsInv, TablesInv, StoreOK
<1>8. CASE UNCHANGED <<account, listing>>
  BY <1>1, <1>2, <1>4, <1>8 DEF RecordsInv, TablesInv, StoreOK
<1>9. QED
  BY <1>7, <1>8 DEF Restart

\* An outbox with nothing but dead letters.
EmptyBut(b, D) ==
  /\ DOMAIN b = {"ready", "events", "queued", "index", "retained", "dead"}
  /\ b.ready = <<>> /\ b.events = <<>> /\ b.queued = {} /\ b.index = <<>>
  /\ b.retained = <<>> /\ b.dead = D

\* What is known of the outbox holds of such a one.
LEMMA EmptySound ==
  ASSUME NEW L, LogOK(L), NEW R, NEW f, NEW D, \A e \in D : GivenUp(L, R, f, e),
         \A e \in D : e \in Records /\ e.id \in DOMAIN L /\ e.typ = L[e.id].typ,
         NEW b, EmptyBut(b, D)
  PROVE  BoxSound(b, L, R, f) /\ Roomy(b, 0, L)
<1> DEFINE p == TypesOf(L)
<1>1. /\ Publications(p) /\ DOMAIN p = DOMAIN L /\ Len(L) \in Nat
      /\ \A n \in DOMAIN L : p[n] = L[n].typ
  BY LogFacts
<1> HIDE DEF p
<1>2. /\ DOMAIN b = {"ready", "events", "queued", "index", "retained", "dead"}
      /\ b.ready = <<>> /\ b.events = <<>> /\ b.queued = {} /\ b.index = <<>>
      /\ b.retained = <<>> /\ b.dead = D
  BY DEF EmptyBut
<1>3. DOMAIN b.events = {} /\ DOMAIN b.retained = {} /\ DOMAIN b.index = {} /\ DOMAIN b.ready = {}
      /\ Len(b.ready) = 0
  BY <1>2
<1>4. Shape(b, p)
  <2>1. ReadyOK(b, p)
    <3>1. b.ready = <<>> /\ MaxSize \in Nat
      BY <1>2, OutboxAssumption
    <3>2. b.ready \in Seq([prio : 0..3, id : DOMAIN p]) /\ Len(b.ready) = 0
      BY <3>1
    <3>3. QED
      BY <3>1, <3>2 DEF ReadyOK
  <2>2. MapOK(b.events, p) /\ MapOK(b.retained, p) /\ QueuedOK(b, p) /\ IndexOK(b, p)
    BY <1>2, <1>3 DEF MapOK, QueuedOK, IndexOK
  <2>3. DeadOK(b, p)
    BY <1>1, <1>2 DEF DeadOK
  <2>4. QED
    BY <1>2, <2>1, <2>2, <2>3 DEF Shape, IsBox
<1>5. Cardinality(DOMAIN b.retained) = 0
  BY <1>3, FS_EmptySet
<1>6. BoxOK(b, p)
  BY <1>4, <1>5, OutboxAssumption DEF BoxOK, RoomOK
<1>7. CritBox(b, p)
  BY <1>2, <1>3 DEF CritBox, OnePlace, InReady, Once
<1>8. QED
  BY <1>1, <1>2, <1>3, <1>5, <1>6, <1>7 DEF BoxSound, Roomy, p

\* No batch is written.
LEMMA IdleOK ==
  ASSUME writing = <<>>, kind = 0
  PROVE  WritingOK
<1>1. writing \in Seq(EventsOf(TypesOf(log))) /\ DOMAIN writing = {}
  OBVIOUS
<1>2. QED
  BY <1>1 DEF WritingOK, Distinct, InHand

\* A crash empties the memory of the process.
LEMMA CrashStep ==
  ASSUME RecordsInv, Crash
  PROVE  RecordsInv'
<1>1. /\ UNCHANGED <<state, filled, log, rows, acked, failures>>
      /\ crashes' = crashes + 1 /\ up' = FALSE
      /\ account' = EmptyStore /\ listing' = Absent /\ asked' = NotAsked
      /\ outbox' = [EmptyOutbox EXCEPT !.dead = outbox.dead]
      /\ writing' = <<>> /\ kind' = 0
  BY DEF Crash, exchange
<1>2. /\ LogOK(log) /\ BoxSound(outbox, log, rows, failures)
      /\ crashes \in Nat
  BY DEF RecordsInv, StoreOK
<1>3. \A e \in outbox.dead : /\ GivenUp(log, rows, failures, e)
                             /\ e \in Records /\ e.id \in DOMAIN log /\ e.typ = log[e.id].typ
  <2>1. DeadOK(outbox, TypesOf(log))
    BY <1>2 DEF BoxSound, BoxOK, Shape
  <2>2. DOMAIN TypesOf(log) = DOMAIN log /\ \A n \in DOMAIN log : TypesOf(log)[n] = log[n].typ
    BY <1>2, LogFacts
  <2>3. QED
    BY <1>2, <2>1, <2>2 DEF DeadOK, BoxSound
<1>4. BoxSound(outbox', log, rows, failures) /\ Roomy(outbox', 0, log)
  <2>1. EmptyBut(outbox', outbox.dead)
    BY <1>1 DEF EmptyBut, EmptyOutbox
  <2>2. QED
    BY <1>2, <1>3, <2>1, EmptySound
<1>5. WritingOK'
  BY <1>1, IdleOK DEF WritingOK, Distinct, InHand
<1>6. Len(writing') = 0
  BY <1>1
<1>7. TablesInv'
  <2>1. RowsTold' /\ LogOK(log)' /\ (rows \in Tables)'
        /\ (\A a \in acked : a[2] \in DOMAIN log /\ Recorded(a[1], log[a[2]]))'
    BY <1>1 DEF RecordsInv, RowsTold, Recorded
  <2>2. BoxSound(outbox, log, rows, failures)' /\ Roomy(outbox, Len(writing), log)'
    BY <1>1, <1>4, <1>6
  <2>3. QED
    BY <1>5, <2>1, <2>2 DEF TablesInv
<1>8. ExchangeOK' /\ OpenTold'
  <2>1. SharesHeld' = SharesHeld
    BY <1>1 DEF SharesHeld
  <2>2. QED
    BY <1>1, <2>1 DEF RecordsInv, ExchangeOK, OpenTold
<1>9. StoreOK'
  <2>1. EmptyStore \in [orders : OpenOrders, shares : Nat]
    BY DEF EmptyStore, OpenOrders
  <2>2. QED
    BY <1>1, <1>2, <2>1 DEF StoreOK, RecordsInv
<1>10. QED
  BY <1>7, <1>8, <1>9 DEF RecordsInv, TablesInv

\* The invariant holds at the start.
LEMMA InitRecordsInv == RecordsInit => RecordsInv
<1> SUFFICES ASSUME RecordsInit  PROVE RecordsInv
  OBVIOUS
<1>1. /\ state = [o \in Orders |-> "none"] /\ filled = [o \in Orders |-> 0]
      /\ up = TRUE /\ account = EmptyStore /\ listing = Absent /\ asked = NotAsked
      /\ log = <<>> /\ outbox = EmptyOutbox /\ writing = <<>> /\ kind = 0
      /\ rows = [order |-> [o \in Orders |-> NoRow], fill |-> [t \in AllTrades |-> Absent],
                 position |-> NoPosition, market |-> Absent, audit |-> {}, outbox |-> {}]
      /\ acked = {} /\ failures = 0 /\ crashes = 0
  BY DEF RecordsInit
<1>2. ExchangeOK
  <2>1. SharesHeld = 0
    <3> DEFINE H(side) == {t \in AllTrades : t[2] <= filled[t[1]] /\ Side[t[1]] = side}
    <3>1. \A side : H(side) = {}
      <4>1. SUFFICES ASSUME NEW t \in AllTrades  PROVE ~(t[2] <= filled[t[1]])
        OBVIOUS
      <4>2. t[1] \in Orders /\ t[2] \in 1..Size[t[1]] /\ Size[t[1]] \in Nat
        BY TradeIs, RecordsAssumption
      <4>3. filled[t[1]] = 0
        BY <1>1, <4>2
      <4>4. QED
        BY <4>2, <4>3
    <3>2. SharesHeld = Cardinality(H("buy")) - Cardinality(H("sell"))
      BY DEF SharesHeld
    <3> HIDE DEF H
    <3>3. QED
      BY <3>1, <3>2, FS_EmptySet
  <2>2. \A o \in Orders : Size[o] \in Nat \ {0}
    BY RecordsAssumption
  <2>3. QED
    BY <1>1, <2>1, <2>2 DEF ExchangeOK
<1>3. StoreOK
  BY <1>1 DEF StoreOK, EmptyStore, OpenOrders
<1>4. LogOK(log)
  <2>1. log \in Seq(Publication) /\ Len(log) = 0 /\ DOMAIN log = {}
    BY <1>1
  <2>2. QED
    BY <2>1, OutboxAssumption DEF LogOK
<1>5. rows \in Tables
  BY <1>1 DEF Tables, OrderTable, FillTable, PositionTable, MarketTable, AuditTable, OutboxTable, NoRow
<1>6. RowsTold /\ OpenTold
  BY <1>1 DEF RowsTold, OpenTold
<1>7. BoxSound(outbox, log, rows, failures) /\ Roomy(outbox, 0, log)
  <2>1. EmptyBut(outbox, {})
    BY <1>1 DEF EmptyBut, EmptyOutbox
  <2>2. QED
    BY <1>4, <2>1, EmptySound
<1>8. WritingOK /\ Len(writing) = 0
  BY <1>1, IdleOK
<1>9. QED
  BY <1>1, <1>2, <1>3, <1>4, <1>5, <1>6, <1>7, <1>8 DEF RecordsInv


--------------------------------------------------------------------------------
(* The tables. *)

\* A set of places of a sequence has a first and a last one.
LEMMA LastOf ==
  ASSUME NEW n \in Nat, NEW A, A \subseteq 1..n, A # {}
  PROVE  /\ \E j \in A : \A l \in A : l <= j
         /\ \E j \in A : \A l \in A : j <= l
<1>1. IsFiniteSet(A)
  <2>1. 1 \in Int /\ n \in Int
    OBVIOUS
  <2>2. QED
    BY <2>1, FS_Interval, FS_Subset
<1>0. A # {}
  OBVIOUS
<1> DEFINE R == {r \in A \X A : r[1] < r[2]}
           Q == {r \in A \X A : r[2] < r[1]}
<1>2. \E j \in A : \A l \in A : l <= j
  <2>1. Total(A, R) /\ Transitive(A, R)
    BY DEF Total, Transitive
  <2> HIDE DEF R, Q
  <2>2. PICK i \in A : \A j \in A \ {i} : <<j, i>> \in R
    BY ONLY <1>1, <1>0, <2>1, Greatest
  <2>3. \A j \in A \ {i} : j < i
    BY <2>2 DEF R
  <2>4. QED
    BY <2>3
<1>3. \E j \in A : \A l \in A : j <= l
  <2>1. Total(A, Q) /\ Transitive(A, Q)
    BY DEF Total, Transitive
  <2> HIDE DEF R, Q
  <2>2. PICK i \in A : \A j \in A \ {i} : <<j, i>> \in Q
    BY ONLY <1>1, <1>0, <2>1, Greatest
  <2>3. \A j \in A \ {i} : i < j
    BY <2>2 DEF Q
  <2>4. QED
    BY <2>3
<1>4. QED
  BY <1>2, <1>3

\* The kinds of record of an event.
LEMMA KindsAre ==
  ASSUME NEW e, e.typ \in Types
  PROVE  /\ "audit" \in KindsOf(e) /\ "outbox" \in KindsOf(e)
         /\ "order" \in KindsOf(e) <=> e.typ = "order"
         /\ "fill" \in KindsOf(e) <=> e.typ = "fill"
         /\ "position" \in KindsOf(e) <=> e.typ = "position"
         /\ "account" \in KindsOf(e) <=> e.typ = "balance"
         /\ "market" \in KindsOf(e) <=> e.typ \in MarketTypes /\ log[e.ver].value # Absent
         /\ KindsOf(e) \subseteq RowKinds \union {"account"}
<1>1. e.typ \in {"order", "fill", "position", "balance", "discovered", "filtered_out", "resolved"}
  BY RecordsAssumption DEF RecordTypes, MarketTypes
<1>2. CASE e.typ \in MarketTypes
  BY <1>1, <1>2 DEF KindsOf, MarketTypes, Payload, RowKinds
<1>3. CASE e.typ \notin MarketTypes
  BY <1>1, <1>3 DEF KindsOf, MarketTypes, RowKinds
<1>4. QED
  BY <1>2, <1>3

\* The order of the kinds.
LEMMA KindOrderIs ==
  /\ DOMAIN KindOrder = 1..6 /\ Len(KindOrder) = 6
  /\ KindOrder[1] = "audit" /\ KindOrder[2] = "market" /\ KindOrder[3] = "order"
  /\ KindOrder[4] = "fill" /\ KindOrder[5] = "position" /\ KindOrder[6] = "outbox"
  /\ \A l \in 1..6 : KindOrder[l] \in RowKinds
  /\ \A l, m \in 1..6 : KindOrder[l] = KindOrder[m] => l = m
  /\ ToSet(KindOrder) = RowKinds
<1>1. /\ DOMAIN KindOrder = 1..6 /\ Len(KindOrder) = 6
      /\ KindOrder[1] = "audit" /\ KindOrder[2] = "market" /\ KindOrder[3] = "order"
      /\ KindOrder[4] = "fill" /\ KindOrder[5] = "position" /\ KindOrder[6] = "outbox"
  BY DEF KindOrder
<1>2. \A l \in 1..6 : l = 1 \/ l = 2 \/ l = 3 \/ l = 4 \/ l = 5 \/ l = 6
  OBVIOUS
<1>3. \A l \in 1..6 : KindOrder[l] \in RowKinds
  BY <1>1, <1>2 DEF RowKinds
<1>4. \A l, m \in 1..6 : KindOrder[l] = KindOrder[m] => l = m
  BY <1>1, <1>2
<1>5. ToSet(KindOrder) = RowKinds
  <2>1. ToSet(KindOrder) = {KindOrder[l] : l \in 1..6}
    BY <1>1 DEF ToSet
  <2>2. QED
    BY <1>1, <1>2, <2>1 DEF RowKinds
<1>6. QED
  BY <1>1, <1>3, <1>4, <1>5

\* The next kind with records to write.
LEMMA NextKindIs ==
  ASSUME NEW b, NEW k \in 0..6, NEW n, n = NextKind(b, k)
  PROVE  /\ n \in 1..7 /\ n > k
         /\ \A l \in 1..6 : k < l /\ l < n => \A i \in DOMAIN b : KindOrder[l] \notin KindsOf(b[i])
         /\ n \in 1..6 => \E i \in DOMAIN b : KindOrder[n] \in KindsOf(b[i])
<1> DEFINE due == {l \in 1..6 : l > k /\ \E i \in DOMAIN b : KindOrder[l] \in KindsOf(b[i])}
<1>1. n = IF due = {} THEN 7 ELSE Min(due)
  BY KindOrderIs DEF NextKind
<1>2. due \subseteq 1..6
  OBVIOUS
<1>3. CASE due = {}
  BY <1>1, <1>3
<1>4. CASE due # {}
  <2>1. \E j \in due : \A l \in due : j <= l
    <3> HIDE DEF due
    <3>1. QED
      BY <1>2, <1>4, LastOf
  <2>2. n = Min(due)
    BY <1>1, <1>4
  <2>3. n \in due /\ \A l \in due : n <= l
    <3> HIDE DEF due
    <3>1. QED
      BY <2>1, <2>2 DEF Min
  <2>4. QED
    BY <2>3
<1>5. QED
  BY <1>3, <1>4

\* The tables S have what the tables R have, and more.
Gains(R, S) ==
  /\ \A o \in Orders : R.order[o].key # 0 => S.order[o].key = R.order[o].key
  /\ \A t \in AllTrades : R.fill[t] # Absent => S.fill[t] # Absent
  /\ R.position # NoPosition => S.position # NoPosition
  /\ R.market # Absent => S.market # Absent
  /\ R.audit \subseteq S.audit /\ R.outbox \subseteq S.outbox

\* What more rows and more refusals say of an event.
LEMMA GainsKeep ==
  ASSUME NEW L, LogOK(L), NEW R, NEW S, Gains(R, S), NEW f \in Nat, NEW g \in Nat, f <= g,
         NEW e
  PROVE  /\ \A n : e.ver \in DOMAIN L /\ L[e.ver].typ = e.typ /\ Excused(L, R, f, e, n) /\ n \in Nat
                => Excused(L, S, g, e, n)
         /\ EventOK(L, R, f, e) /\ e.retry \in Nat => EventOK(L, S, g, e)
         /\ \A k \in RowKinds : e.ver \in DOMAIN L /\ L[e.ver].typ = e.typ /\ HasRow(k, e, L, R)
              /\ (k = "order" => e.typ = "order" /\ e.id # 0) /\ (k = "fill" => e.typ = "fill")
              => HasRow(k, e, L, S)
<1>1. \A n : e.ver \in DOMAIN L /\ L[e.ver].typ = e.typ /\ Excused(L, R, f, e, n) /\ n \in Nat
         => Excused(L, S, g, e, n)
  <2>1. SUFFICES ASSUME NEW n \in Nat, e.ver \in DOMAIN L, L[e.ver].typ = e.typ, Excused(L, R, f, e, n)
                 PROVE  Excused(L, S, g, e, n)
    OBVIOUS
  <2>2. CASE f >= n
    BY <2>2 DEF Excused
  <2>3. CASE Beaten(L, R, e)
    <3>1. e.typ = "order" /\ L[e.ver].subject \in Orders
      BY <2>1, <2>3 DEF Beaten, LogOK, Told
    <3>2. QED
      BY <2>3, <3>1 DEF Beaten, Gains, Excused
  <2>4. QED
    BY <2>1, <2>2, <2>3 DEF Excused
<1>2. EventOK(L, R, f, e) /\ e.retry \in Nat => EventOK(L, S, g, e)
  BY <1>1 DEF EventOK, Carries
<1>3. ASSUME NEW k \in RowKinds, e.ver \in DOMAIN L, L[e.ver].typ = e.typ, HasRow(k, e, L, R),
             k = "order" => e.typ = "order" /\ e.id # 0, k = "fill" => e.typ = "fill"
      PROVE  HasRow(k, e, L, S)
  <2>1. /\ k = "order" => L[e.ver].subject \in Orders
        /\ k = "fill" => L[e.ver].subject \in AllTrades
    BY <1>3 DEF LogOK, Told
  <2>2. QED
    BY <1>3, <2>1 DEF HasRow, Gains
<1>4. QED
  BY <1>1, <1>2, <1>3


--------------------------------------------------------------------------------
(* The writes of one kind. *)

\* The events of the batch.
LEMMA WritingIs ==
  ASSUME RecordsInv, NEW j \in DOMAIN writing
  PROVE  /\ j \in Nat /\ writing[j].typ \in Types /\ writing[j].ver \in DOMAIN log
         /\ log[writing[j].ver].typ = writing[j].typ
         /\ writing[j].id \in 1..MaxEvents /\ writing[j].id \in DOMAIN log /\ writing[j].id # 0
         /\ writing[j].retry \in Nat /\ writing[j].retry <= MaxRetryCount
         /\ EventOK(log, rows, failures, writing[j])
         /\ Told(log[writing[j].ver])
<1>1. LogOK(log) /\ writing \in Seq(EventsOf(TypesOf(log)))
      /\ InHand(writing, 0, outbox, log, rows, failures)
  BY DEF RecordsInv, WritingOK
<1>2. /\ DOMAIN TypesOf(log) = DOMAIN log /\ DOMAIN log = 1..Len(log)
      /\ Len(log) \in Nat /\ Len(log) <= MaxEvents
  BY <1>1, LogFacts
<1>3. j \in Nat /\ j > 0
  BY <1>1
<1>4. /\ WellFormed(TypesOf(log), writing[j])
      /\ EventOK(log, rows, failures, writing[j])
  BY <1>1, <1>3 DEF InHand
<1>5. /\ writing[j].typ \in Types /\ writing[j].id \in DOMAIN log
      /\ writing[j].retry \in 0..MaxRetryCount
  BY <1>2, <1>4 DEF WellFormed
<1>6. writing[j].ver \in DOMAIN log /\ log[writing[j].ver].typ = writing[j].typ
  BY <1>4 DEF EventOK, Carries
<1>7. Told(log[writing[j].ver])
  BY <1>1, <1>6 DEF LogOK
<1>8. writing[j].id \in 1..MaxEvents
  BY <1>2, <1>5, OutboxAssumption
<1>9. QED
  BY <1>3, <1>4, <1>5, <1>6, <1>7, <1>8, OutboxAssumption

\* What the records of a kind hold.
LEMMA ItemIs ==
  ASSUME RecordsInv, NEW k \in RowKinds, NEW i \in Items(k)
  PROVE  /\ i \in DOMAIN writing /\ k \in KindsOf(writing[i])
         /\ k = "order" => writing[i].typ = "order" /\ Of(i).subject \in Orders /\ Of(i).value \in OrderStatuses
         /\ k = "fill" => /\ writing[i].typ = "fill" /\ Of(i).subject \in AllTrades
                          /\ Of(i).value \in {"matched", "confirmed"}
         /\ k = "position" => writing[i].typ = "position" /\ Of(i).value \in Nat
         /\ k = "market" => Of(i).value \in {"eligible", "paused"} /\ writing[i].typ \in MarketTypes
<1>1. i \in DOMAIN writing /\ k \in KindsOf(writing[i])
  BY DEF Items
<1>2. /\ writing[i].typ \in Types /\ writing[i].ver \in DOMAIN log
      /\ log[writing[i].ver].typ = writing[i].typ /\ Told(log[writing[i].ver])
  BY <1>1, WritingIs
<1>3. Of(i) = log[writing[i].ver]
  BY DEF Of, Payload
<1>4. /\ k = "order" => writing[i].typ = "order"
      /\ k = "fill" => writing[i].typ = "fill"
      /\ k = "position" => writing[i].typ = "position"
      /\ k = "market" => writing[i].typ \in MarketTypes /\ log[writing[i].ver].value # Absent
  BY <1>1, <1>2, KindsAre
<1>5. QED
  BY <1>1, <1>2, <1>3, <1>4 DEF Told, MarketTypes

\* The last record written is one of them.
LEMMA LastWrittenIs ==
  ASSUME RecordsInv, NEW A, A \subseteq DOMAIN writing, A # {}
  PROVE  LastWritten(A) \in A
<1>1. writing \in Seq(EventsOf(TypesOf(log)))
  BY DEF RecordsInv, WritingOK
<1>2. DOMAIN writing = 1..Len(writing) /\ Len(writing) \in Nat
  BY <1>1
<1>3. A \subseteq 1..Len(writing)
  BY <1>2
<1>4. \E j \in A : \A l \in A : l <= j
  BY <1>2, <1>3, LastOf
<1>5. QED
  BY <1>4 DEF LastWritten

\* The row an event has in the table of orders.
LEMMA OrderRowIs ==
  ASSUME RecordsInv, NEW i \in Items("order")
  PROVE  /\ OrderFromRecord(i).id = Of(i).subject /\ Of(i).subject \in Orders
         /\ OrderRow(i).key = writing[i].id /\ OrderRow(i).status = Of(i).value
         /\ OrderRow(i) \in [key : 1..MaxEvents, status : OrderStatuses]
         /\ i \in DOMAIN writing /\ writing[i].id # 0
<1>1. "order" \in RowKinds
  BY DEF RowKinds
<1>2. i \in DOMAIN writing /\ Of(i).subject \in Orders /\ Of(i).value \in OrderStatuses
  BY <1>1, ItemIs
<1>3. writing[i].id \in 1..MaxEvents /\ writing[i].id # 0
  BY <1>2, WritingIs
<1>4. StoredStatus(Of(i).value) = Of(i).value
  BY <1>2 DEF StoredStatus
<1>5. QED
  BY <1>2, <1>3, <1>4 DEF OrderRow, OrderKey, OrderFromRecord

\* Two accepted events of one order are one.
LEMMA AcceptedOnce ==
  ASSUME RecordsInv, NEW F, NEW i \in Items("order"), NEW j \in Items("order"),
         Of(i).subject = Of(j).subject, AcceptedOrder(i, F), AcceptedOrder(j, F)
  PROVE  i = j
<1>1. /\ OrderFromRecord(i).id = Of(i).subject /\ OrderFromRecord(j).id = Of(j).subject
      /\ i \in DOMAIN writing /\ j \in DOMAIN writing
      /\ writing[i].id # 0 /\ writing[j].id # 0
  BY OrderRowIs
<1>2. i \in Nat /\ j \in Nat
  BY <1>1, WritingIs
<1>3. writing[i].id = writing[j].id => i = j
  BY <1>1 DEF RecordsInv, WritingOK, Distinct
<1> DEFINE o == Of(i).subject
<1>4. /\ i \notin F /\ j \notin F
      /\ \/ rows.order[o].key = writing[i].id
         \/ /\ rows.order[o] = NoRow
            /\ \A l \in Items("order") \ F : OrderFromRecord(l).id = o => i <= l
      /\ \/ rows.order[o].key = writing[j].id
         \/ /\ rows.order[o] = NoRow
            /\ \A l \in Items("order") \ F : OrderFromRecord(l).id = o => j <= l
  BY <1>1 DEF AcceptedOrder, OrderKey
<1>5. rows.order[o] = NoRow => rows.order[o].key = 0
  BY DEF NoRow
<1>6. QED
  BY <1>1, <1>2, <1>3, <1>4, <1>5

\* What the tables R become when the records of kind k are written, but those of F.
Wrote(k, F, R) ==
  /\ R \in Tables
  /\ Gains(rows, R)
  /\ \A i \in Items(k) \ Refused(k, F) : HasRow(k, writing[i], log, R)
  /\ \A i \in Refused(k, F) \ F : Beaten(log, R, writing[i])
  /\ \A o \in Orders : R.order[o] # rows.order[o] =>
       \E i \in Items("order") : Of(i).subject = o /\ R.order[o].status = Of(i).value

\* The table of orders.
LEMMA OrdersWritten ==
  ASSUME RecordsInv, NEW F, F \subseteq Items("order"), NEW o \in Orders,
         NEW r, r = SaveOrders(F)[o]
  PROVE  /\ r \in [key : 1..MaxEvents, status : OrderStatuses] \union {NoRow}
         /\ rows.order[o].key # 0 => r.key = rows.order[o].key
         /\ \A i \in Items("order") : Of(i).subject = o /\ AcceptedOrder(i, F) => r.key = writing[i].id
         /\ \A i \in Items("order") : Of(i).subject = o /\ ~AcceptedOrder(i, F) /\ i \notin F =>
              r.key \notin {0, writing[i].id}
         /\ r # rows.order[o] =>
              \E i \in Items("order") : Of(i).subject = o /\ r.status = Of(i).value
<1> DEFINE A == {i \in Items("order") : OrderFromRecord(i).id = o /\ AcceptedOrder(i, F)}
<1>1. r = IF A = {} THEN rows.order[o] ELSE OrderRow(LastWritten(A))
  BY DEF SaveOrders
<1>2. rows.order[o] \in [key : 1..MaxEvents, status : OrderStatuses] \union {NoRow}
      /\ NoRow.key = 0
  BY DEF RecordsInv, Tables, OrderTable, NoRow
<1>3. A \subseteq DOMAIN writing
  BY DEF Items
<1>4. A # {} => LastWritten(A) \in A
  <2> HIDE DEF A
  <2>1. QED
    BY <1>3, LastWrittenIs
<1>5. \A i \in Items("order") : /\ OrderFromRecord(i).id = Of(i).subject
                                /\ OrderRow(i).key = writing[i].id /\ OrderRow(i).status = Of(i).value
                                /\ OrderRow(i) \in [key : 1..MaxEvents, status : OrderStatuses]
                                /\ i \in DOMAIN writing /\ writing[i].id # 0
  BY OrderRowIs
<1>6. ASSUME NEW i \in Items("order"), Of(i).subject = o, AcceptedOrder(i, F)
      PROVE  r = OrderRow(i)
  <2>1. i \in A
    BY <1>5, <1>6
  <2>2. LastWritten(A) \in A
    BY <1>4, <2>1
  <2>3. LastWritten(A) \in Items("order") /\ AcceptedOrder(LastWritten(A), F)
        /\ Of(LastWritten(A)).subject = o
    BY <1>5, <2>2
  <2> HIDE DEF A
  <2>4. LastWritten(A) = i
    BY <1>6, <2>3, AcceptedOnce
  <2>5. QED
    BY <1>1, <2>1, <2>4
<1>7. A # {} => \E i \in Items("order") : Of(i).subject = o /\ AcceptedOrder(i, F)
  BY <1>5
<1>8. A = {} => r = rows.order[o]
  BY <1>1
<1> HIDE DEF A
<1>9. \A i \in Items("order") : Of(i).subject = o /\ AcceptedOrder(i, F) =>
        rows.order[o].key = writing[i].id \/ rows.order[o] = NoRow
  BY <1>5 DEF AcceptedOrder, OrderKey
<1>10. rows.order[o].key # 0 => r.key = rows.order[o].key
  <2>1. CASE A = {}
    BY <1>8, <2>1
  <2>2. CASE A # {}
    <3>1. PICK i \in Items("order") : Of(i).subject = o /\ AcceptedOrder(i, F)
      BY <1>7, <2>2
    <3>2. r.key = writing[i].id
      BY <1>5, <1>6, <3>1
    <3>3. QED
      BY <1>2, <1>9, <3>1, <3>2
  <2>3. QED
    BY <2>1, <2>2
<1>11. ASSUME NEW i \in Items("order"), Of(i).subject = o, ~AcceptedOrder(i, F), i \notin F
       PROVE  r.key \notin {0, writing[i].id}
  <2>1. /\ rows.order[o].key # writing[i].id
        /\ \/ rows.order[o] # NoRow
           \/ \E j \in Items("order") \ F : OrderFromRecord(j).id = o /\ ~(i <= j)
    BY <1>5, <1>11 DEF AcceptedOrder, OrderKey
  <2>2. CASE rows.order[o] # NoRow
    <3>1. rows.order[o].key # 0
      BY <1>2, <2>2
    <3>2. QED
      BY <1>10, <2>1, <3>1
  <2>3. CASE rows.order[o] = NoRow
    <3> DEFINE B == {j \in Items("order") \ F : Of(j).subject = o}
    <3>1. PICK m \in B : \A l \in B : m <= l
      <4>1. DOMAIN writing = 1..Len(writing) /\ Len(writing) \in Nat
        BY DEF RecordsInv, WritingOK
      <4>2. B \subseteq 1..Len(writing) /\ B # {}
        BY <1>11, <4>1 DEF Items
      <4> HIDE DEF B
      <4>3. QED
        BY <4>1, <4>2, LastOf
    <3>2. AcceptedOrder(m, F)
      BY <1>5, <2>3, <3>1 DEF AcceptedOrder
    <3>3. r.key = writing[m].id /\ writing[m].id # 0
      BY <1>5, <1>6, <3>1, <3>2
    <3>4. m # i /\ m \in DOMAIN writing /\ i \in DOMAIN writing
      BY <1>5, <1>11, <3>1, <3>2
    <3>5. writing[m].id # writing[i].id
      BY <3>4 DEF RecordsInv, WritingOK, Distinct
    <3>6. QED
      BY <3>3, <3>5
  <2>4. QED
    BY <2>2, <2>3
<1>12. r \in [key : 1..MaxEvents, status : OrderStatuses] \union {NoRow}
  BY <1>2, <1>5, <1>6, <1>7, <1>8
<1>13. r # rows.order[o] => \E i \in Items("order") : Of(i).subject = o /\ r.status = Of(i).value
  BY <1>5, <1>6, <1>7, <1>8
<1>14. \A i \in Items("order") : Of(i).subject = o /\ AcceptedOrder(i, F) => r.key = writing[i].id
  BY <1>5, <1>6
<1>15. QED
  BY <1>10, <1>11, <1>12, <1>13, <1>14


\* The kinds, one by one.
LEMMA WroteOrders ==
  ASSUME RecordsInv, NEW F, F \subseteq Items("order"),
         NEW R, R = [rows EXCEPT !["order"] = SaveOrders(F)]
  PROVE  Wrote("order", F, R)
<1>1. rows \in Tables
  BY DEF RecordsInv
<1>2. /\ R.order = SaveOrders(F)
      /\ R.fill = rows.fill /\ R.position = rows.position /\ R.market = rows.market
      /\ R.audit = rows.audit /\ R.outbox = rows.outbox
      /\ DOMAIN R = DOMAIN rows
  BY <1>1 DEF Tables
<1>3. \A o \in Orders :
        /\ R.order[o] \in [key : 1..MaxEvents, status : OrderStatuses] \union {NoRow}
        /\ rows.order[o].key # 0 => R.order[o].key = rows.order[o].key
        /\ \A i \in Items("order") : Of(i).subject = o /\ AcceptedOrder(i, F) => R.order[o].key = writing[i].id
        /\ \A i \in Items("order") : Of(i).subject = o /\ ~AcceptedOrder(i, F) /\ i \notin F =>
             R.order[o].key \notin {0, writing[i].id}
        /\ R.order[o] # rows.order[o] =>
             \E i \in Items("order") : Of(i).subject = o /\ R.order[o].status = Of(i).value
  BY <1>2, OrdersWritten
<1>4. R.order \in OrderTable
  <2>1. R.order = [o \in Orders |-> R.order[o]]
    BY <1>2 DEF SaveOrders
  <2>2. QED
    BY <1>3, <2>1 DEF OrderTable
<1>5. R \in Tables
  <2>1. R = [rows EXCEPT !["order"] = R.order]
    BY <1>2
  <2>2. QED
    BY <1>1, <1>4, <2>1 DEF Tables
<1>6. Gains(rows, R)
  BY <1>2, <1>3 DEF Gains
<1>7. \A i \in Items("order") : Of(i).subject \in Orders /\ writing[i].typ = "order"
  BY ItemIs DEF RowKinds
<1>8. ASSUME NEW i \in Items("order") \ Refused("order", F)
      PROVE  HasRow("order", writing[i], log, R)
  <2>1. AcceptedOrder(i, F)
    BY <1>8 DEF Refused
  <2>2. R.order[Of(i).subject].key = writing[i].id
    BY <1>3, <1>7, <2>1
  <2>3. QED
    BY <2>2 DEF HasRow, Of, Payload
<1>9. ASSUME NEW i \in Refused("order", F) \ F
      PROVE  Beaten(log, R, writing[i])
  <2>1. i \in Items("order") /\ ~AcceptedOrder(i, F) /\ i \notin F
    BY <1>9 DEF Refused
  <2>2. R.order[Of(i).subject].key \notin {0, writing[i].id}
    BY <1>3, <1>7, <2>1
  <2>3. QED
    BY <1>7, <2>1, <2>2 DEF Beaten, Of, Payload
<1>10. QED
  BY <1>3, <1>5, <1>6, <1>8, <1>9 DEF Wrote

\* A table of another kind: nothing is refused but what the database refuses.
LEMMA OtherWritten ==
  ASSUME NEW k \in RowKinds \ {"order"}, NEW F,
         NEW R, R \in Tables, Gains(rows, R), R.order = rows.order,
         \A i \in Items(k) \ F : HasRow(k, writing[i], log, R)
  PROVE  Wrote(k, F, R)
<1>1. Refused(k, F) = F
  BY DEF Refused
<1>2. QED
  BY <1>1 DEF Wrote

\* Fills,
LEMMA WroteFills ==
  ASSUME RecordsInv, NEW F, F \subseteq Items("fill"),
         NEW R, R = [rows EXCEPT !["fill"] = SaveFills(F)]
  PROVE  Wrote("fill", F, R)
<1>1. rows \in Tables
  BY DEF RecordsInv
<1>2. /\ R.fill = SaveFills(F)
      /\ R.order = rows.order /\ R.position = rows.position /\ R.market = rows.market
      /\ R.audit = rows.audit /\ R.outbox = rows.outbox
  BY <1>1 DEF Tables
<1>3. \A i \in Items("fill") : /\ Of(i).subject \in AllTrades /\ Of(i).value \in {"matched", "confirmed"}
                               /\ i \in DOMAIN writing
  BY ItemIs DEF RowKinds
<1> DEFINE A(t) == {i \in Items("fill") \ F : Of(i).subject = t}
<1>4. ASSUME NEW t \in AllTrades
      PROVE  /\ A(t) = {} => R.fill[t] = rows.fill[t]
             /\ A(t) # {} => R.fill[t] \in {"matched", "confirmed"}
  <2>1. R.fill[t] = IF A(t) = {} THEN rows.fill[t] ELSE FillRecord(LastWritten(A(t)))
    BY <1>2 DEF SaveFills
  <2>2. A(t) \subseteq DOMAIN writing /\ A(t) \subseteq Items("fill")
    BY DEF Items
  <2> HIDE DEF A
  <2>3. A(t) # {} => LastWritten(A(t)) \in A(t)
    BY <2>2, LastWrittenIs
  <2>4. QED
    BY <1>3, <2>1, <2>2, <2>3 DEF FillRecord
<1>5. rows.fill \in FillTable
  BY <1>1 DEF Tables
<1>6. R.fill \in FillTable
  <2>1. R.fill = [t \in AllTrades |-> R.fill[t]]
    BY ZenonT(30), <1>2 DEF SaveFills
  <2>2. \A t \in AllTrades : R.fill[t] \in {"matched", "confirmed", Absent}
    <3> HIDE DEF A
    <3>1. QED
      BY <1>4, <1>5 DEF FillTable
  <2>3. QED
    BY <2>1, <2>2 DEF FillTable
<1>7. R \in Tables
  <2>1. R = [rows EXCEPT !["fill"] = R.fill]
    BY <1>2
  <2>2. QED
    BY <1>1, <1>6, <2>1 DEF Tables
<1>8. "matched" # Absent /\ "confirmed" # Absent
  BY DEF Absent
<1>9. Gains(rows, R)
  <2> HIDE DEF A
  <2>1. \A t \in AllTrades : rows.fill[t] # Absent => R.fill[t] # Absent
    BY <1>4, <1>8
  <2>2. QED
    BY <1>2, <2>1 DEF Gains
<1>10. ASSUME NEW i \in Items("fill") \ F
       PROVE  HasRow("fill", writing[i], log, R)
  <2>1. A(Of(i).subject) # {}
    BY <1>10
  <2> HIDE DEF A
  <2>2. R.fill[Of(i).subject] # Absent
    BY <1>3, <1>4, <1>8, <2>1
  <2>3. QED
    BY <2>2 DEF HasRow, Of, Payload
<1>11. QED
  BY <1>2, <1>7, <1>9, <1>10, OtherWritten DEF RowKinds

\* positions,
LEMMA WrotePositions ==
  ASSUME RecordsInv, NEW F, F \subseteq Items("position"),
         NEW R, R = [rows EXCEPT !["position"] = SavePositions(F)]
  PROVE  Wrote("position", F, R)
<1>1. rows \in Tables
  BY DEF RecordsInv
<1>2. /\ R.position = SavePositions(F)
      /\ R.order = rows.order /\ R.fill = rows.fill /\ R.market = rows.market
      /\ R.audit = rows.audit /\ R.outbox = rows.outbox
  BY <1>1 DEF Tables
<1> DEFINE A == Items("position") \ F
<1>3. A \subseteq DOMAIN writing
  BY DEF Items
<1>4. \A i \in A : Of(i).value \in Nat
  BY ItemIs DEF RowKinds
<1>5. R.position = IF A = {} THEN rows.position ELSE PositionRecord(LastWritten(A))
  BY <1>2 DEF SavePositions
<1>6. /\ A = {} => R.position = rows.position
      /\ A # {} => R.position \in Nat
  <2> HIDE DEF A
  <2>1. A # {} => LastWritten(A) \in A
    BY <1>3, LastWrittenIs
  <2>2. QED
    BY <1>4, <1>5, <2>1 DEF PositionRecord
<1>7. rows.position \in PositionTable /\ R.position \in PositionTable
  BY <1>1, <1>6 DEF Tables, PositionTable
<1>8. R \in Tables
  <2>1. R = [rows EXCEPT !["position"] = R.position]
    BY <1>2
  <2>2. QED
    BY <1>1, <1>7, <2>1 DEF Tables
<1>9. NoPosition \notin Nat
  BY DEF NoPosition
<1>10. Gains(rows, R)
  BY <1>2, <1>6, <1>9 DEF Gains
<1>11. ASSUME NEW i \in Items("position") \ F
       PROVE  HasRow("position", writing[i], log, R)
  <2>1. R.position # NoPosition
    BY <1>6, <1>9, <1>11
  <2>2. QED
    BY <2>1 DEF HasRow
<1>12. QED
  BY <1>2, <1>8, <1>10, <1>11, OtherWritten DEF RowKinds

\* markets
LEMMA WroteMarkets ==
  ASSUME RecordsInv, NEW F, F \subseteq Items("market"),
         NEW R, R = [rows EXCEPT !["market"] = SaveMarkets(F)]
  PROVE  Wrote("market", F, R)
<1>1. rows \in Tables
  BY DEF RecordsInv
<1>2. /\ R.market = SaveMarkets(F)
      /\ R.order = rows.order /\ R.fill = rows.fill /\ R.position = rows.position
      /\ R.audit = rows.audit /\ R.outbox = rows.outbox
  BY <1>1 DEF Tables
<1> DEFINE A == Items("market") \ F
<1>3. A \subseteq DOMAIN writing
  BY DEF Items
<1>4. \A i \in A : Of(i).value \in {"eligible", "paused"}
  BY ItemIs DEF RowKinds
<1>5. R.market = IF A = {} THEN rows.market ELSE MarketRecord(LastWritten(A))
  BY <1>2 DEF SaveMarkets
<1>6. /\ A = {} => R.market = rows.market
      /\ A # {} => R.market \in {"eligible", "paused"}
  <2> HIDE DEF A
  <2>1. A # {} => LastWritten(A) \in A
    BY <1>3, LastWrittenIs
  <2>2. QED
    BY <1>4, <1>5, <2>1 DEF MarketRecord
<1>7. rows.market \in MarketTable /\ R.market \in MarketTable
  BY <1>1, <1>6 DEF Tables, MarketTable
<1>8. R \in Tables
  <2>1. R = [rows EXCEPT !["market"] = R.market]
    BY <1>2
  <2>2. QED
    BY <1>1, <1>7, <2>1 DEF Tables
<1>9. "eligible" # Absent /\ "paused" # Absent
  BY DEF Absent
<1>10. Gains(rows, R)
  BY <1>2, <1>6, <1>9 DEF Gains
<1>11. ASSUME NEW i \in Items("market") \ F
       PROVE  HasRow("market", writing[i], log, R)
  <2>1. R.market # Absent
    BY <1>6, <1>9, <1>11
  <2>2. QED
    BY <2>1 DEF HasRow
<1>12. QED
  BY <1>2, <1>8, <1>10, <1>11, OtherWritten DEF RowKinds

\* and the two logs of events.
LEMMA WroteLogs ==
  ASSUME RecordsInv, NEW F, NEW k \in {"audit", "outbox"}, F \subseteq Items(k),
         NEW R, R = [rows EXCEPT ![k] = IF k = "audit" THEN SaveAudit(F) ELSE SaveOutbox(F)]
  PROVE  Wrote(k, F, R)
<1>1. rows \in Tables
  BY DEF RecordsInv
<1> DEFINE A == {writing[i].id : i \in Items(k) \ F}
<1>2. /\ R.audit = IF k = "audit" THEN rows.audit \union A ELSE rows.audit
      /\ R.outbox = IF k = "outbox" THEN rows.outbox \union A ELSE rows.outbox
      /\ R.order = rows.order /\ R.fill = rows.fill /\ R.position = rows.position
      /\ R.market = rows.market
      /\ DOMAIN R = DOMAIN rows
  BY <1>1 DEF Tables, SaveAudit, SaveOutbox, AuditRow, OutboxRow
<1>3. A \subseteq 1..MaxEvents
  <2>1. \A i \in Items(k) : i \in DOMAIN writing
    BY DEF Items
  <2>2. QED
    BY <2>1, WritingIs
<1>4. R.audit \in AuditTable /\ R.outbox \in OutboxTable
  <2> HIDE DEF A
  <2>1. QED
    BY <1>1, <1>2, <1>3 DEF Tables, AuditTable, OutboxTable
<1>5. R \in Tables
  <2>1. R = [rows EXCEPT ![k] = IF k = "audit" THEN R.audit ELSE R.outbox]
    BY <1>2
  <2>2. QED
    BY <1>1, <1>4, <2>1 DEF Tables
<1>6. Gains(rows, R)
  <2> HIDE DEF A
  <2>1. QED
    BY <1>2 DEF Gains
<1>7. \A i \in Items(k) \ F : HasRow(k, writing[i], log, R)
  BY <1>2 DEF HasRow
<1>8. k \in RowKinds \ {"order"}
  BY DEF RowKinds
<1>9. QED
  BY <1>2, <1>5, <1>6, <1>7, <1>8, OtherWritten

\* All of them.
LEMMA WroteKind ==
  ASSUME RecordsInv, NEW k \in RowKinds, NEW F, F \subseteq Items(k),
         NEW R, R = [rows EXCEPT ![k] = Saved(k, F)]
  PROVE  Wrote(k, F, R)
<1>1. CASE k = "order"
  <2>1. R = [rows EXCEPT !["order"] = SaveOrders(F)]
    BY <1>1 DEF Saved
  <2>2. QED
    BY <1>1, <2>1, WroteOrders
<1>2. CASE k = "fill"
  <2>1. R = [rows EXCEPT !["fill"] = SaveFills(F)]
    BY <1>2 DEF Saved
  <2>2. QED
    BY <1>2, <2>1, WroteFills
<1>3. CASE k = "position"
  <2>1. R = [rows EXCEPT !["position"] = SavePositions(F)]
    BY <1>3 DEF Saved
  <2>2. QED
    BY <1>3, <2>1, WrotePositions
<1>4. CASE k = "market"
  <2>1. R = [rows EXCEPT !["market"] = SaveMarkets(F)]
    BY <1>4 DEF Saved
  <2>2. QED
    BY <1>4, <2>1, WroteMarkets
<1>5. CASE k \in {"audit", "outbox"}
  <2>1. R = [rows EXCEPT ![k] = IF k = "audit" THEN SaveAudit(F) ELSE SaveOutbox(F)]
    BY <1>5 DEF Saved
  <2>2. QED
    BY <1>5, <2>1, WroteLogs
<1>6. QED
  BY <1>1, <1>2, <1>3, <1>4, <1>5 DEF RowKinds


\* More rows and more refusals keep what is known of the outbox,
LEMMA BoxGains ==
  ASSUME NEW L, LogOK(L), NEW R, NEW S, Gains(R, S), NEW f \in Nat, NEW g \in Nat, f <= g,
         NEW b, BoxSound(b, L, R, f)
  PROVE  BoxSound(b, L, S, g)
<1>1. /\ BoxOK(b, TypesOf(L)) /\ CritBox(b, TypesOf(L))
      /\ MapOK(b.events, TypesOf(L)) /\ MapOK(b.retained, TypesOf(L))
  BY DEF BoxSound, BoxOK, Shape
<1>2. \A e : WellFormed(TypesOf(L), e) => e.retry \in Nat
  BY OutboxAssumption DEF WellFormed
<1>3. \A e : EventOK(L, R, f, e) /\ e.retry \in Nat => EventOK(L, S, g, e)
  BY GainsKeep
<1>4. \A i \in DOMAIN b.events : EventOK(L, S, g, b.events[i])
  <2>1. \A i \in DOMAIN b.events : EventOK(L, R, f, b.events[i]) /\ b.events[i].retry \in Nat
    BY <1>1, <1>2 DEF BoxSound, MapOK
  <2>2. QED
    BY <1>3, <2>1
<1>5. \A i \in DOMAIN b.retained : EventOK(L, S, g, b.retained[i]) /\ ~IsCritical(b.retained[i])
  <2>1. \A i \in DOMAIN b.retained : /\ EventOK(L, R, f, b.retained[i]) /\ b.retained[i].retry \in Nat
                                     /\ ~IsCritical(b.retained[i])
    BY <1>1, <1>2 DEF BoxSound, MapOK
  <2>2. QED
    BY <1>3, <2>1
<1>6. ASSUME NEW e \in b.dead
      PROVE  GivenUp(L, S, g, e)
  <2>1. /\ GivenUp(L, R, f, e) /\ e.retry \in Nat
    BY OutboxAssumption DEF BoxSound, GivenUp
  <2>2. Excused(L, S, g, e, e.retry)
    BY <2>1, GainsKeep DEF GivenUp
  <2>3. QED
    BY <2>1, <2>2 DEF GivenUp
<1>7. QED
  BY <1>1, <1>4, <1>5, <1>6 DEF BoxSound

\* and of what is acknowledged.
LEMMA RecordedGains ==
  ASSUME RecordsInv, NEW R, Gains(rows, R), NEW a \in acked
  PROVE  /\ a[2] \in DOMAIN log
         /\ a[1] \in R.audit /\ a[1] \in R.outbox
         /\ log[a[2]].typ # "balance"
         /\ log[a[2]].typ = "order" => R.order[log[a[2]].subject].key = a[1]
         /\ log[a[2]].typ = "fill" => R.fill[log[a[2]].subject] # Absent
         /\ log[a[2]].typ = "position" => R.position # NoPosition
         /\ log[a[2]].typ \in MarketTypes /\ log[a[2]].value # Absent => R.market # Absent
<1>1. a[2] \in DOMAIN log /\ Recorded(a[1], log[a[2]])
  BY DEF RecordsInv
<1>2. Told(log[a[2]])
  BY <1>1 DEF RecordsInv, LogOK
<1>3. rows.audit \subseteq 1..MaxEvents
  BY DEF RecordsInv, Tables, AuditTable
<1>4. a[1] # 0
  BY <1>1, <1>3 DEF Recorded
<1>5. QED
  BY <1>1, <1>2, <1>4 DEF Recorded, Gains, Told

\* The records of one kind are written: what was tried is excused, what is
\* written has its row.
LEMMA WriteKindStep ==
  ASSUME RecordsInv, WriteKind
  PROVE  RecordsInv'
<1> DEFINE k == KindOrder[kind]
<1>1. PICK F \in SUBSET Items(k) :
        /\ failures' = failures + Cardinality(F)
        /\ rows' = [rows EXCEPT ![k] = Saved(k, F)]
        /\ failed' = failed \union {<<writing[i].id, k>> : i \in Refused(k, F)}
  BY DEF WriteKind
<1>2. /\ kind \in 1..6 /\ kind' = NextKind(writing, kind)
      /\ UNCHANGED <<state, filled, up, account, listing, asked, log, outbox, writing,
                     acked, crashes>>
  BY KindOrderIs DEF WriteKind, exchange
<1>3. k \in RowKinds
  BY <1>2, KindOrderIs
<1> HIDE DEF k
<1>4. Wrote(k, F, rows')
  <2>1. F \subseteq Items(k)
    BY <1>1
  <2>2. rows' = [rows EXCEPT ![k] = Saved(k, F)]
    BY <1>1
  <2>3. QED
    BY <1>3, <2>1, <2>2, WroteKind
<1>5. /\ LogOK(log) /\ failures \in Nat /\ crashes \in Nat
      /\ BoxSound(outbox, log, rows, failures)
      /\ writing \in Seq(EventsOf(TypesOf(log))) /\ Distinct(writing)
      /\ InHand(writing, 0, outbox, log, rows, failures)
  BY DEF RecordsInv, StoreOK, WritingOK
<1>6. /\ Cardinality(F) \in Nat /\ (F # {} => Cardinality(F) >= 1)
      /\ failures' \in Nat /\ failures <= failures' /\ (F # {} => failures + 1 <= failures')
  <2>1. F \subseteq 1..Len(writing) /\ Len(writing) \in Nat
    BY <1>1, <1>5 DEF Items
  <2>2. IsFiniteSet(F)
    <3>1. 1 \in Int /\ Len(writing) \in Int
      BY <2>1
    <3>2. IsFiniteSet(1..Len(writing))
      BY <3>1, FS_Interval
    <3>3. QED
      BY <2>1, <3>2, FS_Subset
  <2>3. Cardinality(F) \in Nat
    BY <2>2, FS_CardinalityType
  <2>4. Cardinality(F) = 0 <=> F = {}
    BY <2>2, FS_EmptySet
  <2>5. QED
    BY <1>1, <1>5, <2>3, <2>4
<1>7. rows' \in Tables /\ Gains(rows, rows')
  BY <1>4 DEF Wrote
<1>8. BoxSound(outbox, log, rows', failures')
  BY <1>5, <1>6, <1>7, BoxGains
<1>9. \A e : /\ \A n : e.ver \in DOMAIN log /\ log[e.ver].typ = e.typ
                       /\ Excused(log, rows, failures, e, n) /\ n \in Nat
                     => Excused(log, rows', failures', e, n)
             /\ EventOK(log, rows, failures, e) /\ e.retry \in Nat => EventOK(log, rows', failures', e)
             /\ \A l \in RowKinds : e.ver \in DOMAIN log /\ log[e.ver].typ = e.typ /\ HasRow(l, e, log, rows)
                  /\ (l = "order" => e.typ = "order" /\ e.id # 0) /\ (l = "fill" => e.typ = "fill")
                  => HasRow(l, e, log, rows')
  BY <1>5, <1>6, <1>7, GainsKeep
<1>10. \A j \in DOMAIN writing :
         /\ j \in Nat /\ writing[j].typ \in Types /\ writing[j].ver \in DOMAIN log
         /\ log[writing[j].ver].typ = writing[j].typ
         /\ writing[j].id # 0 /\ writing[j].retry \in Nat
         /\ EventOK(log, rows, failures, writing[j])
  BY WritingIs
<1>11. InHand(writing, 0, outbox, log, rows', failures')
  BY <1>5, <1>9, <1>10 DEF InHand
<1>12. ASSUME NEW j \in DOMAIN writing, NEW l \in RowKinds, <<writing[j].id, l>> \in failed'
       PROVE  Excused(log, rows', failures', writing[j], writing[j].retry + 1)
  <2>1. CASE <<writing[j].id, l>> \in failed
    <3>1. Excused(log, rows, failures, writing[j], writing[j].retry + 1)
      BY <2>1 DEF RecordsInv, WritingOK
    <3>2. writing[j].retry + 1 \in Nat
      BY <1>10
    <3>3. QED
      BY <1>9, <1>10, <3>1, <3>2
  <2>2. CASE <<writing[j].id, l>> \notin failed
    <3>1. PICK i \in Refused(k, F) : writing[i].id = writing[j].id
      BY <1>1, <1>12, <2>2
    <3>2. i \in DOMAIN writing
      BY <1>1, <3>1 DEF Refused, Items
    <3>3. i = j
      BY <1>5, <3>1, <3>2 DEF Distinct
    <3>4. CASE i \in F
      <4>1. failures + 1 <= failures'
        BY <1>6, <3>4
      <4>2. Excused(log, rows, failures, writing[j], writing[j].retry)
        BY <1>10 DEF EventOK
      <4>3. CASE failures >= writing[j].retry
        <5>1. failures' >= writing[j].retry + 1
          BY <1>5, <1>6, <1>10, <4>1, <4>3
        <5>2. QED
          BY <5>1 DEF Excused
      <4>4. CASE Beaten(log, rows, writing[j])
        <5>1. Excused(log, rows, failures, writing[j], writing[j].retry + 1) /\ writing[j].retry + 1 \in Nat
          BY <1>10, <4>4 DEF Excused
        <5>2. QED
          BY <1>9, <1>10, <5>1
      <4>5. QED
        BY <4>2, <4>3, <4>4 DEF Excused
    <3>5. CASE i \notin F
      BY <1>4, <3>1, <3>3, <3>5 DEF Wrote, Excused
    <3>6. QED
      BY <3>4, <3>5
  <2>3. QED
    BY <2>1, <2>2
<1>13. /\ kind' \in 1..7
       /\ \A l \in 1..6 : kind < l /\ l < kind' => \A i \in DOMAIN writing : KindOrder[l] \notin KindsOf(writing[i])
  <2>1. kind \in 0..6
    BY <1>2
  <2>2. QED
    BY <1>2, <2>1, NextKindIs
<1>14. ASSUME NEW j \in DOMAIN writing, NEW l \in 1..6, l < kind',
              KindOrder[l] \in KindsOf(writing[j]), <<writing[j].id, KindOrder[l]>> \notin failed'
       PROVE  HasRow(KindOrder[l], writing[j], log, rows')
  <2>0. KindOrder[l] \in RowKinds
    BY KindOrderIs
  <2>1. CASE l < kind
    <3>1. HasRow(KindOrder[l], writing[j], log, rows)
      BY <1>1, <1>14, <2>1 DEF RecordsInv, WritingOK
    <3>2. /\ KindOrder[l] = "order" => writing[j].typ = "order"
          /\ KindOrder[l] = "fill" => writing[j].typ = "fill"
      BY <1>10, <1>14, KindsAre
    <3>3. QED
      BY <1>9, <1>10, <2>0, <3>1, <3>2
  <2>2. CASE l = kind
    <3>1. KindOrder[l] = k
      BY <2>2 DEF k
    <3>2. j \in Items(k) /\ j \notin Refused(k, F)
      BY <1>1, <1>14, <3>1 DEF Items
    <3>3. QED
      BY <1>4, <3>1, <3>2 DEF Wrote
  <2>3. CASE kind < l
    BY <1>13, <1>14, <2>3
  <2>4. QED
    BY <1>2, <2>1, <2>2, <2>3
<1>15. WritingOK'
  <2>1. \A j \in DOMAIN writing : KindsOf(writing[j])' = KindsOf(writing[j])
    BY <1>2 DEF KindsOf, Payload
  <2>2. kind' \in 0..7 /\ kind' # 0
    BY <1>13
  <2>3. /\ (writing \in Seq(EventsOf(TypesOf(log))))' /\ Distinct(writing)'
        /\ InHand(writing, 0, outbox, log, rows, failures)'
    BY <1>2, <1>5, <1>11 DEF Distinct
  <2>4. ASSUME NEW j \in DOMAIN writing', NEW l \in RowKinds, <<writing'[j].id, l>> \in failed'
        PROVE  Excused(log', rows', failures', writing'[j], writing'[j].retry + 1)
    BY <1>2, <1>12, <2>4
  <2>5. ASSUME NEW j \in DOMAIN writing', NEW l \in 1..6, l < kind',
               KindOrder[l] \in KindsOf(writing[j])', <<writing'[j].id, KindOrder[l]>> \notin failed'
        PROVE  HasRow(KindOrder[l], writing'[j], log', rows')
    BY <1>2, <1>14, <2>1, <2>5
  <2>6. QED
    BY <2>2, <2>3, <2>4, <2>5 DEF WritingOK
<1>16. RowsTold'
  <2>1. SUFFICES ASSUME NEW o \in Orders, rows'.order[o] # NoRow
                 PROVE  \E n \in DOMAIN log : /\ log[n].typ = "order" /\ log[n].subject = o
                                              /\ rows'.order[o].status = log[n].value
    BY <1>2 DEF RowsTold
  <2>2. CASE rows'.order[o] = rows.order[o]
    BY <2>1, <2>2 DEF RecordsInv, RowsTold
  <2>3. CASE rows'.order[o] # rows.order[o]
    <3>1. PICK i \in Items("order") : Of(i).subject = o /\ rows'.order[o].status = Of(i).value
      BY <1>4, <2>3 DEF Wrote
    <3>2. writing[i].typ = "order" /\ i \in DOMAIN writing
      BY <3>1, ItemIs DEF RowKinds
    <3>3. writing[i].ver \in DOMAIN log /\ log[writing[i].ver].typ = "order"
      BY <1>10, <3>2
    <3>4. QED
      BY <3>1, <3>3 DEF Of, Payload
  <2>4. QED
    BY <2>2, <2>3
<1>17. (\A a \in acked : a[2] \in DOMAIN log /\ Recorded(a[1], log[a[2]]))'
  BY <1>2, <1>7, RecordedGains DEF Recorded
<1>18. ExchangeOK' /\ OpenTold'
  <2>1. SharesHeld' = SharesHeld
    BY <1>2 DEF SharesHeld
  <2>2. QED
    BY <1>2, <2>1 DEF RecordsInv, ExchangeOK, OpenTold
<1>19. StoreOK'
  BY <1>2, <1>6 DEF RecordsInv, StoreOK
<1>20. LogOK(log)' /\ Roomy(outbox, Len(writing), log)' /\ BoxSound(outbox, log, rows, failures)'
       /\ (rows \in Tables)'
  <2>1. LogOK(log)'
    BY <1>2, <1>5
  <2>2. Roomy(outbox, Len(writing), log)'
    BY <1>2 DEF RecordsInv
  <2>3. QED
    BY <1>2, <1>7, <1>8, <2>1, <2>2 DEF Tables
<1>21. QED
  BY <1>15, <1>16, <1>17, <1>18, <1>19, <1>20 DEF RecordsInv


--------------------------------------------------------------------------------
(* Promotions and acknowledgements. *)

\* As many elements as places.
LEMMA CountPlaces ==
  ASSUME NEW T, NEW m \in Seq(T), \A i, j \in DOMAIN m : m[i] = m[j] => i = j
  PROVE  /\ IsFiniteSet(ToSet(m)) /\ Cardinality(ToSet(m)) = Len(m) /\ Len(m) \in Nat
         /\ ToSet(m) \subseteq T
<1>1. DOMAIN m = 1..Len(m) /\ Len(m) \in Nat /\ ToSet(m) = {m[i] : i \in 1..Len(m)}
  BY DEF ToSet
<1>2. IsFiniteSet(1..Len(m)) /\ Cardinality(1..Len(m)) = Len(m)
  <2>1. 1 \in Int /\ Len(m) \in Int
    BY <1>1
  <2>2. /\ IsFiniteSet(1..Len(m))
        /\ Cardinality(1..Len(m)) = IF 1 > Len(m) THEN 0 ELSE Len(m) - 1 + 1
    BY <2>1, FS_Interval
  <2>3. QED
    BY <1>1, <2>2
<1>3. m \in Bijection(1..Len(m), ToSet(m))
  <2>1. m \in [1..Len(m) -> ToSet(m)]
    BY <1>1
  <2>2. \A x, y \in 1..Len(m) : m[x] = m[y] => x = y
    BY <1>1
  <2>3. \A t \in ToSet(m) : \E x \in 1..Len(m) : m[x] = t
    BY <1>1
  <2>4. QED
    BY <2>1, <2>2, <2>3 DEF Bijection, Injection, Surjection, IsInjective
<1>4. ExistsBijection(1..Len(m), ToSet(m))
  BY <1>3 DEF ExistsBijection
<1>5. IsFiniteSet(ToSet(m)) /\ Cardinality(ToSet(m)) = Cardinality(1..Len(m))
  BY <1>2, <1>4, FS_Bijection
<1>6. ToSet(m) \subseteq T
  BY <1>1
<1>7. QED
  BY <1>1, <1>2, <1>5, <1>6

\* A promotion puts retained events behind the others in the ready queue.
LEMMA PromoteIs ==
  ASSUME NEW p, Publications(p), NEW b, Shape(b, p), NEW r, r = Promote(b)
  PROVE  /\ DOMAIN r = DOMAIN b
         /\ r.events = b.events /\ r.index = b.index /\ r.dead = b.dead
         /\ Len(b.ready) \in Nat /\ Len(r.ready) \in Nat
         /\ Cardinality(DOMAIN b.retained) \in Nat /\ Cardinality(DOMAIN r.retained) \in Nat
         /\ Len(r.ready) + Cardinality(DOMAIN r.retained)
              = Len(b.ready) + Cardinality(DOMAIN b.retained)
         /\ Len(b.ready) <= Len(r.ready)
         /\ \A j \in DOMAIN b.ready : j \in DOMAIN r.ready /\ r.ready[j] = b.ready[j]
         /\ \A j \in DOMAIN r.ready :
              \/ j \in DOMAIN b.ready
              \/ /\ r.ready[j].id \in DOMAIN b.retained
                 /\ r.ready[j] = Entry(b.retained[r.ready[j].id])
         /\ \A i \in DOMAIN r.retained : i \in DOMAIN b.retained /\ r.retained[i] = b.retained[i]
<1> DEFINE room == MaxSize - Len(b.ready)
           m == Promotable(b, room)
           x == [n \in DOMAIN m |-> Entry(b.retained[m[n]])]
           T == [prio : 0..3, id : DOMAIN p]
<1>1. room \in Nat /\ Len(b.ready) \in Nat /\ DOMAIN b.ready = 1..Len(b.ready)
      /\ b.ready \in Seq(T)
  BY ReadyFacts, OutboxAssumption DEF Shape, ReadyOK
<1>2. /\ m \in Seq(DOMAIN b.retained \ b.queued)
      /\ Len(m) <= room
      /\ \A i, j \in DOMAIN m : m[i] = m[j] => i = j
  <2> HIDE DEF room
  <2>1. QED
    BY <1>1, PromotableFacts
<1>3. r = Promoted(b, m)
  BY DEF Promote
<1> HIDE DEF m, room
<1>4. DOMAIN m = 1..Len(m) /\ Len(m) \in Nat /\ \A n \in DOMAIN m : m[n] \in DOMAIN b.retained
  BY <1>2
<1>5. \A i \in DOMAIN b.retained : /\ b.retained[i].id = i /\ i \in DOMAIN p
                                   /\ b.retained[i].typ \in Types
  BY MapFinite DEF Shape, MapOK
<1>6. /\ x \in Seq(T) /\ Len(x) = Len(m)
      /\ \A n \in 1..Len(m) : /\ x[n].id \in DOMAIN b.retained
                             /\ x[n] = Entry(b.retained[x[n].id])
  <2>1. \A n \in 1..Len(m) : x[n].id = m[n] /\ x[n] = Entry(b.retained[m[n]])
    BY <1>4, <1>5 DEF Entry
  <2>2. x \in [1..Len(m) -> T]
    BY <1>4, <1>5, OutboxAssumption DEF Entry
  <2> HIDE DEF x, T
  <2>3. QED
    BY <1>4, <2>1, <2>2, EnumerationIsSeq
<1>7. /\ DOMAIN r = DOMAIN b
      /\ r.ready = b.ready \o x
      /\ r.retained = [i \in DOMAIN b.retained \ ToSet(m) |-> b.retained[i]]
      /\ r.events = b.events /\ r.index = b.index /\ r.dead = b.dead
  BY <1>3 DEF Promoted, Shape, IsBox
<1> HIDE DEF x, T
<1>8. /\ Len(r.ready) = Len(b.ready) + Len(m)
      /\ DOMAIN r.ready = 1..(Len(b.ready) + Len(m))
      /\ \A i \in 1..(Len(b.ready) + Len(m)) :
           r.ready[i] = IF i <= Len(b.ready) THEN b.ready[i] ELSE x[i - Len(b.ready)]
  <2> DEFINE q == b.ready
  <2> HIDE DEF q
  <2>1. q \in Seq(T) /\ r.ready = q \o x /\ x \in Seq(T)
    BY <1>1, <1>6, <1>7 DEF q
  <2>2. /\ Len(q \o x) = Len(q) + Len(x)
        /\ DOMAIN (q \o x) = 1..(Len(q) + Len(x))
        /\ \A i \in 1..(Len(q) + Len(x)) :
             (q \o x)[i] = IF i <= Len(q) THEN q[i] ELSE x[i - Len(q)]
    BY <2>1, ConcatProperties
  <2>3. QED
    BY <1>6, <2>1, <2>2 DEF q
<1>9. \A j \in DOMAIN b.ready : j \in DOMAIN r.ready /\ r.ready[j] = b.ready[j]
  BY <1>1, <1>4, <1>8
<1>10. \A j \in DOMAIN r.ready :
         \/ j \in DOMAIN b.ready
         \/ /\ r.ready[j].id \in DOMAIN b.retained
            /\ r.ready[j] = Entry(b.retained[r.ready[j].id])
  <2>1. ASSUME NEW j \in DOMAIN r.ready, j \notin DOMAIN b.ready
        PROVE  /\ r.ready[j].id \in DOMAIN b.retained
               /\ r.ready[j] = Entry(b.retained[r.ready[j].id])
    <3>1. j - Len(b.ready) \in 1..Len(m) /\ ~(j <= Len(b.ready)) /\ j \in 1..(Len(b.ready) + Len(m))
      BY <1>1, <1>4, <1>8, <2>1
    <3>2. r.ready[j] = x[j - Len(b.ready)]
      BY <1>8, <3>1
    <3>3. QED
      BY <1>6, <3>1, <3>2
  <2>2. QED
    BY <2>1
<1>11. /\ Cardinality(DOMAIN b.retained) \in Nat
       /\ Cardinality(DOMAIN r.retained) = Cardinality(DOMAIN b.retained) - Len(m)
       /\ Cardinality(DOMAIN r.retained) \in Nat
  <2> DEFINE D == DOMAIN b.retained
  <2>1. IsFiniteSet(D) /\ Cardinality(D) \in Nat
    BY MapFinite DEF Shape
  <2>2. /\ IsFiniteSet(ToSet(m)) /\ Cardinality(ToSet(m)) = Len(m)
        /\ ToSet(m) \subseteq D \ b.queued
    BY <1>2, CountPlaces
  <2>3. DOMAIN r.retained = D \ ToSet(m)
    BY <1>7
  <2> HIDE DEF D
  <2>4. D \intersect ToSet(m) = ToSet(m)
    BY <2>2
  <2>5. Cardinality(D \ ToSet(m)) = Cardinality(D) - Cardinality(D \intersect ToSet(m))
        /\ IsFiniteSet(D \ ToSet(m))
    BY <2>1, FS_Difference
  <2>6. Cardinality(D \ ToSet(m)) \in Nat
    BY <2>5, FS_CardinalityType
  <2>7. Cardinality(D \intersect ToSet(m)) = Len(m)
    BY <2>2, <2>4
  <2>8. QED
    BY <2>1, <2>3, <2>5, <2>6, <2>7 DEF D
<1>12. /\ Len(b.ready) \in Nat /\ Len(r.ready) \in Nat
       /\ Len(r.ready) + Cardinality(DOMAIN r.retained)
            = Len(b.ready) + Cardinality(DOMAIN b.retained)
       /\ Len(b.ready) <= Len(r.ready)
  <2>1. Len(r.ready) = Len(b.ready) + Len(m) /\ Len(b.ready) \in Nat /\ Len(m) \in Nat
    BY <1>1, <1>4, <1>8
  <2>2. QED
    BY <1>11, <2>1
<1>13. \A i \in DOMAIN r.retained : i \in DOMAIN b.retained /\ r.retained[i] = b.retained[i]
  BY <1>7
<1>14. DOMAIN r = DOMAIN b /\ r.events = b.events /\ r.index = b.index /\ r.dead = b.dead
  BY <1>7
<1>15. QED
  BY <1>9, <1>10, <1>11, <1>12, <1>13, <1>14

\* It keeps what is known of the outbox and of the batch.
LEMMA PromoteSound ==
  ASSUME NEW L, LogOK(L), NEW R, NEW f, NEW n \in Nat, NEW m, NEW s, NEW b,
         Sound(b, s, m, L, R, f), Roomy(b, n, L), NEW r, r = Promote(b)
  PROVE  /\ Sound(r, s, m, L, R, f) /\ Roomy(r, n, L)
         /\ r.events = b.events /\ r.dead = b.dead
<1> DEFINE p == TypesOf(L)
<1>1. Publications(p)
  BY LogFacts
<1> HIDE DEF p
<1>2. BoxOK(b, p) /\ CritBox(b, p) /\ Shape(b, p) /\ MapOK(b.retained, p)
  BY DEF Sound, BoxSound, BoxOK, Shape, p
<1>3. BoxOK(r, p) /\ CritBox(r, p)
  BY <1>1, <1>2, PromoteFacts
<1>4. /\ r.events = b.events /\ r.dead = b.dead
      /\ Len(b.ready) \in Nat /\ Len(r.ready) \in Nat
      /\ Cardinality(DOMAIN b.retained) \in Nat /\ Cardinality(DOMAIN r.retained) \in Nat
      /\ Len(r.ready) + Cardinality(DOMAIN r.retained)
           = Len(b.ready) + Cardinality(DOMAIN b.retained)
      /\ \A j \in DOMAIN b.ready : j \in DOMAIN r.ready /\ r.ready[j] = b.ready[j]
      /\ \A j \in DOMAIN r.ready : j \in DOMAIN b.ready \/ r.ready[j].id \in DOMAIN b.retained
      /\ \A i \in DOMAIN r.retained : i \in DOMAIN b.retained /\ r.retained[i] = b.retained[i]
  BY <1>1, <1>2, PromoteIs
<1>5. BoxSound(r, L, R, f)
  BY <1>3, <1>4 DEF Sound, BoxSound, p
<1>6. InHand(s, m, r, L, R, f)
  <2>1. SUFFICES ASSUME NEW j \in DOMAIN s, j > m
                 PROVE  /\ WellFormed(p, s[j])
                        /\ EventOK(L, R, f, s[j])
                        /\ s[j].id \in DOMAIN r.events
                        /\ r.events[s[j].id].retry = s[j].retry
                        /\ IsCritical(s[j]) => ~InReady(r, s[j].id)
    BY DEF InHand, p
  <2>2. /\ WellFormed(p, s[j]) /\ EventOK(L, R, f, s[j])
        /\ s[j].id \in DOMAIN b.events /\ b.events[s[j].id].retry = s[j].retry
        /\ IsCritical(s[j]) => ~InReady(b, s[j].id)
    BY <2>1 DEF Sound, InHand, p
  <2>3. ASSUME IsCritical(s[j]), InReady(r, s[j].id)
        PROVE  FALSE
    <3>1. s[j].id \in DOMAIN b.retained
      BY <1>4, <2>2, <2>3 DEF InReady
    <3>2. b.retained[s[j].id].typ = s[j].typ
      BY <1>2, <2>2, <3>1 DEF MapOK, WellFormed
    <3>3. QED
      BY <2>3, <3>1, <3>2 DEF Sound, BoxSound, IsCritical
  <2>4. QED
    BY <1>4, <2>2, <2>3
<1>7. Roomy(r, n, L)
  BY <1>4 DEF Roomy
<1>8. QED
  BY <1>4, <1>5, <1>6, <1>7 DEF Sound

\* Apart from event id, r has what b has pending.
Leaves(b, r, id) ==
  \A i : i # id =>
    /\ i \in DOMAIN b.events => i \in DOMAIN r.events /\ r.events[i] = b.events[i]
    /\ InReady(r, i) => InReady(b, i)

\* One more event of the batch is settled.
LEMMA HandLeft ==
  ASSUME NEW L, NEW R, NEW f, NEW s, NEW T, s \in Seq(T), NEW m, m + 1 \in DOMAIN s, m \in Nat,
         Distinct(s), NEW b, InHand(s, m, b, L, R, f),
         NEW r, Leaves(b, r, s[m + 1].id)
  PROVE  InHand(s, m + 1, r, L, R, f)
<1>1. SUFFICES ASSUME NEW j \in DOMAIN s, j > m + 1
               PROVE  /\ WellFormed(TypesOf(L), s[j])
                      /\ EventOK(L, R, f, s[j])
                      /\ s[j].id \in DOMAIN r.events
                      /\ r.events[s[j].id].retry = s[j].retry
                      /\ IsCritical(s[j]) => ~InReady(r, s[j].id)
  BY DEF InHand
<1>2. j \in Nat /\ j > m /\ j # m + 1
  BY <1>1
<1>3. s[j].id # s[m + 1].id
  BY <1>2 DEF Distinct
<1>4. QED
  BY <1>2, <1>3 DEF InHand, Leaves


\* What ack leaves, before it promotes.
Acked(b, id) ==
  [b EXCEPT !.events = Without(@, id),
            !.queued = @ \ {id},
            !.retained = Without(@, id),
            !.index = IF id \in DOMAIN b.events THEN Unindexed(b, b.events[id]) ELSE b.index]

\* That keeps the outbox well formed, and every critical event in one place.
LEMMA AckedIs ==
  ASSUME NEW p, Publications(p), NEW b, BoxOK(b, p), NEW id, NEW r, r = Acked(b, id)
  PROVE  /\ BoxOK(r, p) /\ Ack(b, id) = Promote(r)
         /\ r.ready = b.ready /\ r.dead = b.dead
         /\ r.events = Without(b.events, id) /\ r.retained = Without(b.retained, id)
         /\ CritBox(b, p) /\ (Critical(p, id) => ~InReady(b, id)) => CritBox(r, p)
<1> DEFINE ix == IF id \in DOMAIN b.events THEN Unindexed(b, b.events[id]) ELSE b.index
<1>1. /\ DOMAIN r = DOMAIN b
      /\ r.ready = b.ready /\ r.dead = b.dead
      /\ r.events = Without(b.events, id)
      /\ r.queued = b.queued \ {id}
      /\ r.retained = Without(b.retained, id)
      /\ r.index = ix
  <2>1. r = [b EXCEPT !.events = Without(@, id), !.queued = @ \ {id},
                      !.retained = Without(@, id), !.index = ix]
    BY DEF Acked
  <2> HIDE DEF ix
  <2>2. QED
    BY <2>1 DEF BoxOK, Shape, IsBox
<1>2. Ack(b, id) = Promote(r)
  BY DEF Ack, Acked
<1>3. MapOK(r.events, p) /\ MapOK(r.retained, p)
  BY <1>1 DEF BoxOK, Shape, MapOK, Without
<1>4. IndexOK(r, p)
  <2>1. ASSUME NEW t \in DOMAIN ix
        PROVE  t \in DOMAIN b.index /\ ix[t] = b.index[t] /\ ix[t] # id
    <3>1. CASE id \in DOMAIN b.events
      <4>1. b.events[id].typ = p[id] /\ b.events[id].id = id
        BY <3>1, MapFinite DEF BoxOK, Shape
      <4>2. t \in DOMAIN b.index /\ ix[t] = b.index[t]
        BY <3>1 DEF Unindexed, Without
      <4>3. SUFFICES ASSUME b.index[t] = id  PROVE FALSE
        BY <4>2
      <4>4. p[id] = t /\ t \in Identified /\ PriorityOf[t] >= 2
        BY <4>2, <4>3 DEF BoxOK, Shape, IndexOK
      <4>5. Mergeable(b.events[id])
        BY <4>1, <4>4 DEF Mergeable
      <4>6. ix = Without(b.index, t)
        BY <3>1, <4>1, <4>2, <4>3, <4>4, <4>5 DEF Unindexed
      <4>7. QED
        BY <4>2, <4>6 DEF Without
    <3>2. CASE id \notin DOMAIN b.events
      BY <3>2 DEF BoxOK, Shape, IndexOK
    <3>3. QED
      BY <3>1, <3>2
  <2> HIDE DEF ix
  <2>2. QED
    BY <1>1, <2>1 DEF BoxOK, Shape, IndexOK, Without
<1>5. DOMAIN r.retained = DOMAIN b.retained \ {id} /\ RoomOK(r, p)
  <2>1. DOMAIN r.retained = DOMAIN b.retained \ {id}
    BY <1>1 DEF Without
  <2>2. QED
    BY <2>1, RoomShrinks DEF BoxOK, Shape
<1>6. BoxOK(r, p)
  BY <1>1, <1>3, <1>4, <1>5 DEF BoxOK, Shape, IsBox, ReadyOK, QueuedOK, DeadOK
<1>7. \A i : InReady(r, i) <=> InReady(b, i)
  BY <1>1 DEF InReady
<1>9. ASSUME CritBox(b, p), Critical(p, id) => ~InReady(b, id)
      PROVE  CritBox(r, p)
  <2>1. SUFFICES ASSUME NEW i \in DOMAIN p, Critical(p, i)  PROVE OnePlace(r, i)
    BY DEF CritBox
  <2>2. OnePlace(b, i)
    BY <1>9, <2>1 DEF CritBox
  <2>3. QED
    BY <1>1, <1>5, <1>7, <1>9, <2>1, <2>2 DEF OnePlace, Once, Without
<1>10. QED
  BY <1>1, <1>2, <1>6, <1>9

\* Event number m + 1 of the batch s of the worker is settled next.
Settling(L, R, f, s, m, b) ==
  /\ LogOK(L) /\ s \in Seq(EventsOf(TypesOf(L))) /\ Distinct(s)
  /\ m \in Nat /\ m + 1 \in DOMAIN s
  /\ Sound(b, s, m, L, R, f)
  /\ Roomy(b, Len(s) - m, L)

\* What is known of it.
LEMMA SettlingIs ==
  ASSUME NEW L, NEW R, NEW f, NEW s, NEW m, NEW b, Settling(L, R, f, s, m, b),
         NEW e, e = s[m + 1], NEW p, p = TypesOf(L)
  PROVE  /\ Publications(p) /\ BoxOK(b, p) /\ CritBox(b, p) /\ Shape(b, p)
         /\ MapOK(b.events, p) /\ MapOK(b.retained, p) /\ ReadyOK(b, p)
         /\ WellFormed(p, e) /\ EventOK(L, R, f, e) /\ e.id \in DOMAIN b.events
         /\ b.events[e.id].retry = e.retry /\ b.events[e.id].id = e.id
         /\ b.events[e.id].typ = e.typ /\ WellFormed(p, b.events[e.id])
         /\ EventOK(L, R, f, b.events[e.id])
         /\ e.retry \in Nat /\ e.retry <= MaxRetryCount
         /\ Critical(p, e.id) <=> IsCritical(e)
         /\ Critical(p, e.id) => ~InReady(b, e.id) /\ e.id \notin DOMAIN b.retained
         /\ Len(s) - m \in Nat /\ Len(s) - m >= 1 /\ Len(s) - (m + 1) \in Nat
         /\ Len(b.ready) \in Nat /\ Cardinality(DOMAIN b.retained) \in Nat
         /\ IsFiniteSet(DOMAIN b.retained)
         /\ Len(b.ready) < MaxSize /\ Cardinality(DOMAIN b.retained) < RetainedMaxSize
<1>1. /\ LogOK(L) /\ s \in Seq(EventsOf(TypesOf(L))) /\ m \in Nat /\ m + 1 \in DOMAIN s
      /\ BoxSound(b, L, R, f) /\ InHand(s, m, b, L, R, f)
      /\ Roomy(b, Len(s) - m, L)
  BY DEF Settling, Sound
<1>2. DOMAIN s = 1..Len(s) /\ Len(s) \in Nat
  BY <1>1
<1>3. Len(s) - m \in Nat /\ Len(s) - m >= 1 /\ Len(s) - (m + 1) \in Nat /\ m + 1 > m
  BY <1>1, <1>2
<1>4. Publications(p) /\ Len(L) \in Nat /\ Len(L) <= MaxEvents
  BY <1>1, LogFacts
<1>5. BoxOK(b, p) /\ CritBox(b, p) /\ Shape(b, p) /\ MapOK(b.events, p) /\ MapOK(b.retained, p)
      /\ ReadyOK(b, p)
  BY <1>1 DEF BoxSound, BoxOK, Shape
<1>6. /\ WellFormed(p, e) /\ EventOK(L, R, f, e) /\ e.id \in DOMAIN b.events
      /\ b.events[e.id].retry = e.retry /\ (IsCritical(e) => ~InReady(b, e.id))
  BY <1>1, <1>3 DEF InHand
<1>7. WellFormed(p, b.events[e.id]) /\ b.events[e.id].id = e.id /\ EventOK(L, R, f, b.events[e.id])
  BY <1>1, <1>5, <1>6 DEF MapOK, BoxSound
<1>8. e.typ = p[e.id] /\ b.events[e.id].typ = e.typ /\ e.retry \in 0..MaxRetryCount
  BY <1>6, <1>7 DEF WellFormed
<1>9. Critical(p, e.id) <=> IsCritical(e)
  BY <1>8 DEF Critical, IsCritical
<1>10. Critical(p, e.id) => e.id \notin DOMAIN b.retained
  <2>1. SUFFICES ASSUME Critical(p, e.id), e.id \in DOMAIN b.retained  PROVE FALSE
    OBVIOUS
  <2>2. b.retained[e.id].typ = p[e.id] /\ ~IsCritical(b.retained[e.id])
    BY <1>1, <1>5, <2>1 DEF MapOK, WellFormed, BoxSound
  <2>3. QED
    BY <2>1, <2>2 DEF Critical, IsCritical
<1>11. Len(b.ready) \in Nat /\ Cardinality(DOMAIN b.retained) \in Nat /\ IsFiniteSet(DOMAIN b.retained)
  BY <1>4, <1>5, MapFinite, ReadyFacts
<1>12. Len(b.ready) < MaxSize /\ Cardinality(DOMAIN b.retained) < RetainedMaxSize
  BY <1>1, <1>3, <1>4, <1>11, OutboxAssumption, RecordsAssumption DEF Roomy
<1>13. e.retry \in Nat /\ e.retry <= MaxRetryCount
  BY <1>8, OutboxAssumption
<1>14. QED
  BY <1>3, <1>4, <1>5, <1>6, <1>7, <1>8, <1>9, <1>10, <1>11, <1>12, <1>13

\* The event settled leaves the batch.
SettledTo(L, R, f, s, m, r) ==
  Sound(r, s, m, L, R, f) /\ Roomy(r, Len(s) - m, L)

\* An acknowledgement.
LEMMA AckSound ==
  ASSUME NEW L, NEW R, NEW f, NEW s, NEW m, NEW b, Settling(L, R, f, s, m, b),
         NEW r, r = Ack(b, s[m + 1].id)
  PROVE  SettledTo(L, R, f, s, m + 1, r)
<1> DEFINE p == TypesOf(L)
           e == s[m + 1]
           c == Acked(b, e.id)
<1>1. /\ Publications(p) /\ BoxOK(b, p) /\ CritBox(b, p)
      /\ Critical(p, e.id) => ~InReady(b, e.id)
      /\ Len(s) - m \in Nat /\ Len(s) - (m + 1) \in Nat
      /\ Len(b.ready) \in Nat /\ Cardinality(DOMAIN b.retained) \in Nat
      /\ IsFiniteSet(DOMAIN b.retained)
  BY SettlingIs
<1>2. /\ LogOK(L) /\ m \in Nat /\ m + 1 \in DOMAIN s /\ Distinct(s) /\ s \in Seq(EventsOf(p))
      /\ BoxSound(b, L, R, f) /\ InHand(s, m, b, L, R, f) /\ Roomy(b, Len(s) - m, L)
  BY DEF Settling, Sound
<1> HIDE DEF p, e, c
<1>3. /\ BoxOK(c, p) /\ r = Promote(c)
      /\ c.ready = b.ready /\ c.dead = b.dead
      /\ c.events = Without(b.events, e.id) /\ c.retained = Without(b.retained, e.id)
      /\ CritBox(c, p)
  <2>1. /\ BoxOK(c, p) /\ Ack(b, e.id) = Promote(c)
        /\ c.ready = b.ready /\ c.dead = b.dead
        /\ c.events = Without(b.events, e.id) /\ c.retained = Without(b.retained, e.id)
        /\ CritBox(b, p) /\ (Critical(p, e.id) => ~InReady(b, e.id)) => CritBox(c, p)
    BY <1>1, AckedIs DEF c
  <2>2. QED
    BY <1>1, <2>1 DEF e
<1>4. BoxSound(c, L, R, f)
  BY <1>2, <1>3 DEF BoxSound, Without, p
<1>5. InHand(s, m + 1, c, L, R, f)
  <2>1. Leaves(b, c, e.id)
    BY <1>3 DEF Leaves, Without, InReady
  <2>2. QED
    BY <1>2, <2>1, HandLeft DEF e
<1>6. Roomy(c, Len(s) - (m + 1), L)
  <2>1. DOMAIN c.retained \subseteq DOMAIN b.retained
    BY <1>3 DEF Without
  <2>2. Cardinality(DOMAIN c.retained) <= Cardinality(DOMAIN b.retained)
        /\ Cardinality(DOMAIN c.retained) \in Nat
    BY <1>1, <2>1, FS_Subset, FS_CardinalityType
  <2>3. Len(b.ready) + Cardinality(DOMAIN b.retained) + (Len(s) - m) <= Len(L)
        /\ Len(c.ready) = Len(b.ready) /\ Len(L) \in Nat /\ m \in Nat /\ Len(s) \in Nat
    BY <1>2, <1>3, LogFacts DEF Roomy
  <2>4. \A x, y, z, h, i, k \in Nat : y + z + (i - h) <= k /\ x <= z => y + x + (i - (h + 1)) <= k
    OBVIOUS
  <2>5. Len(c.ready) + Cardinality(DOMAIN c.retained) + (Len(s) - (m + 1)) <= Len(L)
    BY ONLY <1>1, <2>2, <2>3, <2>4
  <2>6. QED
    BY <2>5 DEF Roomy
<1>7. Sound(r, s, m + 1, L, R, f) /\ Roomy(r, Len(s) - (m + 1), L)
  <2>1. Sound(c, s, m + 1, L, R, f)
    BY <1>4, <1>5 DEF Sound
  <2>2. Len(s) - (m + 1) \in Nat
    BY <1>1
  <2>3. QED
    BY <1>2, <1>3, <1>6, <2>1, <2>2, PromoteSound
<1>8. QED
  BY <1>7 DEF SettledTo


\* Event x of the outbox is tried once more, and that failed too.
LEMMA TriedAgain ==
  ASSUME NEW L, NEW R, NEW f, NEW s, NEW m, NEW b, Settling(L, R, f, s, m, b),
         NEW e, e = s[m + 1], Excused(L, R, f, e, e.retry + 1),
         NEW w, w = WithRetry(b.events[e.id])
  PROVE  /\ w.id = e.id /\ w.typ = e.typ /\ w.retry = e.retry + 1
         /\ Carries(L, w) /\ Excused(L, R, f, w, w.retry)
         /\ (IsCritical(w) <=> IsCritical(e))
         /\ Current(b, e.id) = b.events[e.id]
<1> DEFINE p == TypesOf(L)
           x == b.events[e.id]
<1>1. /\ EventOK(L, R, f, e) /\ EventOK(L, R, f, x) /\ e.id \in DOMAIN b.events
      /\ x.retry = e.retry /\ x.id = e.id /\ x.typ = e.typ
      /\ WellFormed(p, e) /\ WellFormed(p, x)
      /\ b.events[e.id].retry = e.retry
  BY SettlingIs
<1> HIDE DEF x, p
<1>2. x \in [id : DOMAIN p, typ : Types, ver : Ids, retry : 0..MaxRetryCount]
  BY <1>1 DEF WellFormed
<1>3. w = [x EXCEPT !.retry = @ + 1]
  BY DEF WithRetry, x
<1>4. w.id = e.id /\ w.typ = e.typ /\ w.retry = e.retry + 1 /\ w.ver = x.ver
  BY <1>1, <1>2, <1>3
<1>5. IsCritical(w) <=> IsCritical(e)
  BY <1>4 DEF IsCritical
<1>6. Carries(L, w)
  BY <1>1, <1>4 DEF EventOK, Carries, IsCritical
<1>7. Excused(L, R, f, w, w.retry)
  <2>1. CASE e.typ = "order"
    <3>1. e.typ \in Types /\ PriorityOf["order"] = 0
      BY <1>1, <2>1, RecordPriorities DEF WellFormed
    <3>2. IsCritical(e) /\ IsCritical(x)
      BY <1>1, <2>1, <3>1 DEF IsCritical
    <3>3. e.ver = w.ver
      BY <1>1, <1>4, <3>2 DEF EventOK, Carries
    <3>4. QED
      BY <1>4, <3>3 DEF Excused, Beaten
  <2>2. CASE e.typ # "order"
    BY <1>4, <2>2 DEF Excused, Beaten
  <2>3. QED
    BY <2>1, <2>2
<1>8. Current(b, e.id) = b.events[e.id]
  BY <1>1 DEF Current
<1>9. QED
  BY <1>4, <1>5, <1>6, <1>7, <1>8

\* An event put back: w is what becomes of it, it is stored under its id, and
\* as many events wait as before with the one of the batch.
LEMMA PutBack ==
  ASSUME NEW L, NEW R, NEW f, NEW s, NEW m, NEW b, Settling(L, R, f, s, m, b),
         NEW w, w.id = s[m + 1].id, EventOK(L, R, f, w),
         NEW r, BoxOK(r, TypesOf(L)), CritBox(r, TypesOf(L)),
         IsWith(r.events, b.events, w), r.dead = b.dead,
         \A i \in DOMAIN r.retained : i \in DOMAIN b.retained /\ r.retained[i] = b.retained[i],
         \A i : i # w.id => (InReady(r, i) => InReady(b, i)),
         Len(r.ready) \in Nat, Len(r.ready) <= Len(b.ready) + 1
  PROVE  SettledTo(L, R, f, s, m + 1, r)
<1> DEFINE p == TypesOf(L)
           id == s[m + 1].id
<1>1. /\ Len(s) - m \in Nat /\ Len(s) - (m + 1) \in Nat
      /\ Len(b.ready) \in Nat /\ Cardinality(DOMAIN b.retained) \in Nat
      /\ IsFiniteSet(DOMAIN b.retained)
  BY SettlingIs
<1>2. /\ LogOK(L) /\ m \in Nat /\ m + 1 \in DOMAIN s /\ Distinct(s) /\ s \in Seq(EventsOf(p))
      /\ BoxSound(b, L, R, f) /\ InHand(s, m, b, L, R, f) /\ Roomy(b, Len(s) - m, L)
  BY DEF Settling, Sound
<1> HIDE DEF p
<1>3. BoxSound(r, L, R, f)
  <2>1. \A i \in DOMAIN r.events : EventOK(L, R, f, r.events[i])
    BY <1>2 DEF BoxSound, IsWith
  <2>2. QED
    BY <1>2, <2>1 DEF BoxSound
<1>4. InHand(s, m + 1, r, L, R, f)
  <2>1. Leaves(b, r, id)
    BY DEF Leaves, IsWith
  <2>2. QED
    BY <1>2, <2>1, HandLeft
<1>5. Roomy(r, Len(s) - (m + 1), L)
  <2>1. DOMAIN r.retained \subseteq DOMAIN b.retained
    OBVIOUS
  <2>2. Cardinality(DOMAIN r.retained) <= Cardinality(DOMAIN b.retained)
        /\ Cardinality(DOMAIN r.retained) \in Nat
    BY <1>1, <2>1, FS_Subset, FS_CardinalityType
  <2>3. Len(b.ready) + Cardinality(DOMAIN b.retained) + (Len(s) - m) <= Len(L)
        /\ Len(L) \in Nat /\ m \in Nat /\ Len(s) \in Nat
    BY <1>2, LogFacts DEF Roomy
  <2>4. Len(r.ready) \in Nat /\ Len(r.ready) <= Len(b.ready) + 1
    OBVIOUS
  <2>5. Len(r.ready) + Cardinality(DOMAIN r.retained) + (Len(s) - (m + 1)) <= Len(L)
    <3>1. \A u, v, x, y, k, l, t \in Nat :
            u + v + (k - l) <= t /\ x <= u + 1 /\ y <= v => x + y + (k - (l + 1)) <= t
      OBVIOUS
    <3>2. Len(b.ready) \in Nat /\ Cardinality(DOMAIN b.retained) \in Nat
      BY <1>1
    <3>3. QED
      BY ONLY <2>2, <2>3, <2>4, <3>1, <3>2
  <2>6. QED
    BY <2>5 DEF Roomy
<1>6. QED
  BY <1>3, <1>4, <1>5 DEF SettledTo, Sound

\* A retry.
LEMMA RetriedSound ==
  ASSUME NEW L, NEW R, NEW f, NEW s, NEW m, NEW b, Settling(L, R, f, s, m, b),
         NEW e, e = s[m + 1], Excused(L, R, f, e, e.retry + 1), e.retry < MaxRetryCount,
         NEW r, r = Retried(b, e.id)
  PROVE  SettledTo(L, R, f, s, m + 1, r)
<1> DEFINE p == TypesOf(L)
           w == WithRetry(b.events[e.id])
           st == RetryStore(b, e.id)
<1>1. /\ Publications(p) /\ BoxOK(b, p) /\ CritBox(b, p) /\ Shape(b, p)
      /\ e.id \in DOMAIN b.events /\ b.events[e.id].retry = e.retry
      /\ (Critical(p, e.id) <=> IsCritical(e))
      /\ (Critical(p, e.id) => ~InReady(b, e.id) /\ e.id \notin DOMAIN b.retained)
      /\ Len(b.ready) \in Nat /\ Cardinality(DOMAIN b.retained) \in Nat
      /\ IsFiniteSet(DOMAIN b.retained) /\ ReadyOK(b, p)
      /\ Len(b.ready) < MaxSize /\ Cardinality(DOMAIN b.retained) < RetainedMaxSize
  BY SettlingIs
<1>2. /\ w.id = e.id /\ w.typ = e.typ /\ w.retry = e.retry + 1
      /\ Carries(L, w) /\ Excused(L, R, f, w, w.retry)
      /\ Current(b, e.id) = b.events[e.id]
  BY TriedAgain
<1>3. EventOK(L, R, f, w)
  BY <1>2 DEF EventOK
<1> DEFINE id == e.id
<1>4. id \in DOMAIN b.events /\ b.events[id].retry < MaxRetryCount /\ w = WithRetry(Current(b, id))
      /\ (Critical(p, id) => ~InReady(b, id))
  BY <1>1, <1>2
<1> HIDE DEF p, w, st, id
<1>5. /\ WellFormed(p, w) /\ BoxOK(st, p) /\ CritBox(st, p)
  <2>1. /\ WellFormed(p, w) /\ BoxOK(st, p)
        /\ CritBox(b, p) /\ (Critical(p, id) => ~InReady(b, id)) => CritBox(st, p)
    <3>1. st = RetryStore(b, id)
      BY DEF st, id
    <3>2. QED
      BY <1>1, <1>4, <3>1, RetryStoreFacts
  <2>2. QED
    BY <1>1, <1>4, <2>1
<1>6. IsBox(b)
  BY <1>1 DEF Shape
<1>7. CASE id \in b.queued
  <2>1. r = st /\ st = StorePending(b, w)
    BY <1>4, <1>7 DEF Retried, RetryStore, st, id
  <2>2. /\ r.ready = b.ready /\ r.dead = b.dead
        /\ IsWith(r.events, b.events, w)
        /\ r.retained = Without(b.retained, w.id)
    BY <1>6, <2>1, PendingIs
  <2>3. \A i : InReady(r, i) => InReady(b, i)
    BY <2>2 DEF InReady
  <2>4. \A i \in DOMAIN r.retained : i \in DOMAIN b.retained /\ r.retained[i] = b.retained[i]
    BY <2>2 DEF Without
  <2>5. Len(r.ready) \in Nat /\ Len(r.ready) <= Len(b.ready) + 1
    BY <1>1, <2>2
  <2>6. w.id = s[m + 1].id
    BY <1>2
  <2>7. BoxOK(r, TypesOf(L)) /\ CritBox(r, TypesOf(L))
    BY <1>5, <2>1 DEF p
  <2>8. QED
    BY <1>3, <2>2, <2>3, <2>4, <2>5, <2>6, <2>7, PutBack
<1>8. CASE id \notin b.queued
  <2>1. st = StoreRetained(b, w) /\ r = RetryEnqueue(st, w)
    BY <1>4, <1>8 DEF Retried, RetryStore, st, id
  <2>2. Cardinality(DOMAIN b.retained \union {w.id}) <= RetainedMaxSize
    <3>1. Cardinality(DOMAIN b.retained \union {w.id}) \in
            {Cardinality(DOMAIN b.retained), Cardinality(DOMAIN b.retained) + 1}
      BY <1>1, FS_AddElement
    <3>2. QED
      BY <1>1, <3>1, OutboxAssumption
  <2>3. /\ DOMAIN st = DOMAIN b
        /\ st.ready = b.ready /\ st.queued = b.queued /\ st.dead = b.dead
        /\ IsWith(st.events, b.events, w)
        /\ IsWith(st.retained, b.retained, w)
    BY <1>1, <1>5, <2>1, <2>2, RetainedIs
  <2>4. HasCapacity(st)
    BY <1>1, <2>3 DEF HasCapacity
  <2>5. /\ BoxOK(r, p)
        /\ r.events = st.events /\ r.dead = st.dead
        /\ DOMAIN r.retained = DOMAIN st.retained \ {w.id}
        /\ \A i : InReady(r, i) <=> InReady(st, i) \/ i = w.id
        /\ CritBox(st, p) /\ (Critical(p, w.id) => ~InReady(st, w.id) /\ w.id \in DOMAIN st.events)
              => CritBox(r, p)
    BY <1>1, <1>5, <2>1, <2>4, RetryEnqueueFacts
  <2>6. \A i : InReady(st, i) <=> InReady(b, i)
    BY <2>3 DEF InReady
  <2>7. CritBox(r, p)
    <3>1. w.id \in DOMAIN st.events
      BY <2>3 DEF IsWith
    <3>2. w.id = id
      BY <1>2 DEF id
    <3>3. QED
      BY <1>4, <1>5, <2>5, <2>6, <3>1, <3>2
  <2>8. r.ready = Append(b.ready, Entry(w)) /\ r.retained = Without(st.retained, w.id)
    <3>1. IsBox(st)
      BY <1>6, <2>3 DEF IsBox
    <3>2. QED
      BY <2>1, <2>3, <3>1 DEF RetryEnqueue, EnqueueReady, PutReady, IsBox
  <2>9. Len(r.ready) \in Nat /\ Len(r.ready) <= Len(b.ready) + 1
    <3>1. w.typ \in Types
      BY <1>5 DEF WellFormed
    <3>2. Len(r.ready) = Len(b.ready) + 1
      BY <1>1, <1>5, <2>8, <3>1, AppendReady
    <3>3. QED
      BY <1>1, <3>2
  <2>10. \A i \in DOMAIN r.retained : i \in DOMAIN b.retained /\ r.retained[i] = b.retained[i]
    BY <2>3, <2>8 DEF IsWith, Without
  <2>11. \A i : i # w.id => (InReady(r, i) => InReady(b, i))
    BY <2>5, <2>6
  <2>12. w.id = s[m + 1].id
    BY <1>2
  <2>13. BoxOK(r, TypesOf(L)) /\ CritBox(r, TypesOf(L))
    BY <2>5, <2>7 DEF p
  <2>14. IsWith(r.events, b.events, w) /\ r.dead = b.dead
    BY <2>3, <2>5
  <2>15. QED
    BY <1>3, <2>9, <2>10, <2>11, <2>12, <2>13, <2>14, PutBack
<1>9. QED
  BY <1>7, <1>8

\* An event given up.
LEMMA GivenUpSound ==
  ASSUME NEW L, NEW R, NEW f, NEW s, NEW m, NEW b, Settling(L, R, f, s, m, b),
         NEW e, e = s[m + 1], Excused(L, R, f, e, e.retry + 1), ~(e.retry < MaxRetryCount),
         NEW r, r = DeadLetter(b, e.id)
  PROVE  SettledTo(L, R, f, s, m + 1, r)
<1> DEFINE p == TypesOf(L)
           w == WithRetry(b.events[e.id])
           id == e.id
<1>1. /\ Publications(p) /\ BoxOK(b, p) /\ CritBox(b, p) /\ Shape(b, p)
      /\ id \in DOMAIN b.events
      /\ (Critical(p, id) => ~InReady(b, id) /\ id \notin DOMAIN b.retained)
      /\ Len(b.ready) \in Nat /\ Cardinality(DOMAIN b.retained) \in Nat
      /\ Len(s) - m \in Nat /\ Len(s) - (m + 1) \in Nat
      /\ e.retry \in Nat /\ e.retry <= MaxRetryCount
  BY SettlingIs
<1>2. /\ w.id = e.id /\ w.typ = e.typ /\ w.retry = e.retry + 1
      /\ Carries(L, w) /\ Excused(L, R, f, w, w.retry)
      /\ Current(b, id) = b.events[id]
  BY TriedAgain
<1>3. /\ LogOK(L) /\ m \in Nat /\ m + 1 \in DOMAIN s /\ Distinct(s) /\ s \in Seq(EventsOf(p))
      /\ BoxSound(b, L, R, f) /\ InHand(s, m, b, L, R, f) /\ Roomy(b, Len(s) - m, L)
  BY DEF Settling, Sound
<1>4. r.dead = b.dead \union {w}
  BY <1>1, <1>2 DEF DeadLetter, Shape, IsBox
<1>5. GivenUp(L, R, f, w)
  <2>1. w.retry = MaxRetryCount + 1
    BY <1>1, <1>2, OutboxAssumption
  <2>2. QED
    BY <1>2, <2>1 DEF GivenUp, Carries
<1>6. r = DeadLetter(b, id)
  OBVIOUS
<1> HIDE DEF p, w, id
<1>7. /\ BoxOK(r, p)
      /\ r.ready = b.ready /\ r.retained = b.retained
      /\ r.events = Without(b.events, id)
      /\ CritBox(r, p)
  <2>1. /\ BoxOK(r, p)
        /\ r.ready = b.ready /\ r.retained = b.retained
        /\ r.events = Without(b.events, id)
        /\ CritBox(b, p) /\ (Critical(p, id) => ~InReady(b, id) /\ id \notin DOMAIN b.retained)
             => CritBox(r, p)
    BY <1>1, <1>6, DeadLetterFacts
  <2>2. QED
    BY <1>1, <2>1
<1>8. BoxSound(r, L, R, f)
  BY <1>3, <1>4, <1>5, <1>7 DEF BoxSound, Without, p
<1>9. InHand(s, m + 1, r, L, R, f)
  <2>1. Leaves(b, r, id)
    BY <1>7 DEF Leaves, Without, InReady
  <2>2. QED
    BY <1>3, <2>1, HandLeft DEF id
<1>10. Roomy(r, Len(s) - (m + 1), L)
  <2>1. Len(b.ready) + Cardinality(DOMAIN b.retained) + (Len(s) - m) <= Len(L)
        /\ Len(L) \in Nat /\ m \in Nat /\ Len(s) \in Nat
    BY <1>3, LogFacts DEF Roomy
  <2>2. QED
    BY <1>1, <1>7, <2>1 DEF Roomy
<1>11. QED
  BY <1>8, <1>9, <1>10 DEF SettledTo, Sound


\* The events of a batch settled, one after the other.
Settles(b, events, f, n) ==
  f = [i \in 0..n |-> IF i = 0 THEN b ELSE Settled(f[i - 1], events[i])]

\* Its steps and its result.
SettleRun(b, events, f) ==
  /\ f[0] = b
  /\ \A i \in 1..Len(events) : f[i] = Settled(f[i - 1], events[i])
  /\ SettledAll(b, events) = f[Len(events)]

\* There is such a run, and it ends with what SettledAll returns.
LEMMA SettledAllRun ==
  ASSUME NEW b, NEW events, Len(events) \in Nat
  PROVE  \E f : SettleRun(b, events, f)
<1> DEFINE n == Len(events)
<1>0. n \in Nat
  OBVIOUS
<1> HIDE DEF n
<1> DEFINE B == {i \in 0..n : ~\E f : Settles(b, events, f, i)}
<1>1. 0 \notin B
  <2>1. Settles(b, events, [i \in 0..0 |-> b], 0)
    BY DEF Settles
  <2>2. QED
    BY <2>1
<1>2. ASSUME NEW k \in 1..n, k \in B, k - 1 \notin B
      PROVE  FALSE
  <2>0. k - 1 \in 0..n
    BY <1>0
  <2>1. PICK f : Settles(b, events, f, k - 1)
    BY <1>2, <2>0
  <2> DEFINE g == [i \in 0..k |-> IF i = k THEN Settled(f[k - 1], events[k]) ELSE f[i]]
  <2>2. \A i \in 0..k - 1 : f[i] = IF i = 0 THEN b ELSE Settled(f[i - 1], events[i])
    BY <2>1 DEF Settles
  <2>3. ASSUME NEW i \in 0..k
        PROVE  g[i] = IF i = 0 THEN b ELSE Settled(g[i - 1], events[i])
    <3>1. CASE i = k
      <4>1. g[i] = Settled(f[k - 1], events[k]) /\ g[k - 1] = f[k - 1]
        BY <3>1
      <4>2. QED
        BY <3>1, <4>1
    <3>2. CASE i # k
      <4>1. i \in 0..k - 1 /\ (i # 0 => i - 1 \in 0..k /\ i - 1 # k)
        BY <3>2
      <4>2. g[i] = f[i] /\ (i # 0 => g[i - 1] = f[i - 1])
        BY <3>2, <4>1
      <4>3. QED
        BY <2>2, <4>1, <4>2
    <3>3. QED
      BY <3>1, <3>2
  <2>4. Settles(b, events, g, k)
    <3>1. g = [i \in 0..k |-> g[i]]
      OBVIOUS
    <3> HIDE DEF g
    <3>2. QED
      BY <2>3, <3>1 DEF Settles
  <2>5. QED
    BY <1>2, <2>4
<1>3. n \notin B
  <2>1. B \subseteq 0..n
    OBVIOUS
  <2>0. n \in 0..n
    BY <1>0
  <2> HIDE DEF B
  <2>2. B = {}
    BY <1>0, <1>1, <1>2, <2>1, Walk
  <2>3. QED
    BY <2>0, <2>2
<1>4. \E f : Settles(b, events, f, n)
  BY <1>0, <1>3
<1>5. PICK f : Settles(b, events, f, n) /\ SettledAll(b, events) = f[n]
  <2> DEFINE g == CHOOSE f : Settles(b, events, f, n)
  <2>1. Settles(b, events, g, n)
    BY <1>4
  <2>2. SettledAll(b, events) = g[n]
    BY DEF SettledAll, Settles, n
  <2>3. QED
    BY <2>1, <2>2
<1>6. QED
  BY <1>0, <1>5 DEF Settles, SettleRun, n


\* A try of an event that did not write all of it is excused.
LEMMA FailedTry ==
  ASSUME RecordsInv, NEW j \in DOMAIN writing, ~Written(writing[j])
  PROVE  Excused(log, rows, failures, writing[j], writing[j].retry + 1)
<1>1. writing[j].typ \in Types
  BY WritingIs
<1>2. PICK k \in KindsOf(writing[j]) : k \notin ToSet(KindOrder) \/ <<writing[j].id, k>> \in failed
  BY DEF Written
<1>3. CASE k \in RowKinds
  <2>1. <<writing[j].id, k>> \in failed
    BY <1>2, <1>3, KindOrderIs
  <2>2. QED
    BY <1>3, <2>1 DEF RecordsInv, WritingOK
<1>4. CASE k \notin RowKinds
  <2>1. k = "account"
    BY <1>1, <1>2, <1>4, KindsAre
  <2>2. writing[j].typ = "balance"
    BY <1>1, <1>2, <2>1, KindsAre
  <2>3. QED
    BY <2>2 DEF Excused
<1>5. QED
  BY <1>3, <1>4

\* A written event is in every table it belongs to, when all kinds are done.
LEMMA WrittenIs ==
  ASSUME RecordsInv, kind = 7, NEW j \in DOMAIN writing, Written(writing[j]),
         NEW e, e = writing[j]
  PROVE  e.ver \in DOMAIN log /\ Recorded(e.id, log[e.ver])
<1>1. e.typ \in Types /\ e.ver \in DOMAIN log /\ log[e.ver].typ = e.typ
  BY WritingIs
<1>2. ASSUME NEW k \in KindsOf(e)
      PROVE  HasRow(k, e, log, rows) /\ k \in RowKinds
  <2>1. k \in RowKinds /\ <<e.id, k>> \notin failed
    BY KindOrderIs DEF Written
  <2>2. PICK l \in 1..6 : KindOrder[l] = k
    BY <2>1, KindOrderIs DEF ToSet
  <2>3. l < kind
    BY <2>2
  <2>4. QED
    BY <2>1, <2>2, <2>3 DEF RecordsInv, WritingOK
<1>3. /\ "audit" \in KindsOf(e) /\ "outbox" \in KindsOf(e)
      /\ "order" \in KindsOf(e) <=> e.typ = "order"
      /\ "fill" \in KindsOf(e) <=> e.typ = "fill"
      /\ "position" \in KindsOf(e) <=> e.typ = "position"
      /\ "account" \in KindsOf(e) <=> e.typ = "balance"
      /\ "market" \in KindsOf(e) <=> e.typ \in MarketTypes /\ log[e.ver].value # Absent
  BY <1>1, KindsAre
<1>4. e.id \in rows.audit /\ e.id \in rows.outbox
  BY <1>2, <1>3 DEF HasRow
<1>5. e.typ # "balance"
  BY <1>2, <1>3 DEF RowKinds
<1>6. e.typ = "order" => rows.order[log[e.ver].subject].key = e.id
  BY <1>2, <1>3 DEF HasRow
<1>7. e.typ = "fill" => rows.fill[log[e.ver].subject] # Absent
  BY <1>2, <1>3 DEF HasRow
<1>8. e.typ = "position" => rows.position # NoPosition
  BY <1>2, <1>3 DEF HasRow
<1>9. e.typ \in MarketTypes /\ log[e.ver].value # Absent => rows.market # Absent
  BY <1>2, <1>3 DEF HasRow
<1>10. QED
  BY <1>1, <1>4, <1>5, <1>6, <1>7, <1>8, <1>9 DEF Recorded

\* One event of the batch is settled, whichever way.
LEMMA OneSettled ==
  ASSUME RecordsInv, NEW m, NEW b, Settling(log, rows, failures, writing, m, b),
         NEW r, r = Settled(b, writing[m + 1])
  PROVE  SettledTo(log, rows, failures, writing, m + 1, r)
<1> DEFINE e == writing[m + 1]
<1>1. m + 1 \in DOMAIN writing
  BY DEF Settling
<1>2. CASE Written(e)
  <2>1. r = Ack(b, e.id)
    BY <1>2 DEF Settled
  <2>2. QED
    BY <2>1, AckSound
<1>3. CASE ~Written(e)
  <2>1. Excused(log, rows, failures, e, e.retry + 1)
    BY <1>1, <1>3, FailedTry
  <2>2. CASE e.retry < MaxRetryCount
    <3>1. r = Retried(b, e.id)
      BY <1>3, <2>2 DEF Settled
    <3>2. QED
      BY <2>1, <2>2, <3>1, RetriedSound
  <2>3. CASE ~(e.retry < MaxRetryCount)
    <3>1. r = DeadLetter(b, e.id)
      BY <1>3, <2>3 DEF Settled
    <3>2. QED
      BY <2>1, <2>3, <3>1, GivenUpSound
  <2>4. QED
    BY <2>2, <2>3
<1>4. QED
  BY <1>2, <1>3

\* The batch is settled: nothing is in the worker's hands any more.
LEMMA AllSettled ==
  ASSUME RecordsInv, NEW r, r = SettledAll(outbox, writing)
  PROVE  BoxSound(r, log, rows, failures) /\ Roomy(r, 0, log)
<1>1. /\ LogOK(log) /\ BoxSound(outbox, log, rows, failures) /\ Roomy(outbox, Len(writing), log)
      /\ writing \in Seq(EventsOf(TypesOf(log))) /\ Distinct(writing)
      /\ InHand(writing, 0, outbox, log, rows, failures)
  BY DEF RecordsInv, WritingOK
<1> DEFINE n == Len(writing)
<1>2. n \in Nat /\ DOMAIN writing = 1..n /\ n - 0 = n /\ n - n = 0
  BY <1>1
<1>3. \E g : SettleRun(outbox, writing, g)
  BY <1>2, SettledAllRun
<1>4. PICK g : SettleRun(outbox, writing, g)
  BY <1>3
<1> DEFINE P(i) == SettledTo(log, rows, failures, writing, i, g[i])
           B == {i \in 0..n : ~P(i)}
<1>5. P(0)
  BY <1>1, <1>2, <1>4 DEF SettleRun, SettledTo, Sound
<1>6. ASSUME NEW i \in 1..n, P(i - 1)
      PROVE  P(i)
  <2>1. i - 1 \in Nat /\ (i - 1) + 1 = i /\ i \in DOMAIN writing
    BY <1>2
  <2>2. g[i] = Settled(g[i - 1], writing[i])
    BY <1>4 DEF SettleRun
  <2>3. Settling(log, rows, failures, writing, i - 1, g[i - 1])
    BY <1>1, <1>6, <2>1 DEF Settling, SettledTo
  <2>4. QED
    BY <2>1, <2>2, <2>3, OneSettled
<1>7. P(n)
  <2>1. B \subseteq 0..n /\ 0 \notin B
    BY <1>2, <1>5
  <2>2. ASSUME NEW i \in 1..n, i \in B  PROVE i - 1 \in B
    <3>1. i - 1 \in 0..n
      BY <1>2
    <3>2. QED
      BY <1>6, <2>2, <3>1
  <2>3. n \in 0..n
    BY <1>2
  <2>4. \A i \in 1..n : i \in B => i - 1 \in B
    BY <2>2
  <2> HIDE DEF B
  <2>5. B = {}
    BY <1>2, <2>1, <2>4, Walk
  <2>6. QED
    BY <2>3, <2>5 DEF B
<1>8. r = g[n]
  BY <1>4 DEF SettleRun
<1>9. QED
  BY <1>2, <1>7, <1>8 DEF SettledTo, Sound

\* Settling leaves everything but the outbox alone.
LEMMA SettleStep ==
  ASSUME RecordsInv, Settle
  PROVE  RecordsInv'
<1>1. /\ UNCHANGED <<state, filled, up, account, listing, asked, log, rows, failures, crashes>>
      /\ kind = 7
      /\ outbox' = SettledAll(outbox, writing)
      /\ acked' = acked \union {<<e.id, e.ver>> : e \in {x \in ToSet(writing) : Written(x)}}
      /\ writing' = <<>> /\ kind' = 0
  BY KindOrderIs DEF Settle, exchange
<1>2. BoxSound(outbox', log, rows, failures) /\ Roomy(outbox', 0, log)
  BY <1>1, AllSettled
<1>3. WritingOK'
  BY <1>1, IdleOK DEF WritingOK, Distinct, InHand
<1>4. Len(writing') = 0
  BY <1>1
<1>5. ASSUME NEW a \in acked'
      PROVE  a[2] \in DOMAIN log /\ Recorded(a[1], log[a[2]])
  <2>1. CASE a \in acked
    BY <2>1 DEF RecordsInv
  <2>2. CASE a \notin acked
    <3>1. PICK e \in ToSet(writing) : Written(e) /\ a = <<e.id, e.ver>>
      BY <1>1, <1>5, <2>2
    <3>2. PICK j \in DOMAIN writing : e = writing[j]
      BY <3>1 DEF ToSet
    <3>3. e.ver \in DOMAIN log /\ Recorded(e.id, log[e.ver])
      BY <1>1, <3>1, <3>2, WrittenIs
    <3>4. QED
      BY <3>1, <3>3
  <2>3. QED
    BY <2>1, <2>2
<1>6. TablesInv'
  <2>1. RowsTold' /\ LogOK(log)' /\ (rows \in Tables)'
    BY <1>1 DEF RecordsInv, RowsTold
  <2>2. (\A a \in acked : a[2] \in DOMAIN log /\ Recorded(a[1], log[a[2]]))'
    BY <1>1, <1>5 DEF Recorded
  <2>3. BoxSound(outbox, log, rows, failures)' /\ Roomy(outbox, Len(writing), log)'
    BY <1>1, <1>2, <1>4
  <2>4. QED
    BY <1>3, <2>1, <2>2, <2>3 DEF TablesInv
<1>7. ExchangeOK' /\ OpenTold'
  <2>1. SharesHeld' = SharesHeld
    BY <1>1 DEF SharesHeld
  <2>2. QED
    BY <1>1, <2>1 DEF RecordsInv, ExchangeOK, OpenTold
<1>8. StoreOK'
  BY <1>1 DEF StoreOK, RecordsInv
<1>9. QED
  BY <1>6, <1>7, <1>8 DEF RecordsInv, TablesInv


\* Before the first event is taken.
Untaken(b) == [box |-> b, got |-> <<>>]

\* The passes of the loop of get.
Takes(b, f, n) ==
  f = [i \in 0..n |-> IF i = 0 THEN Untaken(b) ELSE Take(f[i - 1])]

\* Its steps and its result.
TakeRun(b, f) ==
  /\ f[0] = Untaken(b)
  /\ \A i \in 1..Len(b.ready) : f[i] = Take(f[i - 1])
  /\ Taken(b) = f[Len(b.ready)]

\* There is such a run, and it ends with what Taken returns.
LEMMA TakenRun ==
  ASSUME NEW b, Len(b.ready) \in Nat
  PROVE  \E f : TakeRun(b, f)
<1> DEFINE n == Len(b.ready)
<1>0. n \in Nat
  OBVIOUS
<1> HIDE DEF n
<1> DEFINE B == {i \in 0..n : ~\E f : Takes(b, f, i)}
<1>1. 0 \notin B
  <2>1. Takes(b, [i \in 0..0 |-> Untaken(b)], 0)
    BY DEF Takes
  <2>2. QED
    BY <2>1
<1>2. ASSUME NEW k \in 1..n, k \in B, k - 1 \notin B
      PROVE  FALSE
  <2>0. k - 1 \in 0..n
    BY <1>0
  <2>1. PICK f : Takes(b, f, k - 1)
    BY <1>2, <2>0
  <2> DEFINE g == [i \in 0..k |-> IF i = k THEN Take(f[k - 1]) ELSE f[i]]
  <2>2. \A i \in 0..k - 1 : f[i] = IF i = 0 THEN Untaken(b) ELSE Take(f[i - 1])
    BY <2>1 DEF Takes
  <2>3. ASSUME NEW i \in 0..k
        PROVE  g[i] = IF i = 0 THEN Untaken(b) ELSE Take(g[i - 1])
    <3>1. CASE i = k
      <4>1. g[i] = Take(f[k - 1]) /\ g[k - 1] = f[k - 1]
        BY <3>1
      <4>2. QED
        BY <3>1, <4>1
    <3>2. CASE i # k
      <4>1. i \in 0..k - 1 /\ (i # 0 => i - 1 \in 0..k /\ i - 1 # k)
        BY <3>2
      <4>2. g[i] = f[i] /\ (i # 0 => g[i - 1] = f[i - 1])
        BY <3>2, <4>1
      <4>3. QED
        BY <2>2, <4>1, <4>2
    <3>3. QED
      BY <3>1, <3>2
  <2>4. Takes(b, g, k)
    <3>1. g = [i \in 0..k |-> g[i]]
      OBVIOUS
    <3> HIDE DEF g
    <3>2. QED
      BY <2>3, <3>1 DEF Takes
  <2>5. QED
    BY <1>2, <2>4
<1>3. n \notin B
  <2>1. B \subseteq 0..n
    OBVIOUS
  <2>0. n \in 0..n
    BY <1>0
  <2> HIDE DEF B
  <2>2. B = {}
    BY <1>0, <1>1, <1>2, <2>1, Walk
  <2>3. QED
    BY <2>0, <2>2
<1>4. \E f : Takes(b, f, n)
  BY <1>0, <1>3
<1>5. PICK f : Takes(b, f, n) /\ Taken(b) = f[n]
  <2> DEFINE g == CHOOSE f : Takes(b, f, n)
  <2>1. Takes(b, g, n)
    BY <1>4
  <2>2. Taken(b) = g[n]
    BY DEF Taken, Takes, Untaken, n
  <2>3. QED
    BY <2>1, <2>2
<1>6. f[0] = Untaken(b) /\ \A i \in 1..n : f[i] = Take(f[i - 1])
  BY <1>0, <1>5 DEF Takes
<1>7. QED
  BY <1>5, <1>6 DEF TakeRun, n


\* What is known of the outbox and of the events taken from it.
Taking(x, L, R, f) ==
  /\ BoxSound(x.box, L, R, f)
  /\ x.got \in Seq(EventsOf(TypesOf(L)))
  /\ InHand(x.got, 0, x.box, L, R, f)
  /\ \A j, k \in DOMAIN x.got : IsCritical(x.got[j]) /\ x.got[j].id = x.got[k].id => j = k
  /\ Roomy(x.box, Len(x.got), L)

\* An entry is popped; nothing else changes.
LEMMA Popped ==
  ASSUME NEW L, LogOK(L), NEW R, NEW f, NEW b, BoxSound(b, L, R, f), b.ready # <<>>,
         NEW r, r = PopReady(b), NEW id, id = FirstReady(b)
  PROVE  /\ BoxSound(r, L, R, f)
         /\ Len(r.ready) + 1 = Len(b.ready) /\ Len(r.ready) \in Nat
         /\ r.events = b.events /\ r.retained = b.retained
         /\ InReady(b, id)
         /\ \A i : InReady(r, i) => InReady(b, i)
         /\ id \in DOMAIN b.events /\ IsCritical(b.events[id]) => ~InReady(r, id)
<1> DEFINE p == TypesOf(L)
<1>1. BoxOK(b, p) /\ CritBox(b, p) /\ ReadyOK(b, p) /\ MapOK(b.events, p)
  BY DEF BoxSound, BoxOK, Shape
<1> HIDE DEF p
<1>2. /\ BoxOK(r, p)
      /\ Len(r.ready) = Len(b.ready) - 1 /\ Len(b.ready) >= 1
      /\ r.events = b.events /\ r.retained = b.retained /\ r.dead = b.dead
      /\ \A i : i # FirstReady(b) => (InReady(r, i) <=> InReady(b, i))
      /\ CritBox(b, p) =>
           CritBox(r, p) /\ (Critical(p, FirstReady(b)) => ~InReady(r, FirstReady(b)))
  BY <1>1, PopFacts
<1>3. Len(b.ready) \in Nat
  BY <1>1, ReadyFacts
<1>4. InReady(b, id)
  BY <1>1, FirstReadyIn
<1>5. BoxSound(r, L, R, f)
  BY <1>1, <1>2 DEF BoxSound, p
<1>6. id \in DOMAIN b.events /\ IsCritical(b.events[id]) => ~InReady(r, id)
  BY <1>1, <1>2 DEF MapOK, WellFormed, IsCritical, Critical
<1>7. QED
  BY <1>1, <1>2, <1>3, <1>4, <1>5, <1>6

\* One pass of the loop.
LEMMA TakeSound ==
  ASSUME NEW L, LogOK(L), NEW R, NEW f, NEW x, Taking(x, L, R, f), NEW y, y = Take(x)
  PROVE  Taking(y, L, R, f)
<1> DEFINE p == TypesOf(L)
           b == x.box
           id == FirstReady(b)
           e == b.events[id]
           s == x.got
<1>1. CASE Len(x.got) = BatchSize \/ x.box.ready = <<>>
  BY <1>1 DEF Take
<1>2. CASE ~(Len(x.got) = BatchSize \/ x.box.ready = <<>>)
  <2> DEFINE r == PopReady(b)
  <2>1. /\ y.box = r
        /\ y.got = IF id \in DOMAIN b.events THEN Append(s, e) ELSE s
    BY <1>2 DEF Take
  <2>2. /\ BoxSound(b, L, R, f) /\ s \in Seq(EventsOf(p)) /\ InHand(s, 0, b, L, R, f)
        /\ \A j, k \in DOMAIN s : IsCritical(s[j]) /\ s[j].id = s[k].id => j = k
        /\ Len(b.ready) + Cardinality(DOMAIN b.retained) + Len(s) <= Len(L)
        /\ b.ready # <<>>
    BY <1>2 DEF Taking, Roomy
  <2> HIDE DEF r, b, s, e, id
  <2>3. /\ BoxSound(r, L, R, f)
        /\ Len(r.ready) + 1 = Len(b.ready) /\ Len(r.ready) \in Nat
        /\ r.events = b.events /\ r.retained = b.retained
        /\ InReady(b, id)
        /\ \A i : InReady(r, i) => InReady(b, i)
        /\ id \in DOMAIN b.events /\ IsCritical(b.events[id]) => ~InReady(r, id)
    BY <2>2, Popped DEF r, id
  <2>4. Len(s) \in Nat /\ DOMAIN s = 1..Len(s) /\ Len(L) \in Nat
    BY <2>2, LogFacts
  <2>5. Cardinality(DOMAIN b.retained) \in Nat
    <3>1. MapOK(b.retained, p)
      BY <2>2 DEF BoxSound, BoxOK, Shape
    <3>2. Publications(p)
      BY LogFacts
    <3> HIDE DEF p
    <3>3. QED
      BY <3>1, <3>2, MapFinite
  <2>6. InHand(s, 0, r, L, R, f)
    BY <2>2, <2>3 DEF InHand
  <2>7. CASE id \notin DOMAIN b.events
    <3>1. y.box = r /\ y.got = s
      BY <2>1, <2>7
    <3>2. Roomy(r, Len(s), L)
      BY <2>2, <2>3, <2>4, <2>5 DEF Roomy
    <3>3. QED
      BY <2>2, <2>3, <2>6, <3>1, <3>2 DEF Taking
  <2>8. CASE id \in DOMAIN b.events
    <3>1. /\ WellFormed(p, e) /\ EventOK(L, R, f, e) /\ e.id = id
      BY <2>2, <2>8 DEF BoxSound, BoxOK, Shape, MapOK, e
    <3>2. e \in EventsOf(p)
      BY <3>1 DEF WellFormed, EventsOf
    <3> DEFINE t == Append(s, e)
    <3>3. /\ t \in Seq(EventsOf(p)) /\ Len(t) = Len(s) + 1 /\ DOMAIN t = 1..(Len(s) + 1)
          /\ t[Len(s) + 1] = e /\ \A j \in 1..Len(s) : t[j] = s[j]
      BY <2>2, <3>2
    <3>4. y.box = r /\ y.got = t
      BY <2>1, <2>8
    <3> HIDE DEF t
    <3>5. \A j \in DOMAIN t :
            (j \in DOMAIN s /\ t[j] = s[j]) \/ (j = Len(s) + 1 /\ t[j] = e)
      BY <2>4, <3>3
    <3>6. InHand(t, 0, r, L, R, f)
      <4>1. SUFFICES ASSUME NEW j \in DOMAIN t, j > 0
                     PROVE  /\ WellFormed(TypesOf(L), t[j])
                            /\ EventOK(L, R, f, t[j])
                            /\ t[j].id \in DOMAIN r.events
                            /\ r.events[t[j].id].retry = t[j].retry
                            /\ IsCritical(t[j]) => ~InReady(r, t[j].id)
        BY DEF InHand
      <4>2. CASE j \in DOMAIN s /\ t[j] = s[j]
        BY <2>6, <4>1, <4>2 DEF InHand
      <4>3. CASE t[j] = e
        BY <2>3, <2>8, <3>1, <4>3 DEF e
      <4>4. QED
        BY <3>5, <4>2, <4>3
    <3>7. ASSUME NEW j \in DOMAIN t, NEW k \in DOMAIN t, IsCritical(t[j]), t[j].id = t[k].id
          PROVE  j = k
      <4>1. \A l \in DOMAIN s : IsCritical(s[l]) => s[l].id # id
        BY <2>2, <2>3, <2>4 DEF InHand
      <4>2. \A l \in DOMAIN s : s[l].id = id => (IsCritical(s[l]) <=> IsCritical(e))
        <5>1. \A l \in DOMAIN s : WellFormed(p, s[l])
          BY <2>2, <2>4 DEF InHand
        <5>2. QED
          BY <3>1, <5>1 DEF WellFormed, IsCritical
      <4>3. CASE j \in DOMAIN s /\ t[j] = s[j] /\ k \in DOMAIN s /\ t[k] = s[k]
        BY <2>2, <3>7, <4>3
      <4>4. CASE j \in DOMAIN s /\ t[j] = s[j] /\ t[k] = e
        BY <3>1, <3>7, <4>1, <4>4
      <4>5. CASE t[j] = e /\ k \in DOMAIN s /\ t[k] = s[k]
        BY <3>1, <3>7, <4>1, <4>2, <4>5
      <4>6. QED
        BY <3>5, <4>3, <4>4, <4>5
    <3>8. Roomy(r, Len(t), L)
      <4>1. Len(r.ready) + Cardinality(DOMAIN r.retained) + Len(t) <= Len(L)
        BY <2>2, <2>3, <2>4, <2>5, <3>3
      <4>2. QED
        BY <4>1 DEF Roomy
    <3>9. QED
      BY <2>3, <3>3, <3>4, <3>6, <3>7, <3>8 DEF Taking
  <2>9. QED
    BY <2>7, <2>8
<1>3. QED
  BY <1>1, <1>2

\* The whole loop.
LEMMA TakenSound ==
  ASSUME NEW L, LogOK(L), NEW R, NEW f, NEW b, BoxSound(b, L, R, f), Roomy(b, 0, L),
         NEW y, y = Taken(b)
  PROVE  Taking(y, L, R, f)
<1> DEFINE n == Len(b.ready)
<1>1. n \in Nat
  BY ReadyFacts DEF BoxSound, BoxOK, Shape
<1>2. \E g : TakeRun(b, g)
  BY <1>1, TakenRun
<1>3. PICK g : TakeRun(b, g)
  BY <1>2
<1> DEFINE P(i) == Taking(g[i], L, R, f)
           B == {i \in 0..n : ~P(i)}
<1>4. P(0)
  <2>1. g[0].box = b /\ g[0].got = <<>>
    BY <1>3 DEF TakeRun, Untaken
  <2>2. g[0].got \in Seq(EventsOf(TypesOf(L))) /\ DOMAIN g[0].got = {} /\ Len(g[0].got) = 0
    BY <2>1
  <2>3. QED
    BY <2>1, <2>2 DEF Taking, InHand
<1>5. ASSUME NEW i \in 1..n, P(i - 1)
      PROVE  P(i)
  <2>1. g[i] = Take(g[i - 1])
    BY <1>3 DEF TakeRun
  <2>2. QED
    BY <1>5, <2>1, TakeSound
<1>6. P(n)
  <2>1. B \subseteq 0..n /\ 0 \notin B
    BY <1>1, <1>4
  <2>2. ASSUME NEW i \in 1..n, i \in B  PROVE i - 1 \in B
    <3>1. i - 1 \in 0..n
      BY <1>1
    <3>2. QED
      BY <1>5, <2>2, <3>1
  <2>3. n \in 0..n
    BY <1>1
  <2>4. \A i \in 1..n : i \in B => i - 1 \in B
    BY <2>2
  <2> HIDE DEF B
  <2>5. B = {}
    BY <1>1, <2>1, <2>4, Walk
  <2>6. QED
    BY <2>3, <2>5 DEF B
<1>7. y = g[n]
  BY <1>3 DEF TakeRun
<1>8. QED
  BY <1>6, <1>7

\* The worker takes a batch.
LEMMA TakeBatchStep ==
  ASSUME RecordsInv, TakeBatch
  PROVE  RecordsInv'
<1> DEFINE c == Promote(outbox)
           y == Taken(c)
           w == Coalesce(y.got)
           p == TypesOf(log)
<1>1. /\ UNCHANGED <<state, filled, up, account, listing, asked, log, rows,
                     acked, failures, crashes>>
      /\ kind = 0 /\ outbox' = y.box /\ writing' = w
      /\ kind' = NextKind(w, 0) /\ failed' = {}
  BY DEF TakeBatch, exchange, history
<1>2. /\ LogOK(log) /\ BoxSound(outbox, log, rows, failures)
      /\ writing = <<>> /\ Roomy(outbox, 0, log) /\ Sound(outbox, <<>>, 0, log, rows, failures)
  <2>1. /\ LogOK(log) /\ BoxSound(outbox, log, rows, failures)
        /\ writing = <<>> /\ Roomy(outbox, Len(writing), log)
        /\ InHand(writing, 0, outbox, log, rows, failures)
    BY <1>1 DEF RecordsInv, WritingOK
  <2>2. Len(<<>>) = 0
    OBVIOUS
  <2>3. QED
    BY <2>1, <2>2 DEF Sound
<1>3. Publications(p)
  BY <1>2, LogFacts
<1> HIDE DEF c, y, w, p
<1>4. Sound(c, <<>>, 0, log, rows, failures) /\ Roomy(c, 0, log)
  <2>1. 0 \in Nat
    OBVIOUS
  <2>2. QED
    BY <1>2, <2>1, PromoteSound DEF c
<1>5. Taking(y, log, rows, failures)
  <2>1. BoxSound(c, log, rows, failures)
    BY <1>4 DEF Sound
  <2>2. QED
    BY <1>2, <1>4, <2>1, TakenSound DEF y
<1> DEFINE s == y.got
<1>6. /\ BoxSound(y.box, log, rows, failures)
      /\ s \in Seq(EventsOf(p)) /\ DOMAIN s = 1..Len(s) /\ Len(s) \in Nat
      /\ \A j \in DOMAIN s : /\ WellFormed(p, s[j])
                             /\ EventOK(log, rows, failures, s[j])
                             /\ s[j].id \in DOMAIN y.box.events
                             /\ y.box.events[s[j].id].retry = s[j].retry
                             /\ IsCritical(s[j]) => ~InReady(y.box, s[j].id)
      /\ \A j, k \in DOMAIN s : Critical(p, s[j].id) /\ s[j].id = s[k].id => j = k
      /\ Roomy(y.box, Len(s), log)
  <2>1. /\ BoxSound(y.box, log, rows, failures)
        /\ s \in Seq(EventsOf(p)) /\ InHand(s, 0, y.box, log, rows, failures)
        /\ Roomy(y.box, Len(s), log)
    BY <1>5 DEF Taking, p
  <2>2. DOMAIN s = 1..Len(s) /\ Len(s) \in Nat
    BY <2>1
  <2>3. \A j \in DOMAIN s : j > 0
    BY <2>2
  <2>4. \A j \in DOMAIN s : /\ WellFormed(p, s[j])
                            /\ EventOK(log, rows, failures, s[j])
                            /\ s[j].id \in DOMAIN y.box.events
                            /\ y.box.events[s[j].id].retry = s[j].retry
                            /\ IsCritical(s[j]) => ~InReady(y.box, s[j].id)
    BY <2>1, <2>3 DEF InHand, p
  <2>5. \A j \in DOMAIN s : Critical(p, s[j].id) <=> IsCritical(s[j])
    BY <2>4 DEF WellFormed, Critical, IsCritical
  <2>6. \A j, k \in DOMAIN s : Critical(p, s[j].id) /\ s[j].id = s[k].id => j = k
    BY <1>5, <2>5 DEF Taking
  <2>7. QED
    BY <2>1, <2>2, <2>4, <2>6
<1>7. w = Coalesce(s)
  BY DEF w
<1> HIDE DEF s
<1>8. /\ w \in Seq(EventsOf(p)) /\ Len(w) <= Len(s)
      /\ \A n \in DOMAIN w : \E j \in DOMAIN s : w[n] = s[j]
      /\ \A m, n \in DOMAIN w : w[m].id = w[n].id => m = n
  <2>1. \A j \in DOMAIN s : WellFormed(p, s[j])
    BY <1>6
  <2>2. \A j, k \in DOMAIN s : Critical(p, s[j].id) /\ s[j].id = s[k].id => j = k
    BY <1>6
  <2>3. s \in Seq(EventsOf(p))
    BY <1>6
  <2>4. QED
    BY <1>3, <1>7, <2>1, <2>2, <2>3, CoalesceFacts
<1>9. InHand(w, 0, y.box, log, rows, failures)
  BY <1>6, <1>8 DEF InHand, p
<1>10. Roomy(y.box, Len(w), log)
  <2>1. MapOK(y.box.retained, p) /\ ReadyOK(y.box, p)
    BY <1>6 DEF BoxSound, BoxOK, Shape, p
  <2>2. Cardinality(DOMAIN y.box.retained) \in Nat /\ Len(y.box.ready) \in Nat
    BY <1>3, <2>1, MapFinite, ReadyFacts
  <2>3. Len(w) \in Nat /\ Len(w) <= Len(s) /\ Len(log) \in Nat
    BY <1>2, <1>8, LogFacts
  <2>4. Len(y.box.ready) + Cardinality(DOMAIN y.box.retained) + Len(s) <= Len(log)
    BY <1>6 DEF Roomy
  <2>5. Len(y.box.ready) + Cardinality(DOMAIN y.box.retained) + Len(w) <= Len(log)
    BY <1>6, <2>2, <2>3, <2>4
  <2>6. QED
    BY <2>5 DEF Roomy
<1>11. /\ kind' \in 1..7
       /\ \A l \in 1..6 : l < kind' => \A i \in DOMAIN w : KindOrder[l] \notin KindsOf(w[i])
  <2>1. 0 \in 0..6
    OBVIOUS
  <2>2. QED
    BY <1>1, <2>1, NextKindIs
<1>12. WritingOK'
  <2>1. \A j \in DOMAIN w : KindsOf(writing[j])' = KindsOf(w[j])
    BY <1>1 DEF KindsOf, Payload
  <2>2. /\ (writing \in Seq(EventsOf(TypesOf(log))))' /\ Distinct(writing)'
        /\ InHand(writing, 0, outbox, log, rows, failures)'
    BY <1>1, <1>8, <1>9 DEF Distinct, p
  <2>3. kind' \in 0..7 /\ kind' # 0
    BY <1>11
  <2>4. ASSUME NEW j \in DOMAIN writing', NEW l \in RowKinds, <<writing'[j].id, l>> \in failed'
        PROVE  Excused(log', rows', failures', writing'[j], writing'[j].retry + 1)
    BY <1>1, <2>4
  <2>5. ASSUME NEW j \in DOMAIN writing', NEW l \in 1..6, l < kind',
               KindOrder[l] \in KindsOf(writing[j])', <<writing'[j].id, KindOrder[l]>> \notin failed'
        PROVE  HasRow(KindOrder[l], writing'[j], log', rows')
    BY <1>1, <1>11, <2>1, <2>5
  <2>6. QED
    BY <2>2, <2>3, <2>4, <2>5 DEF WritingOK
<1>13. TablesInv'
  <2>1. RowsTold' /\ LogOK(log)' /\ (rows \in Tables)'
        /\ (\A a \in acked : a[2] \in DOMAIN log /\ Recorded(a[1], log[a[2]]))'
    BY <1>1 DEF RecordsInv, RowsTold, Recorded
  <2>2. BoxSound(outbox, log, rows, failures)' /\ Roomy(outbox, Len(writing), log)'
    BY <1>1, <1>6, <1>10
  <2>3. QED
    BY <1>12, <2>1, <2>2 DEF TablesInv
<1>14. ExchangeOK' /\ OpenTold'
  <2>1. SharesHeld' = SharesHeld
    BY <1>1 DEF SharesHeld
  <2>2. QED
    BY <1>1, <2>1 DEF RecordsInv, ExchangeOK, OpenTold
<1>15. StoreOK'
  BY <1>1 DEF StoreOK, RecordsInv
<1>16. QED
  BY <1>13, <1>14, <1>15 DEF RecordsInv, TablesInv


--------------------------------------------------------------------------------
\* RecordsInv is an invariant: every message, every step of the worker, a crash
\* and what follows it keep it.
THEOREM RecordsInvInvariant ==
  RecordsSpec => []RecordsInv
<1>1. RecordsInit => RecordsInv
  BY InitRecordsInv
<1>2. RecordsInv /\ [RecordsNext]_recordsVars => RecordsInv'
  <2>1. SUFFICES ASSUME RecordsInv, RecordsNext \/ UNCHANGED recordsVars  PROVE RecordsInv'
    OBVIOUS
  <2>2. CASE \E o \in Orders : Place(o) \/ Match(o) \/ Cancel(o)
    BY <2>1, <2>2, PlaceStep, MatchStep, CancelStep
  <2>3. CASE \E t \in AllTrades, s \in {"matched", "confirmed"} : TradeReported(t, s)
    BY <2>1, <2>3, TradeReportedStep
  <2>4. CASE PositionReported
    BY <2>1, <2>4, PositionReportedStep
  <2>5. CASE BalanceReported
    BY <2>1, <2>5, BalanceReportedStep
  <2>6. CASE MarketDiscovered \/ MarketUpdated \/ MarketFilteredOut \/ MarketResolved
    BY <2>1, <2>6, MarketStep
  <2>7. CASE PersistStep
    BY <2>1, <2>7, TakeBatchStep, WriteKindStep, SettleStep DEF PersistStep
  <2>8. CASE Crash
    BY <2>1, <2>8, CrashStep
  <2>9. CASE Restart
    BY <2>1, <2>9, RestartStep
  <2>10. CASE ReconcileAsks \/ \E answered \in SUBSET Calls : ReconcileApplies(answered)
    BY <2>1, <2>10, ReconcileStep
  <2>11. CASE UNCHANGED recordsVars
    <3>1. UNCHANGED <<state, filled, up, account, listing, asked, log, outbox, writing, kind,
                      failed, rows, acked, failures, crashes>>
      BY <2>11 DEF recordsVars, exchange, worker, history
    <3>2. SharesHeld' = SharesHeld /\ \A j \in DOMAIN writing : KindsOf(writing[j])' = KindsOf(writing[j])
      BY <3>1 DEF SharesHeld, KindsOf, Payload
    <3>3. ExchangeOK' /\ StoreOK' /\ OpenTold'
      BY <2>1, <3>1, <3>2 DEF RecordsInv, ExchangeOK, StoreOK, OpenTold
    <3>4. WritingOK'
      BY <2>1, <3>1, <3>2 DEF RecordsInv, WritingOK, Distinct, InHand
    <3>5. RowsTold' /\ LogOK(log)' /\ (rows \in Tables)'
          /\ (\A a \in acked : a[2] \in DOMAIN log /\ Recorded(a[1], log[a[2]]))'
      BY <2>1, <3>1 DEF RecordsInv, RowsTold, Recorded
    <3>6. BoxSound(outbox, log, rows, failures)' /\ Roomy(outbox, Len(writing), log)'
      BY <2>1, <3>1 DEF RecordsInv
    <3>7. QED
      BY <3>3, <3>4, <3>5, <3>6 DEF RecordsInv
  <2>12. QED
    BY <2>1, <2>2, <2>3, <2>4, <2>5, <2>6, <2>7, <2>8, <2>9, <2>10, <2>11 DEF RecordsNext
<1>3. QED
  BY <1>1, <1>2, PTL DEF RecordsSpec

\* What the invariant says of the variables.
LEMMA RecordsInvTyped ==
  RecordsInv => RecordsTyped
<1>1. SUFFICES ASSUME RecordsInv  PROVE RecordsTyped
  OBVIOUS
<1>2. \A o \in Orders : filled[o] \in 0..Size[o]
  BY <1>1, RecordsAssumption DEF RecordsInv, ExchangeOK
<1>3. ToSet(writing) \subseteq Events
  <2>1. SUFFICES ASSUME NEW j \in DOMAIN writing  PROVE writing[j] \in Events
    BY DEF ToSet
  <2>2. /\ LogOK(log) /\ writing \in Seq(EventsOf(TypesOf(log)))
    BY <1>1 DEF RecordsInv, WritingOK
  <2>3. /\ DOMAIN TypesOf(log) = DOMAIN log /\ DOMAIN log = 1..Len(log)
        /\ Len(log) \in Nat /\ Len(log) <= MaxEvents
    BY <2>2, LogFacts
  <2>4. writing[j] \in EventsOf(TypesOf(log))
    BY <2>2
  <2>5. DOMAIN log \subseteq 1..MaxEvents
    BY <2>3, OutboxAssumption
  <2>6. writing[j].id \in 1..MaxEvents /\ writing[j].ver \in 1..MaxEvents
    BY <2>3, <2>4, <2>5, WritingIs, <1>1 DEF EventsOf
  <2>7. writing[j] = [id |-> writing[j].id, typ |-> writing[j].typ,
                      ver |-> writing[j].ver, retry |-> writing[j].retry]
        /\ writing[j].typ \in Types /\ writing[j].retry \in 0..MaxRetryCount
    BY <2>4 DEF EventsOf
  <2>8. QED
    BY <2>6, <2>7 DEF Events
<1>4. kind \in 0..(Len(KindOrder) + 1)
  BY <1>1, KindOrderIs DEF RecordsInv, WritingOK
<1>5. account.orders \in [Orders -> OpenStatuses \union {Absent}] /\ account.shares \in Nat
      /\ listing \in {Absent, "eligible", "paused", "resolved"}
  BY <1>1 DEF RecordsInv, StoreOK, OpenOrders
<1>6. /\ state \in [Orders -> {"none", "live", "matched", "cancelled"}]
      /\ SharesHeld \in Nat
      /\ rows \in [order : OrderTable, fill : FillTable, position : PositionTable,
                   market : MarketTable, audit : AuditTable, outbox : OutboxTable]
      /\ Len(log) <= MaxEvents
  BY <1>1 DEF RecordsInv, ExchangeOK, Tables, LogOK
<1>7. QED
  BY <1>2, <1>3, <1>4, <1>5, <1>6 DEF RecordsTyped

\* An event the outbox was told to forget is in every table it belongs to, and
\* one given up had all its tries and a reason to fail each time.
THEOREM RecordsAreSound ==
  RecordsSpec => []RecordsSound
<1>1. RecordsInv => RecordsSound
  <2>1. SUFFICES ASSUME RecordsInv  PROVE RecordsSound
    OBVIOUS
  <2>2. RecordsTyped
    BY <2>1, RecordsInvTyped
  <2>3. \A a \in acked : Recorded(a[1], log[a[2]])
    BY <2>1 DEF RecordsInv
  <2>4. ASSUME NEW e \in outbox.dead
        PROVE  /\ e.retry = MaxRetryCount + 1
               /\ \/ e.typ = "balance"
                  \/ failures > MaxRetryCount
                  \/ e.typ = "order" /\ rows.order[Payload(e).subject].key \notin {0, e.id}
    <3>1. GivenUp(log, rows, failures, e) /\ failures \in Nat
      BY <2>1 DEF RecordsInv, BoxSound, StoreOK
    <3>2. failures >= MaxRetryCount + 1 => failures > MaxRetryCount
      BY <3>1, OutboxAssumption
    <3>3. QED
      BY <3>1, <3>2 DEF GivenUp, Excused, Beaten, Payload
  <2>5. QED
    BY <2>2, <2>3, <2>4 DEF RecordsSound
<1>2. QED
  BY <1>1, RecordsInvInvariant, PTL

\* An order that rests on the exchange and has a row comes back with the next
\* restart.
THEOREM LiveOrdersAreRestored ==
  RecordsSpec => []LiveOrdersRestored
<1>1. RecordsInv => LiveOrdersRestored
  <2>1. SUFFICES ASSUME RecordsInv, NEW o \in Orders, state[o] = "live", rows.order[o] # NoRow
                 PROVE  rows.order[o].status \in OpenStatuses
    BY DEF LiveOrdersRestored
  <2>2. PICK n \in DOMAIN log : /\ log[n].typ = "order" /\ log[n].subject = o
                                /\ rows.order[o].status = log[n].value
    BY <2>1 DEF RecordsInv, RowsTold
  <2>3. QED
    BY <2>1, <2>2 DEF RecordsInv, OpenTold
<1>2. QED
  BY <1>1, RecordsInvInvariant, PTL

--------------------------------------------------------------------------------
(* Rows in the order of the events: the inductive invariant. *)

\* Event i is critical, pending, and was not tried yet.
Fresh(b, i) == i \in DOMAIN b.events /\ IsCritical(b.events[i]) /\ b.events[i].retry = 0

\* The fresh ones of s, events or entries, stand in the order of their publication,
Turns(s, b) ==
  \A j, k \in DOMAIN s : j < k /\ Fresh(b, s[j].id) /\ Fresh(b, s[k].id) => s[j].id < s[k].id

\* and those of the batch s before those in the queue.
Ahead(s, b) ==
  \A m \in DOMAIN s, j \in DOMAIN b.ready :
    Fresh(b, s[m].id) /\ Fresh(b, b.ready[j].id) => s[m].id < b.ready[j].id

\* An entry has the priority of its event.
Priced(b, L) == \A j \in DOMAIN b.ready : b.ready[j].prio = PriorityOf[L[b.ready[j].id].typ]

InTurn(s, b, L) == Turns(s, b) /\ Turns(b.ready, b) /\ Ahead(s, b) /\ Priced(b, L)

\* The record of event n at place l of KindOrder is still to be written.
Waits(b, s, k, l, n) == InReady(b, n) \/ (InBatch(s, n) /\ k <= l)

Wait(S, b, s, k, l) == {n \in S : Waits(b, s, k, l, n)}

\* With W still to be written of the events S, the older ones are written, and the
\* row has the value of the newest of these.
Follows(L, S, W, v, none) ==
  /\ \A m \in S \ W, n \in W : m < n
  /\ S \ W = {} => v = none
  /\ S \ W # {} => \E x \in S \ W : v = L[x].value /\ \A m \in S \ W : m <= x

\* The row of an order is that of its first event.
KeepsFirst(L, S, W, row) ==
  /\ row = NoRow => W = S
  /\ row # NoRow =>
       \E x \in S : row = [key |-> x, status |-> L[x].value] /\ \A n \in S : x <= n

FillsOf(L, t) == {n \in DOMAIN L : L[n].typ = "fill" /\ L[n].subject = t}

PositionsOf(L) == {n \in DOMAIN L : L[n].typ = "position" /\ L[n].subject = "token"}

OrdersOf(L, o) == {n \in DOMAIN L : L[n].typ = "order" /\ L[n].subject = o}

\* Market events with a market.
ListingsOf(L) == {n \in DOMAIN L : L[n].typ \in MarketTypes /\ L[n].value # Absent}

AccountFollows(L, b, s, k, R) ==
  /\ \A t \in AllTrades :
       Follows(L, FillsOf(L, t), Wait(FillsOf(L, t), b, s, k, 4), R.fill[t], Absent)
  /\ Follows(L, PositionsOf(L), Wait(PositionsOf(L), b, s, k, 5), R.position, NoPosition)
  /\ \A o \in Orders :
       KeepsFirst(L, OrdersOf(L, o), Wait(OrdersOf(L, o), b, s, k, 3), R.order[o])

\* Event i took the market out of the registry's selection, and is pending.
Pausing(b, L, i) ==
  i \in DOMAIN b.events /\ L[i].typ = "filtered_out" /\ L[i].value # Absent

\* As long as nothing merges, an event of low priority is the only pending one of
\* its type, in the queue once or in the batch once.
Apart(s, b, L) ==
  /\ DOMAIN b.retained = {}
  /\ \A i \in DOMAIN b.events : ~IsCritical(b.events[i]) =>
       /\ b.events[i].ver = i
       /\ b.events[i].typ \in DOMAIN b.index /\ b.index[b.events[i].typ] = i
  /\ \A j \in DOMAIN b.ready : ~IsCritical(L[b.ready[j].id]) =>
       /\ b.ready[j].id \in DOMAIN b.events
       /\ ~InBatch(s, b.ready[j].id)
       /\ Once(b, b.ready[j].id)
  /\ \A m \in DOMAIN s : ~IsCritical(s[m]) =>
       /\ s[m].ver = s[m].id
       /\ \A n \in DOMAIN s : s[n].id = s[m].id => n = m

\* The market, with status g in the registry, is discovered before it is taken
\* out of the selection, and not again while that is to be written.
Discovered(L) == {n \in DOMAIN L : L[n].typ = "discovered"}

Paused(s, b, L, g) ==
  \A i \in DOMAIN L : Pausing(b, L, i) =>
    /\ g # Absent
    /\ \A n \in Discovered(L) : n < i
    /\ InBatch(s, i) => \A n \in Discovered(L) : ~InReady(b, n)

\* The events of low priority of a batch are written in the order of publication.
OldFirst(s) ==
  \A m, n \in DOMAIN s : m < n /\ ~IsCritical(s[m]) /\ ~IsCritical(s[n]) => s[m].id < s[n].id

MarketFollows(L, b, s, k, R, g) ==
  /\ Apart(s, b, L) /\ Paused(s, b, L, g) /\ OldFirst(s)
  /\ Follows(L, ListingsOf(L), Wait(ListingsOf(L), b, s, k, 2), R.market, Absent)

\* Nothing was refused and nothing crashed.
Clean == failures = 0 /\ crashes = 0

\* The inductive invariant beside RecordsInv.
FollowInv ==
  /\ InTurn(writing, outbox, log)
  /\ Clean => AccountFollows(log, outbox, writing, kind, rows)
  /\ Clean /\ ~merged => MarketFollows(log, outbox, writing, kind, rows, listing)

--------------------------------------------------------------------------------
(* Rows that follow, in general. *)

\* Nothing more is written: what was published waits, what waited still does.
LEMMA FollowsKept ==
  ASSUME NEW L, NEW S, NEW W, NEW v, NEW none, Follows(L, S, W, v, none),
         NEW K, NEW T, NEW V, W \subseteq S, V \subseteq T, S \subseteq T,
         \A i \in S : K[i] = L[i] /\ (i \in V <=> i \in W),
         \A i \in T \ S : i \in V /\ \A m \in S : m < i
  PROVE  Follows(K, T, V, v, none)
<1>1. T \ V = S \ W
  OBVIOUS
<1>2. \A m \in S \ W, n \in V : m < n
  BY DEF Follows
<1>3. S \ W = {} => v = none
  BY DEF Follows
<1>4. S \ W # {} => \E x \in S \ W : v = K[x].value /\ \A m \in S \ W : m <= x
  BY DEF Follows
<1>5. QED
  BY <1>1, <1>2, <1>3, <1>4 DEF Follows

\* The events B are written, the older ones of those that wait; x is the newest.
LEMMA FollowsWritten ==
  ASSUME NEW L, NEW S, S \subseteq Int, NEW W, NEW v, NEW none, Follows(L, S, W, v, none),
         NEW V, V \subseteq W, W \subseteq S, \A m \in W \ V, n \in V : m < n,
         NEW x \in W \ V, \A m \in W \ V : m <= x,
         NEW w, w = L[x].value
  PROVE  Follows(L, S, V, w, none)
<1>1. S \ V = (S \ W) \union (W \ V)
  OBVIOUS
<1>2. \A m \in S \ W : \A n \in W : m < n
  BY DEF Follows
<1>3. \A m \in S \ V, n \in V : m < n
  BY <1>1, <1>2
<1>4. x \in S \ V /\ S \ V # {}
  OBVIOUS
<1>5. \A m \in S \ V : m <= x
  BY <1>1, <1>2
<1>6. QED
  BY <1>3, <1>4, <1>5 DEF Follows

\* The row of an order, once it is there, stays whatever waits.
LEMMA FirstKept ==
  ASSUME NEW L, NEW S, NEW W, NEW row, KeepsFirst(L, S, W, row), W \subseteq S,
         NEW K, NEW T, NEW V, V \subseteq T, S \subseteq T, T \subseteq Int,
         \A i \in S : K[i] = L[i],
         row = NoRow => W \subseteq V,
         \A i \in T \ S : i \in V /\ \A m \in S : m < i
  PROVE  KeepsFirst(K, T, V, row)
<1>1. CASE row = NoRow
  BY <1>1 DEF KeepsFirst
<1>2. CASE row # NoRow
  <2>1. PICK x \in S : row = [key |-> x, status |-> L[x].value] /\ \A n \in S : x <= n
    BY <1>2 DEF KeepsFirst
  <2>2. x \in T /\ K[x] = L[x] /\ x \in Int
    BY <2>1
  <2>3. \A n \in T : x <= n
    BY <2>1
  <2>4. QED
    BY <1>2, <2>1, <2>2, <2>3 DEF KeepsFirst
<1>3. QED
  BY <1>1, <1>2

\* Of the events that wait for their records of the account, those of K that the
\* log L does not have are queued, and the others wait as before; an order's may
\* also begin to wait again.
StillWaits(L, b, s, k, K, r, t, j) ==
  /\ \A i \in DOMAIN L :
       /\ L[i].typ = "fill" => (Waits(r, t, j, 4, i) <=> Waits(b, s, k, 4, i))
       /\ L[i].typ = "position" => (Waits(r, t, j, 5, i) <=> Waits(b, s, k, 5, i))
       /\ L[i].typ = "order" => (Waits(b, s, k, 3, i) => Waits(r, t, j, 3, i))
  /\ \A i \in DOMAIN K \ DOMAIN L :
       K[i].typ \in {"order", "fill", "position"} => InReady(r, i)

\* The log K goes on where L ends.
LEMMA NewIsLater ==
  ASSUME NEW L, NEW K, LogOK(L), LogOK(K), Extends(K, L)
  PROVE  /\ DOMAIN K \subseteq Int /\ DOMAIN L \subseteq DOMAIN K
         /\ \A i \in DOMAIN K \ DOMAIN L, m \in DOMAIN L : m < i
         /\ \A i \in DOMAIN L : K[i] = L[i]
<1>1. DOMAIN K = 1..Len(K) /\ DOMAIN L = 1..Len(L) /\ Len(K) \in Nat /\ Len(L) \in Nat
  BY LogFacts
<1>2. QED
  BY <1>1 DEF Extends

LEMMA AccountKept ==
  ASSUME NEW L, NEW K, LogOK(L), LogOK(K), Extends(K, L),
         NEW b, NEW s, NEW k, NEW r, NEW t, NEW j, NEW R,
         AccountFollows(L, b, s, k, R), StillWaits(L, b, s, k, K, r, t, j)
  PROVE  AccountFollows(K, r, t, j, R)
<1>1. /\ DOMAIN K \subseteq Int /\ DOMAIN L \subseteq DOMAIN K
      /\ \A i \in DOMAIN K \ DOMAIN L, m \in DOMAIN L : m < i
      /\ \A i \in DOMAIN L : K[i] = L[i]
  BY NewIsLater
<1>2. ASSUME NEW u \in AllTrades
      PROVE  Follows(K, FillsOf(K, u), Wait(FillsOf(K, u), r, t, j, 4), R.fill[u], Absent)
  <2> DEFINE S == FillsOf(L, u)
             T == FillsOf(K, u)
             W == Wait(S, b, s, k, 4)
             V == Wait(T, r, t, j, 4)
  <2>1. Follows(L, S, W, R.fill[u], Absent)
    BY DEF AccountFollows
  <2>2. S \subseteq T /\ S \subseteq DOMAIN L /\ T \subseteq DOMAIN K /\ T \ S \subseteq DOMAIN K \ DOMAIN L
    BY <1>1 DEF FillsOf
  <2>3. W \subseteq S /\ V \subseteq T
    BY DEF Wait
  <2>4. \A i \in S : K[i] = L[i] /\ (i \in V <=> i \in W)
    BY <1>1, <2>2 DEF StillWaits, Wait, FillsOf
  <2>5. \A i \in T \ S : i \in V /\ \A m \in S : m < i
    BY <1>1, <2>2 DEF StillWaits, Wait, Waits, FillsOf
  <2> HIDE DEF S, T, W, V
  <2>6. Follows(K, T, V, R.fill[u], Absent)
    BY <2>1, <2>2, <2>3, <2>4, <2>5, FollowsKept
  <2>7. QED
    BY <2>6 DEF T, V
<1>3. Follows(K, PositionsOf(K), Wait(PositionsOf(K), r, t, j, 5), R.position, NoPosition)
  <2> DEFINE S == PositionsOf(L)
             T == PositionsOf(K)
             W == Wait(S, b, s, k, 5)
             V == Wait(T, r, t, j, 5)
  <2>1. Follows(L, S, W, R.position, NoPosition)
    BY DEF AccountFollows
  <2>2. S \subseteq T /\ S \subseteq DOMAIN L /\ T \subseteq DOMAIN K /\ T \ S \subseteq DOMAIN K \ DOMAIN L
    BY <1>1 DEF PositionsOf
  <2>3. W \subseteq S /\ V \subseteq T
    BY DEF Wait
  <2>4. \A i \in S : K[i] = L[i] /\ (i \in V <=> i \in W)
    BY <1>1, <2>2 DEF StillWaits, Wait, PositionsOf
  <2>5. \A i \in T \ S : i \in V /\ \A m \in S : m < i
    BY <1>1, <2>2 DEF StillWaits, Wait, Waits, PositionsOf
  <2> HIDE DEF S, T, W, V
  <2>6. Follows(K, T, V, R.position, NoPosition)
    BY <2>1, <2>2, <2>3, <2>4, <2>5, FollowsKept
  <2>7. QED
    BY <2>6 DEF T, V
<1>4. ASSUME NEW o \in Orders
      PROVE  KeepsFirst(K, OrdersOf(K, o), Wait(OrdersOf(K, o), r, t, j, 3), R.order[o])
  <2> DEFINE S == OrdersOf(L, o)
             T == OrdersOf(K, o)
             W == Wait(S, b, s, k, 3)
             V == Wait(T, r, t, j, 3)
  <2>1. KeepsFirst(L, S, W, R.order[o])
    BY DEF AccountFollows
  <2>2. /\ S \subseteq T /\ S \subseteq DOMAIN L /\ T \subseteq DOMAIN K
        /\ T \ S \subseteq DOMAIN K \ DOMAIN L /\ T \subseteq Int
    BY <1>1 DEF OrdersOf
  <2>3. W \subseteq S /\ V \subseteq T /\ \A i \in S : K[i] = L[i]
    BY <1>1, <2>2 DEF Wait
  <2>4. W \subseteq V
    BY <1>1, <2>2 DEF StillWaits, Wait, OrdersOf
  <2>5. \A i \in T \ S : i \in V /\ \A m \in S : m < i
    BY <1>1, <2>2 DEF StillWaits, Wait, Waits, OrdersOf
  <2> HIDE DEF S, T, W, V
  <2>6. KeepsFirst(K, T, V, R.order[o])
    BY <2>1, <2>2, <2>3, <2>4, <2>5, FirstKept
  <2>7. QED
    BY <2>6 DEF T, V
<1>5. QED
  BY <1>2, <1>3, <1>4 DEF AccountFollows

--------------------------------------------------------------------------------
(* A publication keeps the turns. *)

\* Publication d follows the log L, which becomes K; e is its event, and r what the
\* outbox b becomes.
PutAs(L, d, K, b, e, r) ==
  /\ LogOK(L) /\ LogOK(K) /\ Extends(K, L)
  /\ DOMAIN K = DOMAIN L \union {e.id} /\ e.id \notin DOMAIN L /\ K[e.id] = d
  /\ e.typ = d.typ /\ e.retry = 0 /\ e.ver = e.id /\ d.typ \in Types
  /\ \A i \in DOMAIN L : i < e.id
  /\ DOMAIN b.ready = 1..Len(b.ready) /\ Len(b.ready) \in Nat
  /\ \A j \in DOMAIN b.ready :
       b.ready[j].id \in DOMAIN L /\ j \in DOMAIN r.ready /\ r.ready[j] = b.ready[j]
  /\ MergesInto(b, e) =>
       /\ d.typ \in {"discovered", "filtered_out"}
       /\ DOMAIN r.ready = DOMAIN b.ready
  /\ ~MergesInto(b, e) =>
       /\ DOMAIN r.ready = 1..(Len(b.ready) + 1)
       /\ r.ready[Len(b.ready) + 1] = Entry(e)
       /\ IsPut(b, r, e)
  /\ \A i : InReady(r, i) <=> InReady(b, i) \/ (i = e.id /\ ~MergesInto(b, e))
  /\ \A i : Fresh(r, i) => i = e.id \/ Fresh(b, i)

\* What one publication changes.
LEMMA PutChanges ==
  ASSUME NEW L, NEW d, NEW K, OneMore(L, d, K), NEW R, NEW f \in Nat, NEW n \in Nat,
         NEW s, NEW b, Sound(b, s, 0, L, R, f), Roomy(b, n, L),
         NEW e, e = Event(Len(L) + 1, d.typ, Len(L) + 1), NEW r, r = PutNowait(b, e)
  PROVE  PutAs(L, d, K, b, e, r)
<1>1. /\ LogOK(L) /\ d \in Publication /\ Told(d) /\ Len(L) < MaxEvents /\ K = Append(L, d)
  BY DEF OneMore
<1>2. /\ LogOK(K) /\ Len(K) = Len(L) + 1
      /\ DOMAIN K = DOMAIN L \union {Len(L) + 1} /\ Len(L) + 1 \notin DOMAIN L
      /\ Extends(K, L) /\ K[Len(L) + 1] = d
  BY <1>1, LogGrows
<1>3. e.id = Len(L) + 1 /\ e.typ = d.typ /\ e.retry = 0 /\ e.ver = e.id
  BY DEF Event
<1>4. /\ DOMAIN L = 1..Len(L) /\ Len(L) \in Nat /\ DOMAIN TypesOf(L) = DOMAIN L
      /\ Publications(TypesOf(L)) /\ K[e.id].typ \in Types
  BY <1>1, <1>2, <1>3, LogFacts
<1>5. \/ ~MergesInto(b, e) /\ IsPut(b, r, e)
      \/ MergesInto(b, e) /\ \E new : IsMerged(b, r, e, new)
  BY PutSound
<1>6. /\ ReadyOK(b, TypesOf(L)) /\ MapOK(b.events, TypesOf(L))
  BY DEF Sound, BoxSound, BoxOK, Shape
<1>7. /\ DOMAIN b.ready = 1..Len(b.ready) /\ Len(b.ready) \in Nat
      /\ \A j \in DOMAIN b.ready : b.ready[j].id \in DOMAIN L
  BY <1>4, <1>6, ReadyFacts
<1>8. \A i \in DOMAIN L : i < e.id
  BY <1>3, <1>4
<1>9. CASE ~MergesInto(b, e)
  <2>1. IsPut(b, r, e)
    BY <1>5, <1>9
  <2>2. r.ready = Append(b.ready, Entry(e)) /\ IsWith(r.events, b.events, e)
    BY <2>1 DEF IsPut
  <2>3. WellFormed(TypesOf(K), e) /\ ReadyOK(b, TypesOf(K)) /\ e.typ \in Types
    <3>1. /\ DOMAIN TypesOf(K) = DOMAIN K /\ \A i \in DOMAIN K : TypesOf(K)[i] = K[i].typ
          /\ Len(K) \in Nat /\ Len(K) <= MaxEvents /\ DOMAIN K = 1..Len(K)
      BY <1>2, LogFacts
    <3>2. e.id \in DOMAIN K /\ e.id \in Ids /\ TypesOf(K)[e.id] = e.typ /\ 0 \in 0..MaxRetryCount
      BY <1>2, <1>3, <3>1, OutboxAssumption DEF Ids
    <3>3. e = [id |-> e.id, typ |-> e.typ, ver |-> e.ver, retry |-> e.retry]
      BY DEF Event
    <3>4. WellFormed(TypesOf(K), e)
      BY <1>2, <1>3, <1>4, <3>1, <3>2, <3>3 DEF WellFormed
    <3>5. ReadyOK(b, TypesOf(K))
      <4> DEFINE A == [prio : 0..3, id : DOMAIN L]
                 B == [prio : 0..3, id : DOMAIN K]
      <4>1. A \subseteq B
        BY <1>2
      <4>2. b.ready \in Seq(A) /\ Len(b.ready) <= MaxSize
        BY <1>4, <1>6 DEF ReadyOK
      <4> HIDE DEF A, B
      <4>3. b.ready \in Seq(B)
        BY <4>1, <4>2
      <4>4. QED
        BY <3>1, <4>2, <4>3 DEF ReadyOK, B
    <3>6. QED
      BY <1>2, <1>3, <1>4, <3>4, <3>5
  <2>4. /\ DOMAIN r.ready = 1..(Len(b.ready) + 1)
        /\ r.ready[Len(b.ready) + 1] = Entry(e)
        /\ \A j \in DOMAIN b.ready : r.ready[j] = b.ready[j]
        /\ \A i : InReady(r, i) <=> InReady(b, i) \/ i = e.id
    BY <2>2, <2>3, AppendReady
  <2>5. \A i : Fresh(r, i) => i = e.id \/ Fresh(b, i)
    BY <2>2 DEF Fresh, IsWith
  <2>6. \A j \in DOMAIN b.ready : j \in DOMAIN r.ready
    BY <1>7, <2>4
  <2>7. QED
    BY <1>1, <1>2, <1>3, <1>4, <1>7, <1>8, <1>9, <2>1, <2>4, <2>5, <2>6 DEF PutAs
<1>10. CASE MergesInto(b, e)
  <2>1. PICK new : IsMerged(b, r, e, new)
    BY <1>5, <1>10
  <2>2. /\ Mergeable(e) /\ new.id \in DOMAIN b.events
        /\ new = [e EXCEPT !.id = new.id, !.retry = b.events[new.id].retry]
        /\ r.ready = b.ready /\ IsWith(r.events, b.events, new)
    BY <2>1 DEF IsMerged
  <2>3. PriorityOf[e.typ] >= 2 /\ e.typ \in Types
    BY <1>2, <1>3, <1>4, <2>2 DEF Mergeable
  <2>4. e.typ \in {"discovered", "filtered_out"} /\ PriorityOf[e.typ] \in {2, 3}
    BY <2>3, RecordPriorities
  <2>5. new.typ = e.typ
    <3>1. e = [id |-> e.id, typ |-> e.typ, ver |-> e.ver, retry |-> e.retry]
      BY DEF Event
    <3>2. QED
      BY <2>2, <3>1
  <2>6. ~IsCritical(new)
    BY <2>4, <2>5 DEF IsCritical
  <2>7. \A i : Fresh(r, i) => Fresh(b, i)
    BY <2>2, <2>6 DEF Fresh, IsWith
  <2>8. \A i : InReady(r, i) <=> InReady(b, i)
    BY <2>2 DEF InReady
  <2>9. QED
    BY <1>1, <1>2, <1>3, <1>4, <1>7, <1>8, <1>10, <2>2, <2>4, <2>7, <2>8 DEF PutAs
<1>11. QED
  BY <1>9, <1>10

\* The event published has its turn behind the others.
LEMMA TurnPut ==
  ASSUME NEW L, NEW d, NEW K, OneMore(L, d, K), NEW R, NEW f \in Nat, NEW n \in Nat,
         NEW s, NEW b, Sound(b, s, 0, L, R, f), Roomy(b, n, L),
         NEW e, e = Event(Len(L) + 1, d.typ, Len(L) + 1), NEW r, r = PutNowait(b, e),
         \A j \in DOMAIN s : s[j].id \in DOMAIN L, InTurn(s, b, L)
  PROVE  InTurn(s, r, K)
<1>1. /\ Extends(K, L) /\ e.id \notin DOMAIN L /\ K[e.id] = d /\ e.typ = d.typ
      /\ \A i \in DOMAIN L : i < e.id
      /\ DOMAIN b.ready = 1..Len(b.ready) /\ Len(b.ready) \in Nat
      /\ \A j \in DOMAIN b.ready :
           b.ready[j].id \in DOMAIN L /\ j \in DOMAIN r.ready /\ r.ready[j] = b.ready[j]
      /\ MergesInto(b, e) => DOMAIN r.ready = DOMAIN b.ready
      /\ ~MergesInto(b, e) =>
           /\ DOMAIN r.ready = 1..(Len(b.ready) + 1)
           /\ r.ready[Len(b.ready) + 1] = Entry(e)
      /\ \A i : Fresh(r, i) => i = e.id \/ Fresh(b, i)
  <2>1. PutAs(L, d, K, b, e, r)
    BY PutChanges
  <2>2. QED
    BY <2>1 DEF PutAs
<1>2. Turns(s, b) /\ Turns(b.ready, b) /\ Ahead(s, b) /\ Priced(b, L)
  BY DEF InTurn
<1>3. \A j \in DOMAIN r.ready :
        \/ j \in DOMAIN b.ready /\ r.ready[j] = b.ready[j]
        \/ /\ r.ready[j] = Entry(e)
           /\ \A i \in DOMAIN b.ready : i < j
           /\ \A i \in DOMAIN r.ready : i <= j
  BY <1>1
<1>4. Entry(e).id = e.id /\ Entry(e).prio = PriorityOf[d.typ]
  BY <1>1 DEF Entry
<1>5. Turns(s, r)
  BY <1>1, <1>2 DEF Turns
<1>6. Ahead(s, r)
  <2>1. SUFFICES ASSUME NEW m \in DOMAIN s, NEW j \in DOMAIN r.ready,
                        Fresh(r, s[m].id), Fresh(r, r.ready[j].id)
                 PROVE  s[m].id < r.ready[j].id
    BY DEF Ahead
  <2>2. s[m].id \in DOMAIN L /\ Fresh(b, s[m].id)
    BY <1>1, <2>1
  <2>3. CASE j \in DOMAIN b.ready /\ r.ready[j] = b.ready[j]
    BY <1>1, <1>2, <2>1, <2>2, <2>3 DEF Ahead
  <2>4. CASE r.ready[j] = Entry(e)
    BY <1>1, <1>4, <2>2, <2>4
  <2>5. QED
    BY <1>3, <2>3, <2>4
<1>7. Turns(r.ready, r)
  <2>1. SUFFICES ASSUME NEW j \in DOMAIN r.ready, NEW k \in DOMAIN r.ready, j < k,
                        Fresh(r, r.ready[j].id), Fresh(r, r.ready[k].id)
                 PROVE  r.ready[j].id < r.ready[k].id
    BY DEF Turns
  <2>2. j \in DOMAIN b.ready /\ r.ready[j] = b.ready[j]
    BY <1>1, <1>3, <2>1
  <2>3. CASE k \in DOMAIN b.ready /\ r.ready[k] = b.ready[k]
    BY <1>1, <1>2, <2>1, <2>2, <2>3 DEF Turns
  <2>4. CASE r.ready[k] = Entry(e)
    BY <1>1, <1>4, <2>2, <2>4
  <2>5. QED
    BY <1>3, <2>3, <2>4
<1>8. Priced(r, K)
  <2>1. SUFFICES ASSUME NEW j \in DOMAIN r.ready
                 PROVE  r.ready[j].prio = PriorityOf[K[r.ready[j].id].typ]
    BY DEF Priced
  <2>2. CASE j \in DOMAIN b.ready /\ r.ready[j] = b.ready[j]
    BY <1>1, <1>2, <2>2 DEF Priced, Extends
  <2>3. CASE r.ready[j] = Entry(e)
    BY <1>1, <1>4, <2>3
  <2>4. QED
    BY <1>3, <2>2, <2>3
<1>9. QED
  BY <1>5, <1>6, <1>7, <1>8 DEF InTurn

\* Its records wait.
LEMMA AccountPut ==
  ASSUME NEW L, NEW d, NEW K, OneMore(L, d, K), NEW R, NEW f \in Nat, NEW n \in Nat,
         NEW s, NEW b, Sound(b, s, 0, L, R, f), Roomy(b, n, L),
         NEW e, e = Event(Len(L) + 1, d.typ, Len(L) + 1), NEW r, r = PutNowait(b, e),
         NEW k, AccountFollows(L, b, s, k, R)
  PROVE  AccountFollows(K, r, s, k, R)
<1>1. /\ LogOK(L) /\ LogOK(K) /\ Extends(K, L)
      /\ DOMAIN K = DOMAIN L \union {e.id} /\ e.id \notin DOMAIN L /\ K[e.id] = d
      /\ MergesInto(b, e) => d.typ \in {"discovered", "filtered_out"}
      /\ \A i : InReady(r, i) <=> InReady(b, i) \/ (i = e.id /\ ~MergesInto(b, e))
  <2>1. PutAs(L, d, K, b, e, r)
    BY PutChanges
  <2>2. QED
    BY <2>1 DEF PutAs
<1>2. StillWaits(L, b, s, k, K, r, s, k)
  BY <1>1 DEF StillWaits, Waits
<1>3. QED
  BY <1>1, <1>2, AccountKept

\* Of the events that wait for the record of the market, those of K that the log L
\* does not have are queued, and the others wait as before.
ListingWaits(L, b, s, k, K, r, t, j) ==
  /\ \A i \in ListingsOf(L) : Waits(r, t, j, 2, i) <=> Waits(b, s, k, 2, i)
  /\ \A i \in DOMAIN K \ DOMAIN L : InReady(r, i)

LEMMA ListingKept ==
  ASSUME NEW L, NEW K, LogOK(L), LogOK(K), Extends(K, L),
         NEW b, NEW s, NEW k, NEW r, NEW t, NEW j, NEW v,
         Follows(L, ListingsOf(L), Wait(ListingsOf(L), b, s, k, 2), v, Absent),
         ListingWaits(L, b, s, k, K, r, t, j)
  PROVE  Follows(K, ListingsOf(K), Wait(ListingsOf(K), r, t, j, 2), v, Absent)
<1>1. /\ DOMAIN K \subseteq Int /\ DOMAIN L \subseteq DOMAIN K
      /\ \A i \in DOMAIN K \ DOMAIN L, m \in DOMAIN L : m < i
      /\ \A i \in DOMAIN L : K[i] = L[i]
  BY NewIsLater
<1> DEFINE S == ListingsOf(L)
           T == ListingsOf(K)
           W == Wait(S, b, s, k, 2)
           V == Wait(T, r, t, j, 2)
<1>2. S \subseteq T /\ S \subseteq DOMAIN L /\ T \subseteq DOMAIN K /\ T \ S \subseteq DOMAIN K \ DOMAIN L
  BY <1>1 DEF ListingsOf
<1>3. W \subseteq S /\ V \subseteq T
  BY DEF Wait
<1>4. \A i \in S : K[i] = L[i] /\ (i \in V <=> i \in W)
  <2>1. \A i \in S : Waits(r, t, j, 2, i) <=> Waits(b, s, k, 2, i)
    BY DEF ListingWaits
  <2>2. \A i \in S : i \in T /\ K[i] = L[i]
    BY <1>1, <1>2
  <2> HIDE DEF S, T
  <2>3. QED
    BY <2>1, <2>2 DEF Wait
<1>5. \A i \in T \ S : i \in V /\ \A m \in S : m < i
  BY <1>1, <1>2 DEF ListingWaits, Wait, Waits
<1>6. Follows(L, S, W, v, Absent)
  OBVIOUS
<1> HIDE DEF S, T, W, V
<1>7. Follows(K, T, V, v, Absent)
  BY <1>2, <1>3, <1>4, <1>5, <1>6, FollowsKept
<1>8. QED
  BY <1>7 DEF T, V

\* An event that merges with none is apart from the others.
LEMMA ApartPut ==
  ASSUME NEW L, NEW d, NEW K, NEW b, NEW e, NEW r, PutAs(L, d, K, b, e, r), ~MergesInto(b, e),
         NEW s, \A j \in DOMAIN s : s[j].id \in DOMAIN L, Apart(s, b, L)
  PROVE  Apart(s, r, K)
<1>1. /\ Extends(K, L) /\ e.id \notin DOMAIN L /\ K[e.id] = d /\ e.typ = d.typ /\ e.ver = e.id
      /\ d.typ \in Types /\ \A i \in DOMAIN L : i < e.id
      /\ DOMAIN b.ready = 1..Len(b.ready) /\ Len(b.ready) \in Nat
      /\ \A j \in DOMAIN b.ready :
           b.ready[j].id \in DOMAIN L /\ j \in DOMAIN r.ready /\ r.ready[j] = b.ready[j]
      /\ DOMAIN r.ready = 1..(Len(b.ready) + 1)
      /\ r.ready[Len(b.ready) + 1] = Entry(e)
      /\ IsWith(r.events, b.events, e) /\ r.retained = Without(b.retained, e.id)
      /\ IsIndexed(r, b, e)
  BY DEF PutAs, IsPut
<1>2. \A j \in DOMAIN r.ready :
        \/ j \in DOMAIN b.ready /\ r.ready[j] = b.ready[j] /\ r.ready[j].id # e.id
        \/ r.ready[j].id = e.id /\ j = Len(b.ready) + 1
  BY <1>1 DEF Entry
<1>3. DOMAIN r.retained = {}
  BY <1>1 DEF Apart, Without
<1>4. ASSUME NEW i \in DOMAIN r.events, ~IsCritical(r.events[i])
      PROVE  /\ r.events[i].ver = i
             /\ r.events[i].typ \in DOMAIN r.index /\ r.index[r.events[i].typ] = i
  <2>1. CASE i = e.id
    <3>1. r.events[i] = e /\ ~IsCritical(e)
      BY <1>1, <1>4, <2>1 DEF IsWith
    <3>2. PriorityOf[e.typ] # 0
      BY <3>1 DEF IsCritical
    <3>3. e.typ \in {"discovered", "filtered_out"}
      BY <1>1, <3>2, RecordPriorities
    <3>4. Mergeable(e)
      <4>1. PriorityOf[e.typ] \in {2, 3} /\ e.typ \in Identified
        BY <1>1, <3>3, RecordPriorities
      <4>2. QED
        BY <4>1 DEF Mergeable
    <3>5. QED
      BY <1>1, <2>1, <3>1, <3>4 DEF IsIndexed
  <2>2. CASE i # e.id
    <3>1. i \in DOMAIN b.events /\ r.events[i] = b.events[i]
      BY <1>1, <1>4, <2>2 DEF IsWith
    <3>2. /\ b.events[i].ver = i
          /\ b.events[i].typ \in DOMAIN b.index /\ b.index[b.events[i].typ] = i
      BY <1>4, <3>1 DEF Apart
    <3>3. ~(Mergeable(e) /\ b.events[i].typ = e.typ)
      BY <3>1, <3>2 DEF MergesInto, Known
    <3>4. QED
      BY <1>1, <3>1, <3>2, <3>3 DEF IsIndexed
  <2>3. QED
    BY <2>1, <2>2
<1>5. ASSUME NEW j \in DOMAIN r.ready, ~IsCritical(K[r.ready[j].id])
      PROVE  /\ r.ready[j].id \in DOMAIN r.events
             /\ ~InBatch(s, r.ready[j].id)
             /\ Once(r, r.ready[j].id)
  <2>1. CASE j \in DOMAIN b.ready /\ r.ready[j] = b.ready[j] /\ r.ready[j].id # e.id
    <3>1. ~IsCritical(L[b.ready[j].id])
      BY <1>1, <1>5, <2>1 DEF Extends
    <3>2. /\ b.ready[j].id \in DOMAIN b.events
          /\ ~InBatch(s, b.ready[j].id)
          /\ Once(b, b.ready[j].id)
      BY <2>1, <3>1 DEF Apart
    <3>3. Once(r, r.ready[j].id)
      BY <1>2, <2>1, <3>2 DEF Once
    <3>4. QED
      BY <1>1, <2>1, <3>2, <3>3 DEF IsWith
  <2>2. CASE r.ready[j].id = e.id /\ j = Len(b.ready) + 1
    <3>1. Once(r, e.id)
      BY <1>2 DEF Once
    <3>2. ~InBatch(s, e.id)
      BY <1>1 DEF InBatch
    <3>3. QED
      BY <1>1, <2>2, <3>1, <3>2 DEF IsWith
  <2>3. QED
    BY <1>2, <2>1, <2>2
<1>6. \A m \in DOMAIN s : ~IsCritical(s[m]) =>
        /\ s[m].ver = s[m].id
        /\ \A n \in DOMAIN s : s[n].id = s[m].id => n = m
  BY DEF Apart
<1>7. QED
  BY <1>3, <1>4, <1>5, <1>6 DEF Apart

\* It keeps the row of the market, whose status in the registry becomes h.
LEMMA MarketPut ==
  ASSUME NEW L, NEW d, NEW K, NEW b, NEW e, NEW r, PutAs(L, d, K, b, e, r), ~MergesInto(b, e),
         NEW s, \A j \in DOMAIN s : s[j].id \in DOMAIN L,
         NEW R, NEW f, BoxSound(b, L, R, f),
         NEW k, NEW g, MarketFollows(L, b, s, k, R, g),
         NEW h, d.typ = "discovered" => g = Absent,
         h # Absent \/ g = Absent \/ d.typ = "filtered_out",
         d.typ = "filtered_out" /\ d.value # Absent => h # Absent
  PROVE  MarketFollows(K, r, s, k, R, h)
<1>1. /\ LogOK(L) /\ LogOK(K) /\ Extends(K, L) /\ DOMAIN K = DOMAIN L \union {e.id}
      /\ e.id \notin DOMAIN L /\ K[e.id] = d /\ e.typ = d.typ
      /\ d.typ \in Types /\ \A i \in DOMAIN L : i < e.id
      /\ \A i : InReady(r, i) <=> InReady(b, i) \/ i = e.id
      /\ IsWith(r.events, b.events, e)
  BY DEF PutAs, IsPut
<1>2. Apart(s, b, L) /\ Paused(s, b, L, g) /\ OldFirst(s)
      /\ Follows(L, ListingsOf(L), Wait(ListingsOf(L), b, s, k, 2), R.market, Absent)
  BY DEF MarketFollows
<1>3. Apart(s, r, K)
  BY <1>2, ApartPut
<1>4. Follows(K, ListingsOf(K), Wait(ListingsOf(K), r, s, k, 2), R.market, Absent)
  <2>1. ListingWaits(L, b, s, k, K, r, s, k)
    BY <1>1 DEF ListingWaits, ListingsOf, Waits
  <2>2. QED
    BY <1>1, <1>2, <2>1, ListingKept
<1>5. ASSUME NEW i \in DOMAIN K, Pausing(r, K, i)
      PROVE  /\ h # Absent
             /\ \A n \in Discovered(K) : n < i
             /\ InBatch(s, i) => \A n \in Discovered(K) : ~InReady(r, n)
  <2>1. CASE i = e.id
    <3>1. d.typ = "filtered_out" /\ d.value # Absent
      BY <1>1, <1>5, <2>1 DEF Pausing
    <3>2. \A n \in Discovered(K) : n < i
      BY <1>1, <2>1, <3>1 DEF Discovered
    <3>3. ~InBatch(s, i)
      BY <1>1, <2>1 DEF InBatch
    <3>4. QED
      BY <3>1, <3>2, <3>3
  <2>2. CASE i # e.id
    <3>1. i \in DOMAIN L /\ K[i] = L[i] /\ i \in DOMAIN b.events /\ Pausing(b, L, i)
      BY <1>1, <1>5, <2>2 DEF Pausing, IsWith, Extends
    <3>2. /\ g # Absent
          /\ \A n \in Discovered(L) : n < i
          /\ InBatch(s, i) => \A n \in Discovered(L) : ~InReady(b, n)
      BY <1>2, <3>1 DEF Paused
    <3>3. d.typ # "discovered"
      BY <3>2
    <3>4. Discovered(K) = Discovered(L) /\ e.id \notin Discovered(K)
      BY <1>1, <3>3 DEF Discovered, Extends
    <3>5. d.typ # "filtered_out"
      <4>1. SUFFICES ASSUME d.typ = "filtered_out"  PROVE FALSE
        OBVIOUS
      <4>2. b.events[i].typ = "filtered_out"
        <5>1. MapOK(b.events, TypesOf(L)) /\ TypesOf(L)[i] = L[i].typ
          BY <1>1, <3>1, LogFacts DEF BoxSound, BoxOK, Shape
        <5>2. b.events[i].id = i /\ WellFormed(TypesOf(L), b.events[i])
          BY <3>1, <5>1 DEF MapOK
        <5>3. QED
          BY <3>1, <5>1, <5>2 DEF WellFormed, Pausing
      <4>3. PriorityOf["filtered_out"] \in {2, 3} /\ "filtered_out" \in Identified
        BY <1>1, <4>1, RecordPriorities
      <4>4. ~IsCritical(b.events[i]) /\ Mergeable(e)
        BY <1>1, <4>1, <4>2, <4>3 DEF IsCritical, Mergeable
      <4>5. "filtered_out" \in DOMAIN b.index /\ b.index["filtered_out"] = i
        BY <1>2, <3>1, <4>2, <4>4 DEF Apart
      <4>6. QED
        BY <1>1, <3>1, <4>1, <4>4, <4>5 DEF MergesInto, Known
    <3>6. h # Absent
      BY <3>2, <3>5
    <3>7. QED
      BY <1>1, <3>2, <3>4, <3>6
  <2>3. QED
    BY <2>1, <2>2
<1>6. Paused(s, r, K, h)
  BY <1>5 DEF Paused
<1>7. QED
  BY <1>2, <1>3, <1>4, <1>6 DEF MarketFollows

\* FollowInv of these values: c says that nothing was refused and nothing crashed, m
\* that nothing merged either.
FollowAt(L, b, s, k, R, g, c, m) ==
  /\ InTurn(s, b, L)
  /\ c => AccountFollows(L, b, s, k, R)
  /\ m => MarketFollows(L, b, s, k, R, g)

LEMMA FollowInvIs ==
  FollowInv <=> FollowAt(log, outbox, writing, kind, rows, listing, Clean, Clean /\ ~merged)
BY DEF FollowInv, FollowAt

\* The events of the batch are published, and in the worker's hands.
LEMMA BatchInHand ==
  ASSUME RecordsInv
  PROVE  /\ failures \in Nat /\ LogOK(log) /\ Sound(outbox, writing, 0, log, rows, failures)
         /\ Roomy(outbox, Len(writing), log) /\ Len(writing) \in Nat
         /\ DOMAIN writing = 1..Len(writing)
         /\ \A j \in DOMAIN writing : writing[j].id \in DOMAIN log
<1>1. /\ failures \in Nat /\ LogOK(log) /\ Sound(outbox, writing, 0, log, rows, failures)
      /\ Roomy(outbox, Len(writing), log)
      /\ writing \in Seq(EventsOf(TypesOf(log))) /\ Len(writing) \in Nat
  BY DEF RecordsInv, StoreOK, WritingOK, Sound
<1>2. DOMAIN writing = 1..Len(writing)
  BY <1>1
<1>3. \A j \in DOMAIN writing : writing[j] \in EventsOf(TypesOf(log))
  BY <1>1
<1>4. DOMAIN TypesOf(log) = DOMAIN log
  BY DEF TypesOf
<1>5. QED
  BY <1>1, <1>2, <1>3, <1>4 DEF EventsOf

\* An event apart from the others, which the market may publish when its status in
\* the registry goes from g to h.
MayFollow(b, e, d, g, h) ==
  /\ ~MergesInto(b, e)
  /\ d.typ = "discovered" => g = Absent
  /\ h # Absent \/ g = Absent \/ d.typ = "filtered_out"
  /\ d.typ = "filtered_out" /\ d.value # Absent => h # Absent

\* One publication: the outbox b, with the batch s in the worker's hands, becomes r.
PutsOne(L, d, K, R, f, n, s, b, e, r) ==
  /\ OneMore(L, d, K) /\ f \in Nat /\ n \in Nat
  /\ Sound(b, s, 0, L, R, f) /\ Roomy(b, n, L)
  /\ e = Event(Len(L) + 1, d.typ, Len(L) + 1) /\ r = PutNowait(b, e)
  /\ \A j \in DOMAIN s : s[j].id \in DOMAIN L

\* A publication and the invariant.
LEMMA FollowPut ==
  ASSUME NEW L, NEW d, NEW K, NEW R, NEW f, NEW n, NEW s, NEW b, NEW e, NEW r,
         PutsOne(L, d, K, R, f, n, s, b, e, r),
         NEW k, NEW g, NEW c, NEW m, FollowAt(L, b, s, k, R, g, c, m), NEW h,
         m => MayFollow(b, e, d, g, h)
  PROVE  FollowAt(K, r, s, k, R, h, c, m)
<1>0. /\ OneMore(L, d, K) /\ f \in Nat /\ n \in Nat
      /\ Sound(b, s, 0, L, R, f) /\ Roomy(b, n, L)
      /\ e = Event(Len(L) + 1, d.typ, Len(L) + 1) /\ r = PutNowait(b, e)
      /\ \A j \in DOMAIN s : s[j].id \in DOMAIN L
  BY DEF PutsOne
<1>1. InTurn(s, r, K)
  <2>1. InTurn(s, b, L)
    BY DEF FollowAt
  <2>2. QED
    BY <1>0, <2>1, TurnPut
<1>2. ASSUME c  PROVE AccountFollows(K, r, s, k, R)
  <2>1. AccountFollows(L, b, s, k, R)
    BY <1>2 DEF FollowAt
  <2>2. QED
    BY <1>0, <2>1, AccountPut
<1>3. ASSUME m  PROVE MarketFollows(K, r, s, k, R, h)
  <2>1. MarketFollows(L, b, s, k, R, g)
    BY <1>3 DEF FollowAt
  <2>2. PutAs(L, d, K, b, e, r)
    BY <1>0, PutChanges
  <2>3. BoxSound(b, L, R, f)
    BY <1>0 DEF Sound
  <2>4. QED
    BY <1>0, <1>3, <2>1, <2>2, <2>3, MarketPut DEF MayFollow
<1>4. QED
  BY <1>1, <1>2, <1>3 DEF FollowAt

\* The types of what the user channel publishes.
AccountTypes == {"order", "fill", "position", "balance"}

\* A publication of the user channel.
LEMMA PutAllFollows ==
  ASSUME NEW L, NEW events, NEW K, Publishes(L, events, K),
         \A i \in DOMAIN events : events[i].typ \in AccountTypes,
         NEW R, NEW f \in Nat, NEW n \in Nat, NEW s, NEW b,
         Sound(b, s, 0, L, R, f), Roomy(b, n, L), NEW r, r = PutAll(b, Len(L), events),
         \A j \in DOMAIN s : s[j].id \in DOMAIN L,
         NEW k, NEW g, NEW c, NEW m, FollowAt(L, b, s, k, R, g, c, m)
  PROVE  FollowAt(K, r, s, k, R, g, c, m)
<1>1. /\ LogOK(K) /\ Extends(K, L) /\ Len(events) \in Nat /\ Len(L) \in Nat
      /\ DOMAIN events = 1..Len(events) /\ DOMAIN L = 1..Len(L)
      /\ First(K, Len(L)) = L /\ First(K, Len(L) + Len(events)) = K
      /\ \A i \in DOMAIN events :
           /\ First(K, Len(L) + i) = Append(First(K, Len(L) + i - 1), events[i])
           /\ LogOK(First(K, Len(L) + i - 1)) /\ Len(First(K, Len(L) + i - 1)) = Len(L) + i - 1
  BY LogPrefixes
<1>2. Len(events) \in Nat
  BY <1>1
<1>3. \E u : PutRun(b, Len(L), events, u)
  BY <1>2, PutAllRun
<1>4. PICK put : PutRun(b, Len(L), events, put)
  BY <1>3
<1> DEFINE N == Len(events)
           P(i) == First(K, Len(L) + i)
<1>5. /\ N \in Nat /\ P(0) = L /\ P(N) = K
      /\ put[0] = b /\ r = put[N]
      /\ \A i \in 1..N : /\ P(i) = Append(P(i - 1), events[i])
                         /\ LogOK(P(i - 1)) /\ Len(P(i - 1)) = Len(L) + i - 1
                         /\ put[i] = Put(put[i - 1], Len(L) + i, events[i].typ)
                         /\ events[i] \in Publication /\ Told(events[i])
                         /\ events[i].typ \in AccountTypes
  <2>1. Len(L) + 0 = Len(L) /\ \A i \in 1..N : Len(L) + (i - 1) = Len(L) + i - 1
    BY <1>1
  <2>2. \A i \in 1..N : events[i] \in Publication
    BY <1>1 DEF Publishes
  <2>4. \A i \in 1..N : Told(events[i]) /\ events[i].typ \in AccountTypes
    BY <1>1 DEF Publishes
  <2>3. QED
    BY <1>1, <1>4, <2>1, <2>2, <2>4 DEF PutRun
<1>6. \A i \in 1..N : Len(L) + i - 1 < MaxEvents /\ (Len(L) + i - 1) + 1 = Len(L) + i
  BY <1>1, OutboxAssumption DEF Publishes
<1>11. \A i \in 1..N : DOMAIN L \subseteq DOMAIN P(i - 1)
  <2>1. SUFFICES ASSUME NEW i \in 1..N  PROVE DOMAIN L \subseteq DOMAIN P(i - 1)
    OBVIOUS
  <2> HIDE DEF P, N
  <2>2. DOMAIN P(i - 1) = 1..(Len(L) + i - 1)
    BY <1>5, LogFacts
  <2>3. QED
    BY <1>1, <1>5, <2>2
<1>7. /\ Sound(put[0], s, 0, P(0), R, f) /\ Roomy(put[0], n, P(0))
      /\ FollowAt(P(0), put[0], s, k, R, g, c, m)
  BY <1>5
<1> HIDE DEF N, P
<1> DEFINE Good(i) == /\ Sound(put[i], s, 0, P(i), R, f) /\ Roomy(put[i], n, P(i))
                      /\ FollowAt(P(i), put[i], s, k, R, g, c, m)
<1>8. ASSUME NEW i \in 1..N, Good(i - 1)
      PROVE  Good(i)
  <2>0. /\ Sound(put[i - 1], s, 0, P(i - 1), R, f) /\ Roomy(put[i - 1], n, P(i - 1))
        /\ FollowAt(P(i - 1), put[i - 1], s, k, R, g, c, m)
    BY <1>8
  <2>1. OneMore(P(i - 1), events[i], P(i))
    BY <1>5, <1>6 DEF OneMore
  <2> DEFINE e == Event(Len(P(i - 1)) + 1, events[i].typ, Len(P(i - 1)) + 1)
  <2>2. put[i] = PutNowait(put[i - 1], e)
    BY <1>5, <1>6 DEF Put
  <2>3. \A j \in DOMAIN s : s[j].id \in DOMAIN P(i - 1)
    BY <1>11
  <2>4. events[i].typ \notin {"discovered", "filtered_out"}
    BY <1>5 DEF AccountTypes
  <2>9. e = Event(Len(P(i - 1)) + 1, events[i].typ, Len(P(i - 1)) + 1)
    OBVIOUS
  <2> HIDE DEF e, Good
  <2>5. ~MergesInto(put[i - 1], e)
    <3>1. PutAs(P(i - 1), events[i], P(i), put[i - 1], e, put[i])
      BY <2>0, <2>1, <2>2, PutChanges DEF e
    <3>2. QED
      BY <2>4, <3>1 DEF PutAs
  <2>10. MayFollow(put[i - 1], e, events[i], g, g)
    BY <2>4, <2>5 DEF MayFollow
  <2>11. PutsOne(P(i - 1), events[i], P(i), R, f, n, s, put[i - 1], e, put[i])
    BY <2>0, <2>1, <2>2, <2>3, <2>9 DEF PutsOne
  <2>6. FollowAt(P(i), put[i], s, k, R, g, c, m)
    BY <2>0, <2>10, <2>11, FollowPut
  <2>7. Sound(put[i], s, 0, P(i), R, f) /\ Roomy(put[i], n, P(i))
    BY <2>0, <2>1, <2>2, PutSound DEF e
  <2>8. QED
    BY <2>6, <2>7 DEF Good
<1>12. Good(0)
  BY <1>7
<1> HIDE DEF Good
<1> DEFINE B == {i \in 0..N : ~Good(i)}
<1>9. /\ B \subseteq 0..N /\ 0 \notin B
      /\ \A i \in 1..N : i \in B => i - 1 \in B
  <2>1. ASSUME NEW i \in 1..N, i \in B  PROVE i - 1 \in B
    <3>1. i - 1 \in 0..N
      BY <1>5
    <3>2. QED
      BY <1>8, <2>1, <3>1
  <2>2. QED
    BY <1>12, <2>1
<1>10. Good(N)
  <2>1. N \in 0..N
    BY <1>5
  <2> HIDE DEF B
  <2>2. B = {}
    BY <1>5, <1>9, Walk
  <2>3. QED
    BY <2>1, <2>2 DEF B
<1>13. QED
  BY <1>5, <1>10 DEF Good

\* A message of the user channel, handled or lost.
LEMMA ProcessedFollows ==
  ASSUME RecordsInv, FollowInv, NEW result, Handled(result), Processed(result),
         \A i \in DOMAIN result.events : result.events[i].typ \in AccountTypes,
         UNCHANGED Unpublished
  PROVE  FollowInv'
<1>1. UNCHANGED <<up, listing, writing, kind, rows, failures, crashes, merged>>
  BY DEF Unpublished, history, worker
<1>2. Clean' <=> Clean
  BY <1>1 DEF Clean
<1>3. CASE up
  <2>1. /\ Publishes(log, result.events, log')
        /\ outbox' = PutAll(outbox, Len(log), result.events)
    BY <1>3 DEF Processed, Published, HasRoom, Handled, Publishes, RecordsInv
  <2> DEFINE c == Clean
             m == Clean /\ ~merged
  <2>2. FollowAt(log, outbox, writing, kind, rows, listing, c, m)
    BY FollowInvIs
  <2> HIDE DEF c, m
  <2>3. FollowAt(log', outbox', writing, kind, rows, listing, c, m)
    BY <2>1, <2>2, BatchInHand, PutAllFollows
  <2>4. QED
    BY <1>1, <1>2, <2>3 DEF FollowAt, FollowInv, c, m
<1>4. CASE ~up
  <2>1. UNCHANGED <<log, outbox>>
    BY <1>4 DEF Processed
  <2>2. QED
    BY <1>1, <1>2, <2>1 DEF FollowInv
<1>5. QED
  BY <1>3, <1>4

\* The message of an order,
LEMMA OrderMovesFollows ==
  ASSUME RecordsInv, FollowInv, NEW o \in Orders,
         NEW k \in {"placement", "update", "cancellation"},
         NEW s \in {"live", "matched", "cancelled"}, s = "cancelled" <=> k = "cancellation",
         NEW f \in Nat, OrderMoves(o, k, s, f)
  PROVE  FollowInv'
<1>1. PICK text \in Texts :
        Processed(HandleOrder(account,
          OrderMessage(o, k, IF text THEN StatusText(o, s) ELSE NoText, f, Size[o])))
  BY DEF OrderMoves
<1> DEFINE m == OrderMessage(o, k, IF text THEN StatusText(o, s) ELSE NoText, f, Size[o])
           u == UserOrderStatus(m)
           result == HandleOrder(account, m)
<1>2. u \in OrderStatuses
  <2>1. text \in BOOLEAN /\ Size[o] \in Nat
    BY RecordsAssumption
  <2>2. QED
    BY <2>1, StatusTold
<1>3. Handled(result) /\ result.events = <<DomainEvent("order", o, u)>>
  <2>1. m.order = o
    BY DEF OrderMessage
  <2>2. account \in [orders : OpenOrders, shares : Nat]
    BY DEF RecordsInv, StoreOK
  <2> HIDE DEF m
  <2>3. QED
    BY <1>2, <2>1, <2>2, OrderHandled
<1>4. Processed(result) /\ UNCHANGED Unpublished
  BY <1>1 DEF OrderMoves
<1> HIDE DEF m, u, result
<1>5. \A i \in DOMAIN result.events : result.events[i].typ \in AccountTypes
  BY <1>3 DEF DomainEvent, AccountTypes
<1>6. QED
  BY <1>3, <1>4, <1>5, ProcessedFollows

LEMMA OrderFollows ==
  ASSUME RecordsInv, FollowInv, NEW o \in Orders, Place(o) \/ Match(o) \/ Cancel(o)
  PROVE  FollowInv'
<1>1. filled[o] \in Nat /\ filled[o] + 1 \in Nat
  BY DEF RecordsInv, ExchangeOK
<1>2. CASE Place(o)
  BY <1>2, OrderMovesFollows DEF Place
<1>3. CASE Match(o)
  <2>1. \/ OrderMoves(o, "update", "matched", filled[o] + 1)
        \/ OrderMoves(o, "update", "live", filled[o] + 1)
    BY <1>3 DEF Match
  <2>2. QED
    BY <1>1, <2>1, OrderMovesFollows
<1>4. CASE Cancel(o)
  <2>1. OrderMoves(o, "cancellation", "cancelled", filled[o])
    BY <1>4 DEF Cancel
  <2>2. QED
    BY <1>1, <2>1, OrderMovesFollows
<1>5. QED
  BY <1>2, <1>3, <1>4

\* of a trade,
LEMMA TradeFollows ==
  ASSUME RecordsInv, FollowInv, NEW t \in AllTrades, NEW s \in {"matched", "confirmed"},
         TradeReported(t, s)
  PROVE  FollowInv'
<1>1. PICK named \in Named :
        Processed(HandleFill(account,
          FillSnapshot(t, IF named THEN t[1] ELSE NoText, Side[t[1]], s)))
  BY DEF TradeReported
<1> DEFINE result == HandleFill(account,
                       FillSnapshot(t, IF named THEN t[1] ELSE NoText, Side[t[1]], s))
<1>2. Processed(result) /\ UNCHANGED Unpublished
  BY <1>1 DEF TradeReported
<1>3. named \in BOOLEAN /\ account \in [orders : OpenOrders, shares : Nat]
  BY RecordsAssumption DEF RecordsInv, StoreOK
<1>4. /\ Handled(result)
      /\ \E n \in Nat :
           result.events =
             IF named THEN <<DomainEvent("order", t[1], "matched"), DomainEvent("fill", t, s),
                             DomainEvent("position", "token", n)>>
             ELSE <<DomainEvent("fill", t, s), DomainEvent("position", "token", n)>>
  BY <1>3, FillHandled
<1> HIDE DEF result
<1>5. \A i \in DOMAIN result.events : result.events[i].typ \in AccountTypes
  <2>1. PICK n \in Nat :
          result.events =
            IF named THEN <<DomainEvent("order", t[1], "matched"), DomainEvent("fill", t, s),
                            DomainEvent("position", "token", n)>>
            ELSE <<DomainEvent("fill", t, s), DomainEvent("position", "token", n)>>
    BY <1>4
  <2> DEFINE d1 == DomainEvent("order", t[1], "matched")
             d2 == DomainEvent("fill", t, s)
             d3 == DomainEvent("position", "token", n)
  <2>2. /\ d1.typ = "order" /\ d2.typ = "fill" /\ d3.typ = "position"
    BY DEF DomainEvent
  <2>3. result.events = IF named THEN <<d1, d2, d3>> ELSE <<d2, d3>>
    BY <2>1
  <2> HIDE DEF d1, d2, d3
  <2>4. \A i \in DOMAIN result.events : result.events[i] \in {d1, d2, d3}
    <3>1. CASE named
      <4>1. result.events = <<d1, d2, d3>>
        BY <2>3, <3>1
      <4>2. QED
        BY <4>1
    <3>2. CASE ~named
      <4>1. result.events = <<d2, d3>>
        BY <2>3, <3>2
      <4>2. QED
        BY <4>1
    <3>3. QED
      BY <3>1, <3>2
  <2>5. QED
    BY <2>2, <2>4 DEF AccountTypes
<1>6. QED
  BY <1>2, <1>4, <1>5, ProcessedFollows

\* of a position or of the balance.
LEMMA SnapshotFollows ==
  ASSUME RecordsInv, FollowInv, PositionReported \/ BalanceReported
  PROVE  FollowInv'
<1>0. account \in [orders : OpenOrders, shares : Nat] /\ SharesHeld \in Nat
  BY DEF RecordsInv, StoreOK, ExchangeOK
<1>1. CASE PositionReported
  <2> DEFINE result == HandlePosition(account, SharesHeld)
  <2>1. Handled(result) /\ result.events = <<DomainEvent("position", "token", SharesHeld)>>
    BY <1>0, PositionHandled
  <2>2. Processed(result) /\ UNCHANGED Unpublished
    BY <1>1 DEF PositionReported
  <2> HIDE DEF result
  <2>3. \A i \in DOMAIN result.events : result.events[i].typ \in AccountTypes
    BY <2>1 DEF DomainEvent, AccountTypes
  <2>4. QED
    BY <2>1, <2>2, <2>3, ProcessedFollows
<1>2. CASE BalanceReported
  <2> DEFINE result == HandleBalance(account)
  <2>1. Handled(result) /\ result.events = <<DomainEvent("balance", "account", 0)>>
    BY <1>0, BalanceHandled
  <2>2. Processed(result) /\ UNCHANGED Unpublished
    BY <1>2 DEF BalanceReported
  <2> HIDE DEF result
  <2>3. \A i \in DOMAIN result.events : result.events[i].typ \in AccountTypes
    BY <2>1 DEF DomainEvent, AccountTypes
  <2>4. QED
    BY <2>1, <2>2, <2>3, ProcessedFollows
<1>3. QED
  BY <1>1, <1>2

\* The market moves.
LEMMA MarketMovesFollows ==
  ASSUME RecordsInv, FollowInv,
         NEW t, NEW s \in {Absent, "eligible", "paused", "resolved"}, NEW v,
         MarketMoves(t, s, v),
         \/ t = "discovered" /\ v = "eligible" /\ listing = Absent /\ s = "eligible"
         \/ t = "filtered_out" /\ v = "paused" /\ s = "paused"
         \/ t = "filtered_out" /\ v = Absent /\ s = Absent
         \/ t = "resolved" /\ v = Absent /\ s = "resolved"
  PROVE  FollowInv'
<1> DEFINE d == DomainEvent(t, "market", v)
           e == Event(Len(log) + 1, t, Len(log) + 1)
           events == <<d>>
<1>1. d \in Publication /\ Told(d)
  BY EventTold
<1>2. d.typ = t /\ d.value = v
  BY DEF DomainEvent
<1>3. /\ HasRoom(events) /\ listing' = s /\ Published(events)
      /\ merged' = (merged \/ MergesInto(outbox, e))
  BY DEF MarketMoves
<1>4. UNCHANGED <<writing, kind, rows, failures, crashes>>
  BY DEF MarketMoves, worker
<1> HIDE DEF d, e
<1>5. events \in Seq(Publication) /\ Len(events) = 1 /\ DOMAIN events = 1..1 /\ events[1] = d
  BY <1>1
<1> HIDE DEF events
<1>6. Publishes(log, events, log') /\ outbox' = PutAll(outbox, Len(log), events)
  BY <1>1, <1>3, <1>5 DEF Published, HasRoom, Publishes, RecordsInv
<1>7. /\ Len(log) \in Nat /\ Len(log) < MaxEvents
      /\ First(log', Len(log)) = log /\ First(log', Len(log) + 1) = log'
      /\ First(log', Len(log) + 1) = Append(First(log', Len(log) + 1 - 1), d)
  <2>1. /\ Len(log) \in Nat
        /\ First(log', Len(log)) = log /\ First(log', Len(log) + Len(events)) = log'
        /\ \A i \in DOMAIN events :
             First(log', Len(log) + i) = Append(First(log', Len(log) + i - 1), events[i])
    BY <1>6, LogPrefixes
  <2>2. Len(log) + Len(events) <= MaxEvents
    BY <1>6 DEF Publishes
  <2>3. QED
    BY <1>5, <2>1, <2>2, OutboxAssumption
<1>8. log' = Append(log, d)
  <2>1. Len(log) + 1 - 1 = Len(log)
    BY <1>7
  <2>2. QED
    BY <1>7, <2>1
<1>9. OneMore(log, d, log')
  BY <1>1, <1>7, <1>8 DEF OneMore, RecordsInv
<1>10. outbox' = PutNowait(outbox, e)
  <2>0. Len(events) \in Nat
    BY <1>5
  <2>5. \E put : PutRun(outbox, Len(log), events, put)
    BY <2>0, PutAllRun
  <2>1. PICK put : PutRun(outbox, Len(log), events, put)
    BY <2>5
  <2>2. put[0] = outbox /\ put[1] = Put(put[1 - 1], Len(log) + 1, events[1].typ)
        /\ outbox' = put[1]
    BY <1>5, <1>6, <2>1 DEF PutRun
  <2>3. 1 - 1 = 0
    OBVIOUS
  <2>4. QED
    BY <1>2, <1>5, <2>2, <2>3 DEF Put, e
<1> DEFINE c == Clean
           m == Clean /\ ~merged'
<1>11. /\ failures \in Nat /\ Sound(outbox, writing, 0, log, rows, failures)
       /\ Roomy(outbox, Len(writing), log) /\ Len(writing) \in Nat
       /\ \A j \in DOMAIN writing : writing[j].id \in DOMAIN log
  BY BatchInHand
<1>12. FollowAt(log, outbox, writing, kind, rows, listing, c, m)
  BY <1>3 DEF FollowInv, FollowAt
<1>13. m => MayFollow(outbox, e, d, listing, s)
  BY <1>2, <1>3 DEF Absent, MayFollow
<1>14. e = Event(Len(log) + 1, d.typ, Len(log) + 1)
  BY <1>2 DEF e
<1> HIDE DEF c, m
<1>18. PutsOne(log, d, log', rows, failures, Len(writing), writing, outbox, e, outbox')
  BY <1>9, <1>10, <1>11, <1>14 DEF PutsOne
<1>15. FollowAt(log', outbox', writing, kind, rows, s, c, m)
  BY <1>12, <1>13, <1>18, FollowPut
<1>16. Clean' <=> Clean
  BY <1>4 DEF Clean
<1>17. QED
  BY <1>3, <1>4, <1>15, <1>16 DEF FollowAt, FollowInv, c, m

LEMMA MarketStepFollows ==
  ASSUME RecordsInv, FollowInv,
         MarketDiscovered \/ MarketUpdated \/ MarketFilteredOut \/ MarketResolved
  PROVE  FollowInv'
<1>1. CASE MarketDiscovered
  BY <1>1, MarketMovesFollows DEF MarketDiscovered
<1>2. CASE MarketUpdated
  <2>1. /\ listing' = "eligible"
        /\ UNCHANGED <<log, outbox, writing, kind, rows, failures, crashes, merged>>
    BY <1>2 DEF MarketUpdated, worker, history
  <2>2. "eligible" # Absent
    BY DEF Absent
  <2>3. Clean' <=> Clean
    BY <2>1 DEF Clean
  <2>4. Clean /\ ~merged => MarketFollows(log, outbox, writing, kind, rows, "eligible")
    BY <2>2 DEF FollowInv, MarketFollows, Paused
  <2>5. QED
    BY <2>1, <2>3, <2>4 DEF FollowInv
<1>3. CASE MarketFilteredOut
  BY <1>3, MarketMovesFollows DEF MarketFilteredOut
<1>4. CASE MarketResolved
  BY <1>4, MarketMovesFollows DEF MarketResolved
<1>5. QED
  BY <1>1, <1>2, <1>3, <1>4

--------------------------------------------------------------------------------
(* The worker takes a batch. *)

\* What FollowAt says while the events are taken, which are put in order last.
MarketQueued(L, b, s, R, g) ==
  /\ Apart(s, b, L) /\ Paused(s, b, L, g)
  /\ Follows(L, ListingsOf(L), Wait(ListingsOf(L), b, s, 0, 2), R.market, Absent)

TakingAt(L, b, s, R, g, c, m) ==
  /\ InTurn(s, b, L)
  /\ c => AccountFollows(L, b, s, 0, R)
  /\ m => MarketQueued(L, b, s, R, g)

\* Events and entries of an outbox that is well formed.
LEMMA BoxFacts ==
  ASSUME NEW L, LogOK(L), NEW R, NEW f, NEW b, BoxSound(b, L, R, f)
  PROVE  /\ DOMAIN b.ready = 1..Len(b.ready) /\ Len(b.ready) \in Nat
         /\ \A j \in DOMAIN b.ready : b.ready[j].id \in DOMAIN L /\ InReady(b, b.ready[j].id)
         /\ \A i : InReady(b, i) => i \in DOMAIN L
         /\ \A i \in DOMAIN b.events :
              /\ i \in DOMAIN L /\ b.events[i].id = i /\ b.events[i].typ = L[i].typ
              /\ b.events[i].typ \in Types
              /\ IsCritical(b.events[i]) <=> IsCritical(L[i])
         /\ \A i \in DOMAIN b.retained :
              /\ i \in DOMAIN L /\ b.retained[i].id = i /\ b.retained[i].typ = L[i].typ
              /\ ~IsCritical(L[i])
         /\ \A i \in DOMAIN L : IsCritical(L[i]) => OnePlace(b, i)
         /\ \A i : Fresh(b, i) => PriorityOf[L[i].typ] = 0
<1>1. /\ BoxOK(b, TypesOf(L)) /\ CritBox(b, TypesOf(L))
      /\ \A i \in DOMAIN b.retained : ~IsCritical(b.retained[i])
  BY DEF BoxSound
<1>2. /\ ReadyOK(b, TypesOf(L)) /\ MapOK(b.events, TypesOf(L)) /\ MapOK(b.retained, TypesOf(L))
  BY <1>1 DEF BoxOK, Shape
<1>3. /\ DOMAIN TypesOf(L) = DOMAIN L
      /\ \A n \in DOMAIN L : TypesOf(L)[n] = L[n].typ /\ L[n].typ \in Types
  BY LogFacts
<1>4. /\ DOMAIN b.ready = 1..Len(b.ready) /\ Len(b.ready) \in Nat
      /\ \A j \in DOMAIN b.ready : b.ready[j].id \in DOMAIN L
      /\ \A i : InReady(b, i) => i \in DOMAIN L
  BY <1>2, <1>3, ReadyFacts
<1>5. \A j \in DOMAIN b.ready : InReady(b, b.ready[j].id)
  BY DEF InReady
<1>6. \A i \in DOMAIN b.events :
        /\ i \in DOMAIN L /\ b.events[i].id = i /\ b.events[i].typ = L[i].typ
        /\ b.events[i].typ \in Types
        /\ IsCritical(b.events[i]) <=> IsCritical(L[i])
  BY <1>2, <1>3 DEF MapOK, WellFormed, IsCritical
<1>7. \A i \in DOMAIN b.retained :
        /\ i \in DOMAIN L /\ b.retained[i].id = i /\ b.retained[i].typ = L[i].typ
        /\ ~IsCritical(L[i])
  BY <1>1, <1>2, <1>3 DEF MapOK, WellFormed, IsCritical
<1>8. \A i \in DOMAIN L : IsCritical(L[i]) => OnePlace(b, i)
  BY <1>1, <1>3 DEF CritBox, Critical, IsCritical
<1>9. \A i : Fresh(b, i) => PriorityOf[L[i].typ] = 0
  <2>1. SUFFICES ASSUME NEW i, Fresh(b, i)  PROVE PriorityOf[L[i].typ] = 0
    OBVIOUS
  <2>2. i \in DOMAIN L /\ L[i].typ \in Types /\ PriorityOf[L[i].typ] <= 1
    BY <1>3, <1>6, <2>1 DEF Fresh, IsCritical
  <2>3. QED
    BY <2>2, RecordPriorities
<1>10. QED
  BY <1>4, <1>5, <1>6, <1>7, <1>8, <1>9

\* The types of the account are critical.
LEMMA AccountCritical ==
  ASSUME NEW L, LogOK(L), NEW i \in DOMAIN L
  PROVE  /\ L[i].typ \in {"order", "fill", "position", "balance", "resolved"} => IsCritical(L[i])
         /\ L[i].typ \in {"discovered", "filtered_out"} => ~IsCritical(L[i])
<1>1. L[i].typ \in Types
  BY LogFacts
<1>2. QED
  BY <1>1, RecordPriorities DEF IsCritical

\* The promotion before.
LEMMA PromoteTaking ==
  ASSUME NEW L, LogOK(L), NEW R, NEW f, NEW b, BoxSound(b, L, R, f), NEW r, r = Promote(b),
         NEW g, NEW c, NEW m, FollowAt(L, b, <<>>, 0, R, g, c, m)
  PROVE  TakingAt(L, r, <<>>, R, g, c, m)
<1>1. Publications(TypesOf(L)) /\ Shape(b, TypesOf(L))
  BY LogFacts DEF BoxSound, BoxOK
<1>2. /\ r.events = b.events /\ r.index = b.index
      /\ Len(b.ready) \in Nat /\ Len(r.ready) \in Nat
      /\ \A j \in DOMAIN b.ready : j \in DOMAIN r.ready /\ r.ready[j] = b.ready[j]
      /\ \A j \in DOMAIN r.ready :
           \/ j \in DOMAIN b.ready
           \/ /\ r.ready[j].id \in DOMAIN b.retained
              /\ r.ready[j] = Entry(b.retained[r.ready[j].id])
      /\ DOMAIN r.retained \subseteq DOMAIN b.retained
  BY <1>1, PromoteIs
<1>3. /\ DOMAIN b.ready = 1..Len(b.ready)
      /\ \A j \in DOMAIN b.ready : b.ready[j].id \in DOMAIN L
      /\ \A i \in DOMAIN b.events : IsCritical(b.events[i]) <=> IsCritical(L[i])
      /\ \A i \in DOMAIN b.retained : b.retained[i].typ = L[i].typ /\ ~IsCritical(L[i])
  BY BoxFacts
<1>4. \A i : Fresh(r, i) <=> Fresh(b, i)
  BY <1>2 DEF Fresh
<1>5. \A j \in DOMAIN r.ready :
        \/ j \in DOMAIN b.ready /\ r.ready[j] = b.ready[j]
        \/ ~Fresh(r, r.ready[j].id) /\ ~IsCritical(L[r.ready[j].id])
  BY <1>2, <1>3 DEF Fresh
<1>6. InTurn(<<>>, b, L)
  BY DEF FollowAt
<1>7. InTurn(<<>>, r, L)
  <2>1. Turns(r.ready, r)
    BY <1>4, <1>5, <1>6 DEF InTurn, Turns
  <2>2. Turns(<<>>, r) /\ Ahead(<<>>, r)
    BY DEF Turns, Ahead
  <2>3. Priced(r, L)
    <3>1. SUFFICES ASSUME NEW j \in DOMAIN r.ready
                   PROVE  r.ready[j].prio = PriorityOf[L[r.ready[j].id].typ]
      BY DEF Priced
    <3>2. CASE j \in DOMAIN b.ready
      BY <1>2, <1>6, <3>2 DEF InTurn, Priced
    <3>3. CASE j \notin DOMAIN b.ready
      <4>1. \A e : Entry(e).prio = PriorityOf[e.typ]
        BY DEF Entry
      <4>2. r.ready[j].id \in DOMAIN b.retained /\ r.ready[j] = Entry(b.retained[r.ready[j].id])
        BY <1>2, <3>3
      <4>3. b.retained[r.ready[j].id].typ = L[r.ready[j].id].typ
        BY <1>3, <4>2
      <4>4. r.ready[j].prio = PriorityOf[b.retained[r.ready[j].id].typ]
        BY <4>1, <4>2
      <4>5. QED
        BY <4>3, <4>4
    <3>4. QED
      BY <3>2, <3>3
  <2>4. QED
    BY <2>1, <2>2, <2>3 DEF InTurn
<1>8. \A i \in DOMAIN L : IsCritical(L[i]) => (InReady(r, i) <=> InReady(b, i))
  BY <1>2, <1>5 DEF InReady
<1>9. ASSUME c  PROVE AccountFollows(L, r, <<>>, 0, R)
  <2>1. StillWaits(L, b, <<>>, 0, L, r, <<>>, 0)
    BY <1>8, AccountCritical DEF StillWaits, Waits
  <2>2. AccountFollows(L, b, <<>>, 0, R) /\ Extends(L, L)
    BY <1>9 DEF FollowAt, Extends
  <2>3. QED
    BY <2>1, <2>2, AccountKept
<1>10. ASSUME m  PROVE MarketQueued(L, r, <<>>, R, g)
  <2>1. /\ Apart(<<>>, b, L) /\ Paused(<<>>, b, L, g)
        /\ Follows(L, ListingsOf(L), Wait(ListingsOf(L), b, <<>>, 0, 2), R.market, Absent)
    BY <1>10 DEF FollowAt, MarketFollows
  <2>2. DOMAIN b.retained = {}
    BY <2>1 DEF Apart
  <2>3. DOMAIN r.ready = DOMAIN b.ready /\ \A j \in DOMAIN r.ready : r.ready[j] = b.ready[j]
    BY <1>2, <2>2
  <2>4. \A i : (InReady(r, i) <=> InReady(b, i)) /\ (Once(r, i) <=> Once(b, i))
    BY <2>3 DEF InReady, Once
  <2>5. Apart(<<>>, r, L)
    BY <1>2, <2>1, <2>2, <2>3, <2>4 DEF Apart
  <2>6. Paused(<<>>, r, L, g)
    BY <1>2, <2>1, <2>4 DEF Paused, Pausing
  <2>7. Follows(L, ListingsOf(L), Wait(ListingsOf(L), r, <<>>, 0, 2), R.market, Absent)
    <3>1. Wait(ListingsOf(L), r, <<>>, 0, 2) = Wait(ListingsOf(L), b, <<>>, 0, 2)
      BY <2>4 DEF Wait, Waits
    <3>2. QED
      BY <2>1, <3>1
  <2>8. QED
    BY <2>5, <2>6, <2>7 DEF MarketQueued
<1>11. QED
  BY <1>7, <1>9, <1>10 DEF TakingAt

\* An entry that is the first of its outbox b leaves, and its event, if it has one,
\* is the last of the batch t.
TakesOne(b, s, r, t, k) ==
  /\ k \in DOMAIN b.ready
  /\ \A j \in DOMAIN b.ready \ {k} :
       b.ready[k].prio < b.ready[j].prio \/ (b.ready[k].prio = b.ready[j].prio /\ k < j)
  /\ r.events = b.events /\ r.index = b.index /\ r.retained = b.retained
  /\ DOMAIN r.ready \subseteq Nat
  /\ \A j \in DOMAIN r.ready :
       /\ (IF j < k THEN j ELSE j + 1) \in DOMAIN b.ready \ {k}
       /\ r.ready[j] = b.ready[IF j < k THEN j ELSE j + 1]
  /\ \A i : i # b.ready[k].id => (InReady(r, i) <=> InReady(b, i))
  /\ DOMAIN s = 1..Len(s) /\ Len(s) \in Nat
  /\ IF b.ready[k].id \in DOMAIN b.events
     THEN /\ DOMAIN t = 1..(Len(s) + 1)
          /\ t[Len(s) + 1] = b.events[b.ready[k].id]
          /\ \A j \in DOMAIN s : t[j] = s[j]
     ELSE t = s

LEMMA TakesOneIs ==
  ASSUME NEW L, LogOK(L), NEW R, NEW f, NEW x, Taking(x, L, R, f), NEW y, y = Take(x), y # x
  PROVE  \E k : TakesOne(x.box, x.got, y.box, y.got, k)
<1> DEFINE p == TypesOf(L)
           b == x.box
           s == x.got
           k == FirstOut(b.ready)
           id == FirstReady(b)
           T == [prio : 0..3, id : DOMAIN p]
<1>1. /\ b.ready # <<>> /\ y.box = PopReady(b)
      /\ y.got = IF id \in DOMAIN b.events THEN Append(s, b.events[id]) ELSE s
  BY DEF Take
<1>2. /\ BoxOK(b, p) /\ ReadyOK(b, p) /\ MapOK(b.events, p) /\ s \in Seq(EventsOf(p))
      /\ b.ready \in Seq(T) /\ IsBox(b)
  BY DEF Taking, BoxSound, BoxOK, Shape, ReadyOK
<1>3. id = b.ready[k].id
  BY DEF FirstReady
<1> HIDE DEF b, s, id, k, p
<1> DEFINE r == PopReady(b)
<1>4. /\ k \in DOMAIN b.ready
      /\ \A j \in DOMAIN b.ready \ {k} :
           b.ready[k].prio < b.ready[j].prio \/ (b.ready[k].prio = b.ready[j].prio /\ k < j)
  <2>1. \A e \in T : e.prio \in 0..3
    OBVIOUS
  <2> HIDE DEF T
  <2>2. QED
    BY <1>1, <1>2, <2>1, FirstOutIn DEF k
<1>5. /\ r.ready = RemoveAt(b.ready, k)
      /\ r.events = b.events /\ r.index = b.index /\ r.retained = b.retained
  BY <1>2 DEF PopReady, IsBox, k
<1>6. \A i : i # id => (InReady(r, i) <=> InReady(b, i))
  BY <1>1, <1>2, PopFacts DEF id
<1>7. /\ RemoveAt(b.ready, k) \in Seq(T)
      /\ Len(RemoveAt(b.ready, k)) = Len(b.ready) - 1
      /\ \A j \in DOMAIN RemoveAt(b.ready, k) :
           RemoveAt(b.ready, k)[j] = b.ready[IF j < k THEN j ELSE j + 1]
  <2> HIDE DEF T, r
  <2>1. QED
    BY <1>2, <1>4, RemoveAtFacts
<1>8. DOMAIN b.ready = 1..Len(b.ready) /\ Len(b.ready) \in Nat
  BY <1>2, ReadyFacts
<1> HIDE DEF r
<1>9. /\ DOMAIN r.ready \subseteq Nat
      /\ \A j \in DOMAIN r.ready :
           /\ (IF j < k THEN j ELSE j + 1) \in DOMAIN b.ready \ {k}
           /\ r.ready[j] = b.ready[IF j < k THEN j ELSE j + 1]
  <2>1. DOMAIN r.ready = 1..(Len(b.ready) - 1)
    <3> HIDE DEF T
    <3>1. QED
      BY <1>5, <1>7, <1>8
  <2>2. QED
    BY <1>4, <1>5, <1>7, <1>8, <2>1
<1>10. DOMAIN s = 1..Len(s) /\ Len(s) \in Nat
  BY <1>2
<1>11. IF id \in DOMAIN b.events
       THEN /\ DOMAIN y.got = 1..(Len(s) + 1)
            /\ y.got[Len(s) + 1] = b.events[id]
            /\ \A j \in DOMAIN s : y.got[j] = s[j]
       ELSE y.got = s
  <2>1. CASE id \in DOMAIN b.events
    <3>1. b.events[id] \in EventsOf(p)
      BY <1>2, <2>1 DEF MapOK, WellFormed, EventsOf
    <3> DEFINE e == b.events[id]
               t == Append(s, e)
    <3>2. y.got = t
      BY <1>1, <2>1
    <3> HIDE DEF e
    <3>3. e \in EventsOf(p) /\ s \in Seq(EventsOf(p))
      BY <1>2, <3>1 DEF e
    <3>4. Len(t) = Len(s) + 1 /\ t[Len(s) + 1] = e /\ \A j \in 1..Len(s) : t[j] = s[j]
          /\ DOMAIN t = 1..(Len(s) + 1)
      BY <3>3
    <3>5. QED
      BY <1>10, <2>1, <3>2, <3>4 DEF e
  <2>2. QED
    BY <1>1, <2>1
<1>12. y.box = r
  BY <1>1 DEF r
<1>13. TakesOne(b, s, r, y.got, k)
  BY <1>3, <1>4, <1>5, <1>6, <1>9, <1>10, <1>11 DEF TakesOne
<1>14. QED
  BY <1>12, <1>13 DEF b, s

\* The events come in turn,
LEMMA TakesTurn ==
  ASSUME NEW L, LogOK(L), NEW R, NEW f, NEW b, BoxSound(b, L, R, f),
         NEW s, NEW r, NEW t, NEW k, TakesOne(b, s, r, t, k), InTurn(s, b, L)
  PROVE  InTurn(t, r, L)
<1> DEFINE id == b.ready[k].id
           at(j) == IF j < k THEN j ELSE j + 1
<1>1. /\ k \in DOMAIN b.ready
      /\ \A j \in DOMAIN b.ready \ {k} :
           b.ready[k].prio < b.ready[j].prio \/ (b.ready[k].prio = b.ready[j].prio /\ k < j)
      /\ \A j \in DOMAIN r.ready : at(j) \in DOMAIN b.ready \ {k} /\ r.ready[j] = b.ready[at(j)]
      /\ \A i : Fresh(r, i) <=> Fresh(b, i)
  BY DEF TakesOne, Fresh
<1>2. Turns(s, b) /\ Turns(b.ready, b) /\ Ahead(s, b) /\ Priced(b, L)
  BY DEF InTurn
<1>3. DOMAIN b.ready = 1..Len(b.ready) /\ Len(b.ready) \in Nat
      /\ \A i : Fresh(b, i) => PriorityOf[L[i].typ] = 0
  BY BoxFacts
<1>4. \A j \in DOMAIN t :
        \/ j \in DOMAIN s /\ t[j] = s[j]
        \/ /\ id \in DOMAIN b.events /\ t[j].id = id
           /\ \A i \in DOMAIN t : i <= j /\ (i < j => i \in DOMAIN s /\ t[i] = s[i])
  <2>1. CASE id \in DOMAIN b.events
    <3>1. b.events[id].id = id
      BY <2>1, BoxFacts
    <3>2. DOMAIN t = 1..(Len(s) + 1) /\ DOMAIN s = 1..Len(s) /\ Len(s) \in Nat
          /\ t[Len(s) + 1] = b.events[id] /\ \A j \in DOMAIN s : t[j] = s[j]
      BY <2>1 DEF TakesOne
    <3>3. QED
      BY <2>1, <3>1, <3>2
  <2>2. CASE id \notin DOMAIN b.events
    BY <2>2 DEF TakesOne
  <2>3. QED
    BY <2>1, <2>2
<1> HIDE DEF id
<1>5. \A j \in DOMAIN r.ready : j \in Nat
  BY DEF TakesOne
<1>6. Turns(t, r)
  <2>1. SUFFICES ASSUME NEW i \in DOMAIN t, NEW j \in DOMAIN t, i < j,
                        Fresh(b, t[i].id), Fresh(b, t[j].id)
                 PROVE  t[i].id < t[j].id
    BY <1>1 DEF Turns
  <2>2. CASE j \in DOMAIN s /\ t[j] = s[j] /\ i \in DOMAIN s /\ t[i] = s[i]
    BY <1>2, <2>1, <2>2 DEF Turns
  <2>3. CASE t[j].id = id /\ i \in DOMAIN s /\ t[i] = s[i]
    BY <1>1, <1>2, <2>1, <2>3 DEF Ahead, id
  <2>4. QED
    <3>1. DOMAIN s = 1..Len(s) /\ Len(s) \in Nat
      BY DEF TakesOne
    <3>2. i \in DOMAIN s /\ t[i] = s[i]
      <4>1. CASE j \in DOMAIN s /\ t[j] = s[j]
        <5>1. SUFFICES ASSUME ~(i \in DOMAIN s /\ t[i] = s[i])  PROVE FALSE
          OBVIOUS
        <5>2. j <= i
          BY <1>4, <5>1
        <5>3. i \in DOMAIN t /\ i <= i
          BY <1>4, <5>1
        <5>5. DOMAIN t \subseteq Int
          BY <3>1 DEF TakesOne
        <5>6. QED
          BY <2>1, <5>2, <5>5
      <4>2. CASE ~(j \in DOMAIN s /\ t[j] = s[j])
        BY <1>4, <2>1, <4>2
      <4>3. QED
        BY <4>1, <4>2
    <3>3. QED
      BY <1>4, <2>2, <2>3, <3>2
<1>7. Turns(r.ready, r)
  <2>1. SUFFICES ASSUME NEW i \in DOMAIN r.ready, NEW j \in DOMAIN r.ready, i < j,
                        Fresh(b, r.ready[i].id), Fresh(b, r.ready[j].id)
                 PROVE  r.ready[i].id < r.ready[j].id
    BY <1>1 DEF Turns
  <2>2. at(i) < at(j)
    BY <1>1, <1>3, <1>5, <2>1
  <2>3. at(i) \in DOMAIN b.ready /\ at(j) \in DOMAIN b.ready
        /\ r.ready[i] = b.ready[at(i)] /\ r.ready[j] = b.ready[at(j)]
    BY <1>1
  <2> HIDE DEF at
  <2>4. QED
    BY <1>2, <2>1, <2>2, <2>3 DEF Turns
<1>8. Ahead(t, r)
  <2>1. SUFFICES ASSUME NEW m \in DOMAIN t, NEW j \in DOMAIN r.ready,
                        Fresh(b, t[m].id), Fresh(b, r.ready[j].id)
                 PROVE  t[m].id < r.ready[j].id
    BY <1>1 DEF Ahead
  <2>2. at(j) \in DOMAIN b.ready \ {k} /\ r.ready[j] = b.ready[at(j)]
    BY <1>1
  <2> HIDE DEF at
  <2>3. CASE m \in DOMAIN s /\ t[m] = s[m]
    BY <1>2, <2>1, <2>2, <2>3 DEF Ahead
  <2>4. CASE t[m].id = id
    <3>1. b.ready[k].prio = 0 /\ b.ready[at(j)].prio = 0
      BY <1>1, <1>2, <1>3, <2>1, <2>2, <2>4 DEF Priced, id
    <3>2. k < at(j)
      BY <1>1, <2>2, <3>1
    <3>3. QED
      BY <1>1, <1>2, <2>1, <2>2, <2>4, <3>2 DEF Turns, id
  <2>5. QED
    BY <1>4, <2>3, <2>4
<1>9. Priced(r, L)
  <2>1. SUFFICES ASSUME NEW j \in DOMAIN r.ready
                 PROVE  r.ready[j].prio = PriorityOf[L[r.ready[j].id].typ]
    BY DEF Priced
  <2>2. at(j) \in DOMAIN b.ready /\ r.ready[j] = b.ready[at(j)]
    BY <1>1
  <2> HIDE DEF at
  <2>3. QED
    BY <1>2, <2>2 DEF Priced
<1>10. QED
  BY <1>6, <1>7, <1>8, <1>9 DEF InTurn

\* and what waited in the queue waits in the batch.
LEMMA TakesWaits ==
  ASSUME NEW L, LogOK(L), NEW R, NEW f, NEW b, BoxSound(b, L, R, f),
         NEW s, NEW r, NEW t, NEW k, TakesOne(b, s, r, t, k),
         NEW i, InReady(b, i) => i \in DOMAIN b.events
  PROVE  InReady(r, i) \/ InBatch(t, i) <=> InReady(b, i) \/ InBatch(s, i)
<1> DEFINE id == b.ready[k].id
<1>1. InReady(b, id) /\ \A n : n # id => (InReady(r, n) <=> InReady(b, n))
  BY DEF TakesOne, InReady
<1>2. \A j \in DOMAIN r.ready : \E n \in DOMAIN b.ready : r.ready[j] = b.ready[n]
  BY DEF TakesOne
<1>3. InReady(r, i) => InReady(b, i)
  BY <1>2 DEF InReady
<1>4. CASE id \in DOMAIN b.events
  <2>1. b.events[id].id = id
    BY <1>4, BoxFacts
  <2>2. DOMAIN t = 1..(Len(s) + 1) /\ DOMAIN s = 1..Len(s) /\ Len(s) \in Nat
        /\ t[Len(s) + 1] = b.events[id] /\ \A j \in DOMAIN s : t[j] = s[j]
    BY <1>4 DEF TakesOne
  <2> HIDE DEF id
  <2>3. InBatch(t, i) <=> InBatch(s, i) \/ i = id
    BY <2>1, <2>2 DEF InBatch
  <2>4. QED
    BY <1>1, <1>3, <2>3
<1>5. CASE id \notin DOMAIN b.events
  <2>1. t = s
    BY <1>5 DEF TakesOne
  <2> HIDE DEF id
  <2>2. InReady(b, i) => i # id
    BY <1>5
  <2>3. QED
    BY <1>1, <1>3, <2>1, <2>2
<1>6. QED
  BY <1>4, <1>5

\* One pass of the loop and the market.
LEMMA TakesMarket ==
  ASSUME NEW L, LogOK(L), NEW R, NEW f, NEW b, BoxSound(b, L, R, f), Priced(b, L),
         NEW s, NEW r, NEW t, NEW k, TakesOne(b, s, r, t, k),
         \A j \in DOMAIN s : IsCritical(s[j]) <=> IsCritical(L[s[j].id]),
         NEW g, MarketQueued(L, b, s, R, g)
  PROVE  MarketQueued(L, r, t, R, g)
<1> DEFINE id == b.ready[k].id
           at(j) == IF j < k THEN j ELSE j + 1
<1>1. /\ k \in DOMAIN b.ready
      /\ \A j \in DOMAIN b.ready \ {k} :
           b.ready[k].prio < b.ready[j].prio \/ (b.ready[k].prio = b.ready[j].prio /\ k < j)
      /\ \A j \in DOMAIN r.ready : at(j) \in DOMAIN b.ready \ {k} /\ r.ready[j] = b.ready[at(j)]
      /\ r.events = b.events /\ r.index = b.index /\ r.retained = b.retained
      /\ \A j \in DOMAIN r.ready : j \in Int
  BY DEF TakesOne
<1>2. Apart(s, b, L) /\ Paused(s, b, L, g)
      /\ Follows(L, ListingsOf(L), Wait(ListingsOf(L), b, s, 0, 2), R.market, Absent)
  BY DEF MarketQueued
<1>3. DOMAIN b.ready = 1..Len(b.ready) /\ Len(b.ready) \in Nat
      /\ (\A j \in DOMAIN b.ready : b.ready[j].id \in DOMAIN L)
      /\ \A i \in DOMAIN b.events :
           b.events[i].id = i /\ (IsCritical(b.events[i]) <=> IsCritical(L[i]))
  BY BoxFacts
<1>4. \A i : InReady(b, i) => i \in DOMAIN b.events
  <2>1. SUFFICES ASSUME NEW j \in DOMAIN b.ready  PROVE b.ready[j].id \in DOMAIN b.events
    BY DEF InReady
  <2>2. CASE IsCritical(L[b.ready[j].id])
    <3>1. OnePlace(b, b.ready[j].id) /\ InReady(b, b.ready[j].id)
      BY <2>2, BoxFacts
    <3>2. QED
      BY <3>1 DEF OnePlace
  <2>3. CASE ~IsCritical(L[b.ready[j].id])
    BY <1>2, <2>3 DEF Apart
  <2>4. QED
    BY <2>2, <2>3
<1>5. id \in DOMAIN b.events /\ b.events[id].id = id
  BY <1>1, <1>3, <1>4 DEF InReady
<1>6. /\ DOMAIN t = 1..(Len(s) + 1) /\ DOMAIN s = 1..Len(s) /\ Len(s) \in Nat
      /\ t[Len(s) + 1] = b.events[id] /\ \A j \in DOMAIN s : t[j] = s[j]
  BY <1>5 DEF TakesOne
<1> HIDE DEF id
<1>7. \A i : InBatch(t, i) <=> InBatch(s, i) \/ i = id
  BY <1>5, <1>6 DEF InBatch
<1>8. \A i : InReady(r, i) \/ InBatch(t, i) <=> InReady(b, i) \/ InBatch(s, i)
  BY <1>4, TakesWaits
<1>9. \A i, j \in DOMAIN r.ready : at(i) = at(j) => i = j
  BY <1>1, <1>3
<1> HIDE DEF at
<1>10. Apart(t, r, L)
  <2>1. ASSUME NEW j \in DOMAIN r.ready, ~IsCritical(L[r.ready[j].id])
        PROVE  /\ r.ready[j].id \in DOMAIN r.events
               /\ ~InBatch(t, r.ready[j].id)
               /\ Once(r, r.ready[j].id)
    <3>1. /\ at(j) \in DOMAIN b.ready /\ at(j) # k /\ r.ready[j] = b.ready[at(j)]
          /\ ~IsCritical(L[b.ready[at(j)].id])
      BY <1>1, <2>1
    <3>2. /\ r.ready[j].id \in DOMAIN b.events /\ ~InBatch(s, r.ready[j].id)
          /\ Once(b, r.ready[j].id)
      BY <1>2, <3>1 DEF Apart
    <3>3. r.ready[j].id # id
      BY <1>1, <3>1, <3>2 DEF Once, id
    <3>4. Once(r, r.ready[j].id)
      BY <1>1, <1>9, <3>2 DEF Once
    <3>5. QED
      BY <1>1, <1>7, <3>2, <3>3, <3>4
  <2>2. ASSUME NEW m \in DOMAIN t, ~IsCritical(t[m])
        PROVE  t[m].ver = t[m].id /\ \A n \in DOMAIN t : t[n].id = t[m].id => n = m
    <3>1. CASE m \in DOMAIN s
      <4>1. t[m] = s[m] /\ s[m].ver = s[m].id /\ \A n \in DOMAIN s : s[n].id = s[m].id => n = m
        BY <1>2, <1>6, <2>2, <3>1 DEF Apart
      <4>2. t[Len(s) + 1].id = s[m].id => FALSE
        <5>1. ASSUME s[m].id = id  PROVE FALSE
          <6>1. ~IsCritical(L[id])
            BY <2>2, <3>1, <4>1, <5>1
          <6>2. ~InBatch(s, id)
            BY <1>1, <1>2, <6>1 DEF Apart, id
          <6>3. QED
            BY <3>1, <5>1, <6>2 DEF InBatch
        <5>2. QED
          BY <1>5, <1>6, <5>1
      <4>3. QED
        BY <1>6, <4>1, <4>2
    <3>2. CASE m = Len(s) + 1
      <4>1. t[m] = b.events[id] /\ b.events[id].ver = id /\ ~IsCritical(L[id])
        BY <1>2, <1>3, <1>5, <1>6, <2>2, <3>2 DEF Apart
      <4>2. ~InBatch(s, id)
        BY <1>1, <1>2, <4>1 DEF Apart, id
      <4>3. QED
        BY <1>5, <1>6, <3>2, <4>1, <4>2 DEF InBatch
    <3>3. QED
      BY <1>6, <3>1, <3>2
  <2>3. QED
    BY <1>1, <1>2, <2>1, <2>2 DEF Apart
<1>11. Paused(t, r, L, g)
  <2>1. SUFFICES ASSUME NEW i \in DOMAIN L, Pausing(b, L, i)
                 PROVE  /\ g # Absent
                        /\ \A n \in Discovered(L) : n < i
                        /\ InBatch(t, i) => \A n \in Discovered(L) : ~InReady(r, n)
    BY <1>1 DEF Paused, Pausing
  <2>2. /\ g # Absent /\ \A n \in Discovered(L) : n < i
        /\ InBatch(s, i) => \A n \in Discovered(L) : ~InReady(b, n)
    BY <1>2, <2>1 DEF Paused
  <2>3. \A n : InReady(r, n) => InReady(b, n)
    BY <1>1 DEF InReady
  <2>4. ASSUME i = id, NEW n \in Discovered(L), InReady(r, n)
        PROVE  FALSE
    <3>1. PICK j \in DOMAIN r.ready : r.ready[j].id = n
      BY <2>4 DEF InReady
    <3>2. at(j) \in DOMAIN b.ready \ {k} /\ b.ready[at(j)].id = n
      BY <1>1, <3>1
    <3>3. b.ready[k].prio = PriorityOf["filtered_out"]
          /\ b.ready[at(j)].prio = PriorityOf["discovered"]
      BY <1>1, <2>1, <2>4, <3>2 DEF Priced, Pausing, Discovered, id
    <3>4. PriorityOf["filtered_out"] = 3 /\ PriorityOf["discovered"] = 2
      BY RecordsAssumption DEF RecordTypes, MarketTypes
    <3>5. QED
      BY <1>1, <3>2, <3>3, <3>4
  <2>5. QED
    BY <1>7, <2>2, <2>3, <2>4
<1>12. Follows(L, ListingsOf(L), Wait(ListingsOf(L), r, t, 0, 2), R.market, Absent)
  <2>1. Wait(ListingsOf(L), r, t, 0, 2) = Wait(ListingsOf(L), b, s, 0, 2)
    <3>1. 0 <= 2
      OBVIOUS
    <3>2. QED
      BY <1>8, <3>1 DEF Wait, Waits
  <2>2. QED
    BY <1>2, <2>1
<1>13. QED
  BY <1>10, <1>11, <1>12 DEF MarketQueued

\* One pass of the loop.
LEMMA TakeFollows ==
  ASSUME NEW L, LogOK(L), NEW R, NEW f, NEW x, Taking(x, L, R, f), NEW y, y = Take(x),
         NEW g, NEW c, NEW m, TakingAt(L, x.box, x.got, R, g, c, m)
  PROVE  TakingAt(L, y.box, y.got, R, g, c, m)
<1>1. CASE y = x
  BY <1>1
<1>2. CASE y # x
  <2>1. \E k : TakesOne(x.box, x.got, y.box, y.got, k)
    BY <1>2, TakesOneIs
  <2>2. PICK k : TakesOne(x.box, x.got, y.box, y.got, k)
    BY <2>1
  <2> DEFINE b == x.box
             s == x.got
             r == y.box
             t == y.got
  <2>3. /\ TakesOne(b, s, r, t, k) /\ BoxSound(b, L, R, f) /\ InHand(s, 0, b, L, R, f)
        /\ s \in Seq(EventsOf(TypesOf(L)))
        /\ InTurn(s, b, L)
        /\ c => AccountFollows(L, b, s, 0, R)
        /\ m => MarketQueued(L, b, s, R, g)
    BY <2>2 DEF Taking, TakingAt
  <2> HIDE DEF b, s, r, t
  <2>4. InTurn(t, r, L)
    BY <2>3, TakesTurn
  <2>5. ASSUME c  PROVE AccountFollows(L, r, t, 0, R)
    <3>1. \A i \in DOMAIN L : IsCritical(L[i]) => (InReady(b, i) => i \in DOMAIN b.events)
      <4>1. \A i \in DOMAIN L : IsCritical(L[i]) => OnePlace(b, i)
        BY <2>3, BoxFacts
      <4>2. QED
        BY <4>1 DEF OnePlace
    <3>2. \A i \in DOMAIN L : IsCritical(L[i]) =>
            (InReady(r, i) \/ InBatch(t, i) <=> InReady(b, i) \/ InBatch(s, i))
      BY <2>3, <3>1, TakesWaits
    <3>3. StillWaits(L, b, s, 0, L, r, t, 0)
      BY <3>2, AccountCritical DEF StillWaits, Waits
    <3>4. AccountFollows(L, b, s, 0, R) /\ Extends(L, L)
      BY <2>3, <2>5 DEF Extends
    <3>5. QED
      BY <3>3, <3>4, AccountKept
  <2>6. ASSUME m  PROVE MarketQueued(L, r, t, R, g)
    <3>1. \A j \in DOMAIN s : IsCritical(s[j]) <=> IsCritical(L[s[j].id])
      <4>1. \A j \in DOMAIN s : j > 0
        BY <2>3
      <4>2. \A j \in DOMAIN s : WellFormed(TypesOf(L), s[j])
        BY <2>3, <4>1 DEF InHand
      <4>3. DOMAIN TypesOf(L) = DOMAIN L /\ \A n \in DOMAIN L : TypesOf(L)[n] = L[n].typ
        BY LogFacts
      <4>4. QED
        BY <4>2, <4>3 DEF WellFormed, IsCritical
    <3>2. Priced(b, L) /\ MarketQueued(L, b, s, R, g)
      BY <2>3, <2>6 DEF InTurn
    <3>3. QED
      BY <2>3, <3>1, <3>2, TakesMarket
  <2>7. QED
    BY <2>4, <2>5, <2>6 DEF TakingAt, r, t
<1>3. QED
  BY <1>1, <1>2

\* The whole loop.
LEMMA TakenFollows ==
  ASSUME NEW L, LogOK(L), NEW R, NEW f, NEW b, BoxSound(b, L, R, f), Roomy(b, 0, L),
         NEW g, NEW c, NEW m, TakingAt(L, b, <<>>, R, g, c, m),
         NEW y, y = Taken(b)
  PROVE  Taking(y, L, R, f) /\ TakingAt(L, y.box, y.got, R, g, c, m)
<1> DEFINE n == Len(b.ready)
<1>1. n \in Nat
  BY ReadyFacts DEF BoxSound, BoxOK, Shape
<1>2. \E u : TakeRun(b, u)
  BY <1>1, TakenRun
<1>3. PICK u : TakeRun(b, u)
  BY <1>2
<1> DEFINE P(i) == Taking(u[i], L, R, f) /\ TakingAt(L, u[i].box, u[i].got, R, g, c, m)
           B == {i \in 0..n : ~P(i)}
<1>4. P(0)
  <2>1. u[0].box = b /\ u[0].got = <<>>
    BY <1>3 DEF TakeRun, Untaken
  <2>2. u[0].got \in Seq(EventsOf(TypesOf(L))) /\ DOMAIN u[0].got = {} /\ Len(u[0].got) = 0
    BY <2>1
  <2>3. Taking(u[0], L, R, f)
    BY <2>1, <2>2 DEF Taking, InHand
  <2>4. QED
    BY <2>1, <2>3
<1>5. ASSUME NEW i \in 1..n, P(i - 1)
      PROVE  P(i)
  <2>1. u[i] = Take(u[i - 1])
    BY <1>3 DEF TakeRun
  <2>2. Taking(u[i], L, R, f)
    BY <1>5, <2>1, TakeSound
  <2>3. TakingAt(L, u[i].box, u[i].got, R, g, c, m)
    BY <1>5, <2>1, TakeFollows
  <2>4. QED
    BY <2>2, <2>3
<1>6. P(n)
  <2>1. B \subseteq 0..n /\ 0 \notin B
    BY <1>1, <1>4
  <2>2. ASSUME NEW i \in 1..n, i \in B  PROVE i - 1 \in B
    <3>1. i - 1 \in 0..n
      BY <1>1
    <3>2. QED
      BY <1>5, <2>2, <3>1
  <2>3. n \in 0..n
    BY <1>1
  <2>4. \A i \in 1..n : i \in B => i - 1 \in B
    BY <2>2
  <2> HIDE DEF B
  <2>5. B = {}
    BY <1>1, <2>1, <2>4, Walk
  <2>6. QED
    BY <2>3, <2>5 DEF B
<1>7. y = u[n]
  BY <1>3 DEF TakeRun
<1>8. QED
  BY <1>6, <1>7

\* The batch w written of the events s taken.
Coalesces(L, s, w) ==
  /\ \A n \in DOMAIN w : \E j \in DOMAIN s : w[n] = s[j]
  /\ \A m, n \in DOMAIN w : w[m].id = w[n].id => m = n
  /\ \A j \in DOMAIN s : IsCritical(s[j]) => \E n \in DOMAIN w : w[n] = s[j]
  /\ \A m, n \in DOMAIN w : m < n /\ IsCritical(w[m]) /\ IsCritical(w[n]) =>
       \E i, j \in DOMAIN s : i < j /\ w[m] = s[i] /\ w[n] = s[j]
  /\ OldFirst(w)
  /\ \A j \in DOMAIN s : (\A i \in DOMAIN s : i # j => s[i].typ # s[j].typ) =>
       \E n \in DOMAIN w : w[n] = s[j]

\* The events of s are pending in the outbox b, and of the log L.
OnLoan(L, b, s) ==
  \A j \in DOMAIN s :
    /\ s[j].id \in DOMAIN L /\ s[j].id \in DOMAIN b.events
    /\ s[j].typ = L[s[j].id].typ /\ b.events[s[j].id].typ = s[j].typ
    /\ b.events[s[j].id].retry = s[j].retry
    /\ IsCritical(s[j]) => s[j].ver = s[j].id

LEMMA OnLoanIs ==
  ASSUME NEW L, LogOK(L), NEW R, NEW f, NEW b, BoxSound(b, L, R, f), NEW s,
         s \in Seq(EventsOf(TypesOf(L))), InHand(s, 0, b, L, R, f)
  PROVE  OnLoan(L, b, s) /\ \A j \in DOMAIN s : IsCritical(s[j]) <=> IsCritical(L[s[j].id])
<1>1. \A j \in DOMAIN s : j > 0
  OBVIOUS
<1>2. \A j \in DOMAIN s : /\ WellFormed(TypesOf(L), s[j]) /\ EventOK(L, R, f, s[j])
                          /\ s[j].id \in DOMAIN b.events
                          /\ b.events[s[j].id].retry = s[j].retry
  BY <1>1 DEF InHand
<1>3. DOMAIN TypesOf(L) = DOMAIN L /\ \A n \in DOMAIN L : TypesOf(L)[n] = L[n].typ
  BY LogFacts
<1>4. \A i \in DOMAIN b.events : b.events[i].typ = L[i].typ
  BY BoxFacts
<1>5. \A j \in DOMAIN s : s[j].id \in DOMAIN L /\ s[j].typ = L[s[j].id].typ
  BY <1>2, <1>3 DEF WellFormed
<1>6. \A j \in DOMAIN s : IsCritical(s[j]) => s[j].ver = s[j].id
  BY <1>2 DEF EventOK, Carries
<1>7. QED
  BY <1>2, <1>4, <1>5, <1>6 DEF OnLoan, IsCritical

LEMMA CoalescesIs ==
  ASSUME NEW L, LogOK(L), NEW R, NEW f, NEW y, Taking(y, L, R, f), NEW w, w = Coalesce(y.got)
  PROVE  Coalesces(L, y.got, w) /\ OnLoan(L, y.box, y.got)
<1> DEFINE s == y.got
           p == TypesOf(L)
<1>1. /\ BoxSound(y.box, L, R, f) /\ s \in Seq(EventsOf(p)) /\ InHand(s, 0, y.box, L, R, f)
      /\ \A j, k \in DOMAIN s : IsCritical(s[j]) /\ s[j].id = s[k].id => j = k
      /\ Publications(p)
  BY LogFacts DEF Taking
<1> HIDE DEF s, p
<1>2. DOMAIN s \subseteq Int /\ \A j \in DOMAIN s : j > 0
  BY <1>1
<1>3. \A j \in DOMAIN s : WellFormed(p, s[j])
  BY <1>1, <1>2 DEF InHand, p
<1>4. \A j \in DOMAIN s : IsCritical(s[j]) <=> Critical(p, s[j].id)
  BY <1>3 DEF WellFormed, IsCritical, Critical
<1>5. /\ \A n \in DOMAIN w : \E j \in DOMAIN s : w[n] = s[j]
      /\ \A m, n \in DOMAIN w : w[m].id = w[n].id => m = n
      /\ \A j \in DOMAIN s : Critical(p, s[j].id) => \E n \in DOMAIN w : w[n] = s[j]
      /\ \A m, n \in DOMAIN w : m < n /\ Critical(p, w[m].id) /\ Critical(p, w[n].id) =>
           \E i, j \in DOMAIN s : i < j /\ w[m] = s[i] /\ w[n] = s[j]
      /\ \A m, n \in DOMAIN w :
           m < n /\ ~Critical(p, w[m].id) /\ ~Critical(p, w[n].id) => w[m].id < w[n].id
      /\ \A j \in DOMAIN s : (\A i \in DOMAIN s : i > j => s[i].typ # s[j].typ) =>
           \E n \in DOMAIN w : w[n] = s[j]
  <2>1. \A j, k \in DOMAIN s : Critical(p, s[j].id) /\ s[j].id = s[k].id => j = k
    BY <1>1, <1>4
  <2>2. s \in Seq(EventsOf(p)) /\ w = Coalesce(s) /\ Publications(p)
    BY <1>1 DEF s
  <2>3. QED
    BY <1>3, <2>1, <2>2, CoalesceFacts
<1>6. \A n \in DOMAIN w : IsCritical(w[n]) <=> Critical(p, w[n].id)
  BY <1>4, <1>5
<1>7. \A j \in DOMAIN s : (\A i \in DOMAIN s : i # j => s[i].typ # s[j].typ) =>
        \E n \in DOMAIN w : w[n] = s[j]
  BY <1>2, <1>5
<1>8. OldFirst(w)
  BY <1>5, <1>6 DEF OldFirst
<1>9. Coalesces(L, s, w)
  BY <1>4, <1>5, <1>6, <1>7, <1>8 DEF Coalesces
<1>10. OnLoan(L, y.box, s)
  BY <1>1, OnLoanIs DEF p
<1>11. QED
  BY <1>9, <1>10 DEF s

\* No record of the batch is written yet when the kind k is next.
Unwritten(L, w, k) ==
  \A n \in DOMAIN w :
    /\ w[n].typ = "order" => k <= 3
    /\ w[n].typ = "fill" => k <= 4
    /\ w[n].typ = "position" => k <= 5
    /\ w[n].typ \in MarketTypes /\ L[w[n].ver].value # Absent => k <= 2

\* The batch is put in order.
LEMMA CoalesceFollows ==
  ASSUME NEW L, LogOK(L), NEW R, NEW f, NEW b, BoxSound(b, L, R, f),
         NEW s, NEW w, Coalesces(L, s, w), OnLoan(L, b, s),
         NEW g, NEW c, NEW m, TakingAt(L, b, s, R, g, c, m),
         NEW k, Unwritten(L, w, k)
  PROVE  FollowAt(L, b, w, k, R, g, c, m)
<1>1. /\ \A n \in DOMAIN w : \E j \in DOMAIN s : w[n] = s[j]
      /\ \A i, j \in DOMAIN w : w[i].id = w[j].id => i = j
      /\ \A j \in DOMAIN s : IsCritical(s[j]) => \E n \in DOMAIN w : w[n] = s[j]
      /\ \A i, n \in DOMAIN w : i < n /\ IsCritical(w[i]) /\ IsCritical(w[n]) =>
           \E h, j \in DOMAIN s : h < j /\ w[i] = s[h] /\ w[n] = s[j]
      /\ OldFirst(w)
  BY DEF Coalesces
<1>2. /\ Turns(s, b) /\ Turns(b.ready, b) /\ Ahead(s, b) /\ Priced(b, L)
  BY DEF TakingAt, InTurn
<1>3. \A j \in DOMAIN s : IsCritical(s[j]) <=> IsCritical(L[s[j].id])
  BY DEF OnLoan, IsCritical
<1>4. InTurn(w, b, L)
  <2>1. \A i \in DOMAIN b.events : IsCritical(b.events[i]) <=> IsCritical(L[i])
    BY BoxFacts
  <2>2. \A n \in DOMAIN w : Fresh(b, w[n].id) => IsCritical(w[n])
    BY <1>1, <1>3, <2>1 DEF Fresh
  <2>3. Turns(w, b)
    <3>1. SUFFICES ASSUME NEW i \in DOMAIN w, NEW n \in DOMAIN w, i < n,
                          Fresh(b, w[i].id), Fresh(b, w[n].id)
                   PROVE  w[i].id < w[n].id
      BY DEF Turns
    <3>2. PICK h \in DOMAIN s, j \in DOMAIN s : h < j /\ w[i] = s[h] /\ w[n] = s[j]
      BY <1>1, <2>2, <3>1
    <3>3. QED
      BY <1>2, <3>1, <3>2 DEF Turns
  <2>4. Ahead(w, b)
    BY <1>1, <1>2 DEF Ahead
  <2>5. QED
    BY <1>2, <2>3, <2>4 DEF InTurn
<1>5. \A i : InBatch(w, i) => InBatch(s, i)
  BY <1>1 DEF InBatch
<1>6. ASSUME c  PROVE AccountFollows(L, b, w, k, R)
  <2>1. \A i \in DOMAIN L : IsCritical(L[i]) => (InBatch(w, i) <=> InBatch(s, i))
    BY <1>1, <1>3, <1>5 DEF InBatch
  <2>2. ASSUME NEW i \in DOMAIN L, InBatch(w, i)
        PROVE  /\ L[i].typ = "fill" => k <= 4
               /\ L[i].typ = "position" => k <= 5
               /\ L[i].typ = "order" => k <= 3
    <3>1. PICK n \in DOMAIN w : w[n].id = i
      BY <2>2 DEF InBatch
    <3>2. w[n].typ = L[i].typ
      BY <1>1, <3>1 DEF OnLoan
    <3>3. QED
      BY <3>2 DEF Unwritten
  <2>3. StillWaits(L, b, s, 0, L, b, w, k)
    BY <2>1, <2>2, AccountCritical DEF StillWaits, Waits
  <2>4. AccountFollows(L, b, s, 0, R) /\ Extends(L, L)
    BY <1>6 DEF TakingAt, Extends
  <2>5. QED
    BY <2>3, <2>4, AccountKept
<1>7. ASSUME m  PROVE MarketFollows(L, b, w, k, R, g)
  <2>1. /\ Apart(s, b, L) /\ Paused(s, b, L, g)
        /\ Follows(L, ListingsOf(L), Wait(ListingsOf(L), b, s, 0, 2), R.market, Absent)
    BY <1>7 DEF TakingAt, MarketQueued
  <2>2. Apart(w, b, L)
    <3>1. \A n \in DOMAIN w : ~IsCritical(w[n]) => w[n].ver = w[n].id
      BY <1>1, <2>1 DEF Apart
    <3>2. QED
      BY <1>1, <1>5, <2>1, <3>1 DEF Apart
  <2>3. Paused(w, b, L, g)
    BY <1>5, <2>1 DEF Paused
  <2>4. ASSUME NEW j \in DOMAIN s  PROVE \E n \in DOMAIN w : w[n] = s[j]
    <3>1. CASE IsCritical(s[j])
      BY <1>1, <3>1
    <3>2. CASE ~IsCritical(s[j])
      <4>1. SUFFICES ASSUME NEW i \in DOMAIN s, i # j, s[i].typ = s[j].typ  PROVE FALSE
        BY DEF Coalesces
      <4>2. ~IsCritical(s[i]) /\ ~IsCritical(b.events[s[i].id]) /\ ~IsCritical(b.events[s[j].id])
            /\ b.events[s[i].id].typ = b.events[s[j].id].typ
            /\ s[i].id \in DOMAIN b.events /\ s[j].id \in DOMAIN b.events
        BY <3>2, <4>1 DEF IsCritical, OnLoan
      <4>3. s[i].id = s[j].id
        BY <2>1, <4>2 DEF Apart
      <4>4. QED
        BY <2>1, <3>2, <4>1, <4>3 DEF Apart
    <3>3. QED
      BY <3>1, <3>2
  <2>5. \A i : InBatch(w, i) <=> InBatch(s, i)
    BY <1>5, <2>4 DEF InBatch
  <2>6. ASSUME NEW i \in ListingsOf(L), InBatch(w, i)  PROVE k <= 2
    <3>1. PICK n \in DOMAIN w : w[n].id = i
      BY <2>6 DEF InBatch
    <3>2. PICK j \in DOMAIN s : w[n] = s[j]
      BY <1>1
    <3>3. s[j].ver = i /\ s[j].typ = L[i].typ
      BY <2>1, <3>1, <3>2 DEF OnLoan, Apart
    <3>4. w[n].typ \in MarketTypes /\ L[w[n].ver].value # Absent
      BY <2>6, <3>2, <3>3 DEF ListingsOf
    <3>5. QED
      BY <3>4 DEF Unwritten
  <2>7. ListingWaits(L, b, s, 0, L, b, w, k)
    <3>1. 0 <= 2
      OBVIOUS
    <3>2. QED
      BY <2>5, <2>6, <3>1 DEF ListingWaits, Waits
  <2>8. Extends(L, L)
    BY DEF Extends
  <2>9. Follows(L, ListingsOf(L), Wait(ListingsOf(L), b, w, k, 2), R.market, Absent)
    BY <2>1, <2>7, <2>8, ListingKept
  <2>10. QED
    BY <1>1, <2>2, <2>3, <2>9 DEF MarketFollows
<1>8. QED
  BY <1>4, <1>6, <1>7 DEF FollowAt

LEMMA KindWaits ==
  ASSUME NEW w, NEW k \in 0..6, NEW n, n = NextKind(w, k),
         NEW l \in 1..6, k < l, NEW i \in DOMAIN w, KindOrder[l] \in KindsOf(w[i])
  PROVE  n <= l
<1>1. n \in 1..7 /\ \A h \in 1..6 : k < h /\ h < n => \A j \in DOMAIN w : KindOrder[h] \notin KindsOf(w[j])
  BY NextKindIs
<1>2. QED
  BY <1>1

LEMMA NothingWritten ==
  ASSUME NEW w, \A n \in DOMAIN w : w[n].typ \in Types
  PROVE  Unwritten(log, w, NextKind(w, 0))
<1> DEFINE k == NextKind(w, 0)
<1>1. \A n \in DOMAIN w, l \in 1..6 : KindOrder[l] \in KindsOf(w[n]) => k <= l
  <2>1. SUFFICES ASSUME NEW n \in DOMAIN w, NEW l \in 1..6, KindOrder[l] \in KindsOf(w[n])
                 PROVE  k <= l
    OBVIOUS
  <2>2. 0 \in 0..6 /\ 0 < l
    OBVIOUS
  <2>3. QED
    BY <2>1, <2>2, KindWaits
<1> HIDE DEF k
<1>2. SUFFICES ASSUME NEW n \in DOMAIN w
               PROVE  /\ w[n].typ = "order" => k <= 3
                      /\ w[n].typ = "fill" => k <= 4
                      /\ w[n].typ = "position" => k <= 5
                      /\ w[n].typ \in MarketTypes /\ log[w[n].ver].value # Absent => k <= 2
  BY DEF Unwritten, k
<1>3. /\ "order" \in KindsOf(w[n]) <=> w[n].typ = "order"
      /\ "fill" \in KindsOf(w[n]) <=> w[n].typ = "fill"
      /\ "position" \in KindsOf(w[n]) <=> w[n].typ = "position"
      /\ "market" \in KindsOf(w[n]) <=> w[n].typ \in MarketTypes /\ log[w[n].ver].value # Absent
  BY KindsAre
<1>4. 2 \in 1..6 /\ 3 \in 1..6 /\ 4 \in 1..6 /\ 5 \in 1..6
  OBVIOUS
<1>5. QED
  BY <1>1, <1>3, <1>4, KindOrderIs

\* The worker takes a batch.
LEMMA TakeBatchFollows ==
  ASSUME RecordsInv, FollowInv, TakeBatch
  PROVE  FollowInv'
<1> DEFINE c == Promote(outbox)
           y == Taken(c)
           w == Coalesce(y.got)
           q == Clean /\ ~merged
<1>1. /\ UNCHANGED <<listing, log, rows, failures, crashes, merged>>
      /\ kind = 0 /\ outbox' = y.box /\ writing' = w /\ kind' = NextKind(w, 0)
  BY DEF TakeBatch, exchange, history
<1>2. /\ LogOK(log) /\ BoxSound(outbox, log, rows, failures)
      /\ writing = <<>> /\ Roomy(outbox, 0, log) /\ Sound(outbox, <<>>, 0, log, rows, failures)
  <2>1. /\ LogOK(log) /\ BoxSound(outbox, log, rows, failures)
        /\ writing = <<>> /\ Roomy(outbox, Len(writing), log)
        /\ InHand(writing, 0, outbox, log, rows, failures)
    BY <1>1 DEF RecordsInv, WritingOK
  <2>2. Len(<<>>) = 0
    OBVIOUS
  <2>3. QED
    BY <2>1, <2>2 DEF Sound
<1>3. FollowAt(log, outbox, <<>>, 0, rows, listing, Clean, q)
  <2>1. FollowAt(log, outbox, writing, kind, rows, listing, Clean, q)
    BY FollowInvIs
  <2>2. QED
    BY <1>1, <1>2, <2>1
<1> HIDE DEF c, y, w, q
<1>4. Sound(c, <<>>, 0, log, rows, failures) /\ Roomy(c, 0, log)
  <2>1. 0 \in Nat
    OBVIOUS
  <2>2. QED
    BY <1>2, <2>1, PromoteSound DEF c
<1>5. TakingAt(log, c, <<>>, rows, listing, Clean, q)
  BY <1>2, <1>3, PromoteTaking DEF c
<1>6. Taking(y, log, rows, failures) /\ TakingAt(log, y.box, y.got, rows, listing, Clean, q)
  <2>1. BoxSound(c, log, rows, failures)
    BY <1>4 DEF Sound
  <2>2. QED
    BY <1>2, <1>4, <1>5, <2>1, TakenFollows DEF y
<1>7. Coalesces(log, y.got, w) /\ OnLoan(log, y.box, y.got)
  BY <1>2, <1>6, CoalescesIs DEF w
<1>8. \A n \in DOMAIN w : w[n].typ \in Types
  <2>1. \A j \in DOMAIN y.got : y.got[j].typ \in Types
    <3>1. \A n \in DOMAIN log : log[n].typ \in Types
      BY <1>2, LogFacts
    <3>2. QED
      BY <1>7, <3>1 DEF OnLoan
  <2>2. QED
    BY <1>7, <2>1 DEF Coalesces
<1>9. Unwritten(log, w, NextKind(w, 0))
  BY <1>8, NothingWritten
<1>10. BoxSound(y.box, log, rows, failures)
  BY <1>6 DEF Taking
<1>11. FollowAt(log, y.box, w, NextKind(w, 0), rows, listing, Clean, q)
  BY <1>2, <1>6, <1>7, <1>9, <1>10, CoalesceFollows
<1>12. Clean' = Clean /\ (Clean /\ ~merged)' = q
  BY <1>1 DEF Clean, q
<1>13. QED
  <2>1. FollowAt(log', outbox', writing', kind', rows', listing', Clean', (Clean /\ ~merged)')
    BY <1>1, <1>11, <1>12
  <2>2. QED
    BY <2>1 DEF FollowInv, FollowAt

--------------------------------------------------------------------------------
(* The worker writes the records of one kind. *)

\* The events of S in the batch s, at its places A, have their records written in a
\* table: the row has the value of the last of them.
LEMMA BatchWritten ==
  ASSUME NEW L, NEW S, S \subseteq Int, NEW b, NEW s, NEW l \in Int, NEW h \in Int, l < h,
         NEW v, NEW none, Follows(L, S, Wait(S, b, s, l, l), v, none),
         NEW A, A = {j \in DOMAIN s : s[j].id \in S}, DOMAIN s \subseteq Int,
         \A i, j \in A : i < j => s[i].id < s[j].id,
         \A i \in A, n \in S : InReady(b, n) => s[i].id < n,
         NEW w,
         A = {} => w = v,
         A # {} => \E j \in A : w = L[s[j].id].value /\ \A i \in A : i <= j
  PROVE  Follows(L, S, Wait(S, b, s, h, l), w, none)
<1> DEFINE W == Wait(S, b, s, l, l)
           V == Wait(S, b, s, h, l)
<1>1. W = {n \in S : InReady(b, n) \/ \E j \in A : s[j].id = n}
  BY DEF Wait, Waits, InBatch
<1>2. V = {n \in S : InReady(b, n)}
  BY DEF Wait, Waits
<1>3. Follows(L, S, W, v, none)
  OBVIOUS
<1> HIDE DEF W, V
<1>4. CASE A = {}
  <2>1. V = W
    BY <1>1, <1>2, <1>4
  <2>2. QED
    BY <1>3, <1>4, <2>1 DEF V
<1>5. CASE A # {}
  <2>1. PICK j \in A : w = L[s[j].id].value /\ \A i \in A : i <= j
    BY <1>5
  <2> DEFINE x == s[j].id
  <2>2. \A m \in W \ V : \E i \in A : s[i].id = m
    BY <1>1, <1>2
  <2>3. V \subseteq W /\ W \subseteq S
    BY <1>1, <1>2
  <2>4. x \in W \ V
    <3>1. x \in S /\ x \in Int
      OBVIOUS
    <3>2. InReady(b, x) => x < x
      BY <3>1
    <3>3. ~InReady(b, x)
      BY <3>1, <3>2
    <3>4. QED
      BY <1>1, <1>2, <3>1, <3>3
  <2>5. \A m \in W \ V : m <= x
    <3>1. SUFFICES ASSUME NEW m \in W \ V  PROVE m <= x
      OBVIOUS
    <3>2. PICK i \in A : s[i].id = m
      BY <2>2
    <3>3. i = j \/ i < j
      BY <2>1
    <3>4. s[j].id \in Int /\ s[i].id \in Int
      OBVIOUS
    <3>5. i < j => s[i].id < s[j].id
      OBVIOUS
    <3>6. s[i].id <= s[j].id
      BY <3>3, <3>4, <3>5
    <3>7. QED
      BY <3>2, <3>6
  <2>6. \A m \in W \ V, n \in V : m < n
    BY <1>2, <2>2
  <2>7. w = L[x].value
    BY <2>1
  <2> HIDE DEF x
  <2>8. Follows(L, S, V, w, none)
    BY <1>3, <2>3, <2>4, <2>5, <2>6, <2>7, FollowsWritten
  <2>9. QED
    BY <2>8 DEF V
<1>6. QED
  BY <1>4, <1>5

\* The same for events that all are fresh.
LEMMA FreshWritten ==
  ASSUME NEW L, NEW S, S \subseteq Int, NEW b, NEW s, InTurn(s, b, L),
         \A n \in S : InReady(b, n) \/ InBatch(s, n) => Fresh(b, n),
         NEW l \in Int, NEW h \in Int, l < h,
         NEW v, NEW none, Follows(L, S, Wait(S, b, s, l, l), v, none),
         NEW A, A = {j \in DOMAIN s : s[j].id \in S}, DOMAIN s \subseteq Int,
         NEW w,
         A = {} => w = v,
         A # {} => \E j \in A : w = L[s[j].id].value /\ \A i \in A : i <= j
  PROVE  Follows(L, S, Wait(S, b, s, h, l), w, none)
<1>1. \A i \in A : Fresh(b, s[i].id)
  BY DEF InBatch
<1>2. \A i, j \in A : i < j => s[i].id < s[j].id
  BY <1>1 DEF InTurn, Turns
<1>3. \A i \in A, n \in S : InReady(b, n) => s[i].id < n
  BY <1>1 DEF InTurn, Ahead, InReady
<1>4. QED
  BY <1>2, <1>3, BatchWritten

\* A clean write: the database refuses nothing by itself.
LEMMA CleanWrite ==
  ASSUME RecordsInv, WriteKind, Clean'
  PROVE  /\ Clean /\ failures = 0 /\ kind \in 1..6 /\ kind' = NextKind(writing, kind)
         /\ kind' \in Int /\ kind < kind'
         /\ rows'.order = IF kind = 3 THEN SaveOrders({}) ELSE rows.order
         /\ rows'.fill = IF kind = 4 THEN SaveFills({}) ELSE rows.fill
         /\ rows'.position = IF kind = 5 THEN SavePositions({}) ELSE rows.position
         /\ rows'.market = IF kind = 2 THEN SaveMarkets({}) ELSE rows.market
<1> DEFINE k == KindOrder[kind]
<1>1. PICK F \in SUBSET Items(k) :
        /\ failures' = failures + Cardinality(F)
        /\ rows' = [rows EXCEPT ![k] = Saved(k, F)]
  BY DEF WriteKind
<1>2. kind \in 1..6 /\ kind' = NextKind(writing, kind) /\ crashes' = crashes
  BY KindOrderIs DEF WriteKind
<1>3. failures \in Nat /\ crashes \in Nat /\ failures' = 0 /\ crashes' = 0
      /\ writing \in Seq(EventsOf(TypesOf(log))) /\ rows \in Tables
  BY DEF RecordsInv, StoreOK, WritingOK, Clean
<1>4. F = {} /\ failures = 0
  <2>1. F \subseteq 1..Len(writing) /\ Len(writing) \in Nat
    BY <1>1, <1>3 DEF Items
  <2>2. IsFiniteSet(F)
    <3>1. 1 \in Int /\ Len(writing) \in Int
      BY <2>1
    <3>2. IsFiniteSet(1..Len(writing))
      BY <3>1, FS_Interval
    <3>3. QED
      BY <2>1, <3>2, FS_Subset
  <2>3. Cardinality(F) \in Nat /\ (Cardinality(F) = 0 <=> F = {})
    BY <2>2, FS_CardinalityType, FS_EmptySet
  <2>4. QED
    BY <1>1, <1>3, <2>3
<1>5. kind' \in 1..7 /\ kind' > kind
  <2>1. kind \in 0..6
    BY <1>2
  <2>2. QED
    BY <1>2, <2>1, NextKindIs
<1>6. DOMAIN rows = {"order", "fill", "position", "market", "audit", "outbox"}
  BY <1>3 DEF Tables
<1>7. rows' = [rows EXCEPT ![k] = Saved(k, {})]
  BY <1>1, <1>4
<1> HIDE DEF k
<1>8. \A h \in {"order", "fill", "position", "market"} :
        rows'[h] = IF k = h THEN Saved(h, {}) ELSE rows[h]
  BY <1>6, <1>7
<1>9. /\ kind = 2 <=> k = "market"
      /\ kind = 3 <=> k = "order"
      /\ kind = 4 <=> k = "fill"
      /\ kind = 5 <=> k = "position"
  <2>1. 2 \in 1..6 /\ 3 \in 1..6 /\ 4 \in 1..6 /\ 5 \in 1..6
    OBVIOUS
  <2>2. QED
    BY <1>2, <2>1, KindOrderIs DEF k
<1>10. rows'.order = (IF k = "order" THEN Saved("order", {}) ELSE rows.order)
       /\ rows'.fill = (IF k = "fill" THEN Saved("fill", {}) ELSE rows.fill)
       /\ rows'.position = (IF k = "position" THEN Saved("position", {}) ELSE rows.position)
       /\ rows'.market = (IF k = "market" THEN Saved("market", {}) ELSE rows.market)
  BY <1>8
<1>11. /\ Saved("order", {}) = SaveOrders({}) /\ Saved("fill", {}) = SaveFills({})
       /\ Saved("position", {}) = SavePositions({}) /\ Saved("market", {}) = SaveMarkets({})
  BY DEF Saved
<1>12. QED
  BY <1>2, <1>3, <1>4, <1>5, <1>9, <1>10, <1>11 DEF Clean

\* The kinds that are not written now wait as before.
LEMMA KindStays ==
  ASSUME NEW b, NEW s, NEW k \in 1..6, NEW h, h = NextKind(s, k), NEW l \in 1..6, l # k, NEW S,
         \A i \in DOMAIN s : s[i].id \in S => KindOrder[l] \in KindsOf(s[i])
  PROVE  Wait(S, b, s, h, l) = Wait(S, b, s, k, l)
<1>1. h \in 1..7 /\ h > k /\ k \in 0..6
  <2>1. k \in 0..6
    OBVIOUS
  <2>2. QED
    BY <2>1, NextKindIs
<1>2. ASSUME NEW n \in S, InBatch(s, n)  PROVE h <= l <=> k <= l
  <2>1. PICK i \in DOMAIN s : s[i].id = n
    BY <1>2 DEF InBatch
  <2>2. KindOrder[l] \in KindsOf(s[i])
    BY <2>1
  <2>3. k < l => h <= l
    BY <1>1, <2>2, KindWaits
  <2>4. QED
    BY <1>1, <2>3
<1>3. QED
  BY <1>2 DEF Wait, Waits

\* The records of the account of a batch.
LEMMA BatchRecords ==
  ASSUME RecordsInv
  PROVE  /\ OnLoan(log, outbox, writing)
         /\ DOMAIN writing \subseteq Int /\ LogOK(log)
         /\ \A j \in DOMAIN writing : IsCritical(writing[j]) => ~InReady(outbox, writing[j].id)
         /\ \A j \in DOMAIN writing : writing[j].typ \in Types
         /\ \A j \in DOMAIN writing, ty \in {"order", "fill", "position"} :
              /\ log[writing[j].id].typ = ty <=> j \in Items(ty)
              /\ log[writing[j].id].typ = ty => Of(j) = log[writing[j].id]
<1>1. /\ LogOK(log) /\ BoxSound(outbox, log, rows, failures)
      /\ writing \in Seq(EventsOf(TypesOf(log))) /\ InHand(writing, 0, outbox, log, rows, failures)
  BY DEF RecordsInv, WritingOK
<1>2. OnLoan(log, outbox, writing) /\ \A j \in DOMAIN writing : IsCritical(writing[j]) <=> IsCritical(log[writing[j].id])
  BY <1>1, OnLoanIs
<1>3. DOMAIN writing \subseteq Int /\ \A j \in DOMAIN writing : j > 0
  BY <1>1
<1>4. \A j \in DOMAIN writing : IsCritical(writing[j]) => ~InReady(outbox, writing[j].id)
  BY <1>1, <1>3 DEF InHand
<1>5. \A j \in DOMAIN writing : writing[j].typ \in Types
  BY <1>1, <1>2, LogFacts DEF OnLoan
<1>6. ASSUME NEW j \in DOMAIN writing, NEW ty \in {"order", "fill", "position"}
      PROVE  /\ log[writing[j].id].typ = ty <=> j \in Items(ty)
             /\ log[writing[j].id].typ = ty => Of(j) = log[writing[j].id]
  <2>1. writing[j].typ = log[writing[j].id].typ /\ writing[j].id \in DOMAIN log
    BY <1>2 DEF OnLoan
  <2>2. ty \in KindsOf(writing[j]) <=> writing[j].typ = ty
    BY <1>5, KindsAre
  <2>3. log[writing[j].id].typ = ty => writing[j].ver = writing[j].id
    BY <1>1, <1>2, <2>1, AccountCritical DEF OnLoan
  <2>4. QED
    BY <2>1, <2>2, <2>3 DEF Items, Of, Payload
<1>7. QED
  BY <1>1, <1>2, <1>3, <1>4, <1>5, <1>6

\* With nothing refused, a pending event of the account was not tried yet, unless
\* its order has a row.
LEMMA FreshNow ==
  ASSUME RecordsInv, failures = 0, NEW i \in DOMAIN log,
         \/ log[i].typ \in {"fill", "position"}
         \/ log[i].typ = "order" /\ rows.order[log[i].subject] = NoRow,
         InReady(outbox, i) \/ InBatch(writing, i)
  PROVE  Fresh(outbox, i)
<1>1. LogOK(log) /\ BoxSound(outbox, log, rows, failures)
  BY DEF RecordsInv
<1>2. IsCritical(log[i])
  BY <1>1, AccountCritical
<1>3. i \in DOMAIN outbox.events
  <2>1. CASE InReady(outbox, i)
    <3>1. OnePlace(outbox, i)
      BY <1>1, <1>2, BoxFacts
    <3>2. QED
      BY <2>1, <3>1 DEF OnePlace
  <2>2. CASE InBatch(writing, i)
    <3>1. OnLoan(log, outbox, writing)
      BY BatchRecords
    <3>2. QED
      BY <2>2, <3>1 DEF InBatch, OnLoan
  <2>3. QED
    BY <2>1, <2>2
<1> DEFINE e == outbox.events[i]
<1>4. e.id = i /\ e.typ = log[i].typ /\ IsCritical(e)
  BY <1>1, <1>2, <1>3, BoxFacts
<1>5. EventOK(log, rows, 0, e) /\ MapOK(outbox.events, TypesOf(log))
  BY <1>1, <1>3 DEF BoxSound, BoxOK, Shape
<1>6. e.retry \in 0..MaxRetryCount
  BY <1>3, <1>5 DEF MapOK, WellFormed
<1> HIDE DEF e
<1>7. e.ver = i
  BY <1>4, <1>5 DEF EventOK, Carries
<1>8. ~Beaten(log, rows, e)
  <2>1. NoRow.key = 0
    BY DEF NoRow
  <2>2. QED
    BY <1>4, <1>7, <2>1 DEF Beaten
<1>9. 0 >= e.retry
  BY <1>4, <1>5, <1>8 DEF EventOK, Excused
<1>10. e.retry = 0
  BY <1>6, <1>9, OutboxAssumption
<1>11. QED
  BY <1>3, <1>4, <1>10 DEF Fresh, e

LEMMA LastWrittenLast ==
  ASSUME RecordsInv, NEW A, A \subseteq DOMAIN writing, A # {}
  PROVE  LastWritten(A) \in A /\ \A l \in A : l <= LastWritten(A)
<1>1. writing \in Seq(EventsOf(TypesOf(log)))
  BY DEF RecordsInv, WritingOK
<1>2. DOMAIN writing = 1..Len(writing) /\ Len(writing) \in Nat
  BY <1>1
<1>3. A \subseteq 1..Len(writing)
  BY <1>2
<1>4. \E j \in A : \A l \in A : l <= j
  BY <1>2, <1>3, LastOf
<1>5. QED
  BY <1>4 DEF LastWritten

\* Fills,
LEMMA FillsFollow ==
  ASSUME RecordsInv, FollowInv, WriteKind, Clean', NEW t \in AllTrades
  PROVE  Follows(log, FillsOf(log, t), Wait(FillsOf(log, t), outbox, writing, kind', 4),
                 rows'.fill[t], Absent)
<1> DEFINE S == FillsOf(log, t)
<1>1. /\ Clean /\ failures = 0 /\ kind \in 1..6 /\ kind' = NextKind(writing, kind)
      /\ kind' \in Int /\ kind < kind'
      /\ rows'.fill = IF kind = 4 THEN SaveFills({}) ELSE rows.fill
  BY CleanWrite
<1>2. Follows(log, S, Wait(S, outbox, writing, kind, 4), rows.fill[t], Absent)
  BY <1>1 DEF FollowInv, AccountFollows
<1>3. /\ OnLoan(log, outbox, writing) /\ DOMAIN writing \subseteq Int
      /\ \A j \in DOMAIN writing :
           /\ log[writing[j].id].typ = "fill" <=> j \in Items("fill")
           /\ log[writing[j].id].typ = "fill" => Of(j) = log[writing[j].id]
  BY BatchRecords
<1>4. CASE kind # 4
  <2>1. \A i \in DOMAIN writing : writing[i].id \in S => KindOrder[4] \in KindsOf(writing[i])
    BY <1>3, KindOrderIs DEF FillsOf, Items
  <2>2. 4 \in 1..6
    OBVIOUS
  <2> DEFINE h == kind'
  <2> HIDE DEF S
  <2>3. Wait(S, outbox, writing, h, 4) = Wait(S, outbox, writing, kind, 4)
    <3>1. h = NextKind(writing, kind) /\ kind \in 1..6 /\ 4 # kind
      BY <1>1, <1>4
    <3> HIDE DEF h
    <3>2. QED
      BY <2>1, <2>2, <3>1, KindStays
  <2>4. QED
    BY <1>1, <1>2, <1>4, <2>3 DEF S
<1>5. CASE kind = 4
  <2> DEFINE A == {j \in DOMAIN writing : writing[j].id \in S}
  <2>1. {i \in Items("fill") \ {} : Of(i).subject = t} = A
    BY <1>3 DEF FillsOf, Items, OnLoan
  <2>2. rows'.fill[t] = IF A = {} THEN rows.fill[t] ELSE FillRecord(LastWritten(A))
    BY <1>1, <1>5, <2>1 DEF SaveFills
  <2>3. \A j \in A : Of(j) = log[writing[j].id]
    BY <1>3 DEF FillsOf
  <2>4. A # {} => LastWritten(A) \in A /\ \A i \in A : i <= LastWritten(A)
    <3>1. A \subseteq DOMAIN writing
      OBVIOUS
    <3> HIDE DEF A
    <3>2. QED
      BY <3>1, LastWrittenLast
  <2>5. S \subseteq Int /\ S \subseteq DOMAIN log
    <3>1. DOMAIN log \subseteq Int
      BY LogFacts DEF RecordsInv
    <3>2. QED
      BY <3>1 DEF FillsOf
  <2>6. \A n \in S : InReady(outbox, n) \/ InBatch(writing, n) => Fresh(outbox, n)
    BY <1>1, FreshNow DEF FillsOf
  <2>7. InTurn(writing, outbox, log)
    BY DEF FollowInv
  <2> HIDE DEF A, S
  <2>8. A # {} => \E j \in A : rows'.fill[t] = log[writing[j].id].value /\ \A i \in A : i <= j
    BY <2>2, <2>3, <2>4 DEF FillRecord
  <2>9. Follows(log, S, Wait(S, outbox, writing, 4, 4), rows.fill[t], Absent) /\ 4 \in Int /\ 4 < kind'
    BY <1>1, <1>2, <1>5
  <2>10. A = {j \in DOMAIN writing : writing[j].id \in S} /\ (A = {} => rows'.fill[t] = rows.fill[t])
    BY <2>2 DEF A
  <2> DEFINE h == kind'
             w == rows'.fill[t]
             v == rows.fill[t]
  <2>11. h \in Int /\ 4 < h /\ Follows(log, S, Wait(S, outbox, writing, 4, 4), v, Absent)
         /\ (A = {} => w = v)
         /\ (A # {} => \E j \in A : w = log[writing[j].id].value /\ \A i \in A : i <= j)
    BY <1>1, <2>8, <2>9, <2>10
  <2> HIDE DEF h, w, v
  <2>12. Follows(log, S, Wait(S, outbox, writing, h, 4), w, Absent)
    BY <1>3, <2>5, <2>6, <2>7, <2>9, <2>10, <2>11, FreshWritten
  <2>13. QED
    BY <2>12 DEF h, w, S
<1>6. QED
  BY <1>4, <1>5

\* positions,
LEMMA PositionsFollow ==
  ASSUME RecordsInv, FollowInv, WriteKind, Clean'
  PROVE  Follows(log, PositionsOf(log), Wait(PositionsOf(log), outbox, writing, kind', 5),
                 rows'.position, NoPosition)
<1> DEFINE S == PositionsOf(log)
<1>1. /\ Clean /\ failures = 0 /\ kind \in 1..6 /\ kind' = NextKind(writing, kind)
      /\ kind' \in Int /\ kind < kind'
      /\ rows'.position = IF kind = 5 THEN SavePositions({}) ELSE rows.position
  BY CleanWrite
<1>2. Follows(log, S, Wait(S, outbox, writing, kind, 5), rows.position, NoPosition)
  BY <1>1 DEF FollowInv, AccountFollows
<1>3. /\ OnLoan(log, outbox, writing) /\ DOMAIN writing \subseteq Int
      /\ \A j \in DOMAIN writing :
           /\ log[writing[j].id].typ = "position" <=> j \in Items("position")
           /\ log[writing[j].id].typ = "position" => Of(j) = log[writing[j].id]
  BY BatchRecords
<1>4. CASE kind # 5
  <2>1. \A i \in DOMAIN writing : writing[i].id \in S => KindOrder[5] \in KindsOf(writing[i])
    BY <1>3, KindOrderIs DEF PositionsOf, Items
  <2>2. 5 \in 1..6
    OBVIOUS
  <2> DEFINE h == kind'
  <2> HIDE DEF S
  <2>3. Wait(S, outbox, writing, h, 5) = Wait(S, outbox, writing, kind, 5)
    <3>1. h = NextKind(writing, kind) /\ kind \in 1..6 /\ 5 # kind
      BY <1>1, <1>4
    <3> HIDE DEF h
    <3>2. QED
      BY <2>1, <2>2, <3>1, KindStays
  <2>4. QED
    BY <1>1, <1>2, <1>4, <2>3 DEF S
<1>5. CASE kind = 5
  <2> DEFINE A == {j \in DOMAIN writing : writing[j].id \in S}
  <2>1. Items("position") \ {} = A
    <3>1. \A j \in DOMAIN writing : j \in Items("position") => log[writing[j].id].subject = "token"
      <4>1. \A n \in DOMAIN log : log[n].typ = "position" => log[n].subject = "token"
        BY DEF RecordsInv, LogOK, Told
      <4>2. QED
        BY <1>3, <4>1 DEF OnLoan
    <3>2. QED
      BY <1>3, <3>1 DEF PositionsOf, Items, OnLoan
  <2>2. rows'.position = IF A = {} THEN rows.position ELSE PositionRecord(LastWritten(A))
    BY <1>1, <1>5, <2>1 DEF SavePositions
  <2>3. \A j \in A : Of(j) = log[writing[j].id]
    BY <1>3 DEF PositionsOf
  <2>4. A # {} => LastWritten(A) \in A /\ \A i \in A : i <= LastWritten(A)
    <3>1. A \subseteq DOMAIN writing
      OBVIOUS
    <3> HIDE DEF A
    <3>2. QED
      BY <3>1, LastWrittenLast
  <2>5. S \subseteq Int /\ S \subseteq DOMAIN log
    <3>1. DOMAIN log \subseteq Int
      BY LogFacts DEF RecordsInv
    <3>2. QED
      BY <3>1 DEF PositionsOf
  <2>6. \A n \in S : InReady(outbox, n) \/ InBatch(writing, n) => Fresh(outbox, n)
    BY <1>1, FreshNow DEF PositionsOf
  <2>7. InTurn(writing, outbox, log)
    BY DEF FollowInv
  <2> HIDE DEF A, S
  <2>8. A # {} => \E j \in A : rows'.position = log[writing[j].id].value /\ \A i \in A : i <= j
    BY <2>2, <2>3, <2>4 DEF PositionRecord
  <2>9. Follows(log, S, Wait(S, outbox, writing, 5, 5), rows.position, NoPosition) /\ 5 \in Int /\ 5 < kind'
    BY <1>1, <1>2, <1>5
  <2>10. A = {j \in DOMAIN writing : writing[j].id \in S} /\ (A = {} => rows'.position = rows.position)
    BY <2>2 DEF A
  <2> DEFINE h == kind'
             w == rows'.position
             v == rows.position
  <2>11. h \in Int /\ 5 < h /\ Follows(log, S, Wait(S, outbox, writing, 5, 5), v, NoPosition)
         /\ (A = {} => w = v)
         /\ (A # {} => \E j \in A : w = log[writing[j].id].value /\ \A i \in A : i <= j)
    BY <1>1, <2>8, <2>9, <2>10
  <2> HIDE DEF h, w, v
  <2>12. Follows(log, S, Wait(S, outbox, writing, h, 5), w, NoPosition)
    BY <1>3, <2>5, <2>6, <2>7, <2>9, <2>10, <2>11, FreshWritten
  <2>13. QED
    BY <2>12 DEF h, w, S
<1>6. QED
  BY <1>4, <1>5

\* orders, of which the first event is written,
LEMMA OrdersFollow ==
  ASSUME RecordsInv, FollowInv, WriteKind, Clean', NEW o \in Orders
  PROVE  KeepsFirst(log, OrdersOf(log, o), Wait(OrdersOf(log, o), outbox, writing, kind', 3),
                    rows'.order[o])
<1> DEFINE S == OrdersOf(log, o)
           row == rows.order[o]
<1>1. /\ Clean /\ failures = 0 /\ kind \in 1..6 /\ kind' = NextKind(writing, kind)
      /\ kind' \in Int /\ kind < kind'
      /\ rows'.order = IF kind = 3 THEN SaveOrders({}) ELSE rows.order
  BY CleanWrite
<1>2. KeepsFirst(log, S, Wait(S, outbox, writing, kind, 3), row)
  BY <1>1 DEF FollowInv, AccountFollows
<1>3. /\ OnLoan(log, outbox, writing) /\ DOMAIN writing \subseteq Int
      /\ \A j \in DOMAIN writing :
           /\ log[writing[j].id].typ = "order" <=> j \in Items("order")
           /\ log[writing[j].id].typ = "order" => Of(j) = log[writing[j].id]
  BY BatchRecords
<1>4. CASE kind # 3
  <2>1. \A i \in DOMAIN writing : writing[i].id \in S => KindOrder[3] \in KindsOf(writing[i])
    BY <1>3, KindOrderIs DEF OrdersOf, Items
  <2>2. 3 \in 1..6
    OBVIOUS
  <2> DEFINE h == kind'
  <2> HIDE DEF S
  <2>3. Wait(S, outbox, writing, h, 3) = Wait(S, outbox, writing, kind, 3)
    <3>1. h = NextKind(writing, kind) /\ kind \in 1..6 /\ 3 # kind
      BY <1>1, <1>4
    <3> HIDE DEF h
    <3>2. QED
      BY <2>1, <2>2, <3>1, KindStays
  <2>4. QED
    BY <1>1, <1>2, <1>4, <2>3 DEF S
<1>5. CASE kind = 3
  <2> DEFINE A == {i \in Items("order") : OrderFromRecord(i).id = o /\ AcceptedOrder(i, {})}
             B == {j \in DOMAIN writing : writing[j].id \in S}
  <2>1. rows'.order[o] = IF A = {} THEN row ELSE OrderRow(LastWritten(A))
    BY <1>1, <1>5 DEF SaveOrders
  <2>2. \A i \in Items("order") : /\ OrderFromRecord(i).id = Of(i).subject
                                  /\ OrderRow(i) = [key |-> writing[i].id, status |-> Of(i).value]
                                  /\ i \in DOMAIN writing /\ writing[i].id # 0
    BY OrderRowIs DEF OrderRow, OrderKey
  <2>3. \A i \in DOMAIN writing : i \in B <=> i \in Items("order") /\ OrderFromRecord(i).id = o
    BY <1>3, <2>2 DEF OrdersOf, OnLoan
  <2>4. \A i \in B : OrderRow(i) = [key |-> writing[i].id, status |-> log[writing[i].id].value]
    BY <1>3, <2>2, <2>3 DEF OrdersOf
  <2>5. A \subseteq B /\ B \subseteq DOMAIN writing
    BY <2>2, <2>3
  <2>6. A # {} => LastWritten(A) \in A
    <3>1. A \subseteq DOMAIN writing
      BY <2>5
    <3> HIDE DEF A
    <3>2. QED
      BY <3>1, LastWrittenIs
  <2>7. S \subseteq DOMAIN log /\ S \subseteq Int
    <3>1. DOMAIN log \subseteq Int
      BY LogFacts DEF RecordsInv
    <3>2. QED
      BY <3>1 DEF OrdersOf
  <2> DEFINE h == kind'
             V == Wait(S, outbox, writing, h, 3)
             W == Wait(S, outbox, writing, 3, 3)
             new == rows'.order[o]
  <2>8. h \in Int /\ 3 < h
    BY <1>1, <1>5
  <2> HIDE DEF h
  <2>9. V = {n \in S : InReady(outbox, n)}
    BY <2>8 DEF Wait, Waits
  <2>10. KeepsFirst(log, S, W, row)
    BY <1>2, <1>5
  <2>11. W = {n \in S : InReady(outbox, n) \/ InBatch(writing, n)}
    BY DEF Wait, Waits
  <2>12. CASE row # NoRow
    <3>1. PICK x \in S : row = [key |-> x, status |-> log[x].value] /\ \A n \in S : x <= n
      BY <2>10, <2>12 DEF KeepsFirst
    <3>2. \A i \in A : writing[i].id = row.key
      <4>1. \A i \in A : rows.order[OrderFromRecord(i).id].key = OrderKey(i)
        BY <2>12 DEF AcceptedOrder
      <4>2. QED
        BY <4>1 DEF OrderKey
    <3>3. \A i \in A : OrderRow(i) = row
      BY <2>4, <2>5, <3>1, <3>2
    <3> HIDE DEF A, row
    <3>4. new = row
      BY <2>1, <2>6, <3>3
    <3> HIDE DEF new
    <3>5. KeepsFirst(log, S, V, new)
      BY <2>12, <3>1, <3>4 DEF KeepsFirst
    <3>6. QED
      BY <3>5 DEF new, V, h
  <2>13. CASE row = NoRow
    <3>1. W = S
      BY <2>10, <2>13 DEF KeepsFirst
    <3>2. \A n \in S : Fresh(outbox, n) /\ (InReady(outbox, n) \/ InBatch(writing, n))
      <4>1. \A n \in S : InReady(outbox, n) \/ InBatch(writing, n)
        BY <2>11, <3>1
      <4>2. \A n \in S : log[n].typ = "order" /\ rows.order[log[n].subject] = NoRow
        BY <2>13 DEF OrdersOf
      <4>3. QED
        BY <1>1, <2>7, <4>1, <4>2, FreshNow
    <3>3. CASE B = {}
      <4>1. V = S
        BY <2>9, <3>2, <3>3 DEF InBatch
      <4>2. new = row
        BY <2>1, <2>5, <3>3
      <4> HIDE DEF new, row
      <4>3. KeepsFirst(log, S, V, new)
        BY <2>13, <4>1, <4>2 DEF KeepsFirst
      <4>4. QED
        BY <4>3 DEF new, V, h
    <3>4. CASE B # {}
      <4>1. \E j \in B : \A l \in B : j <= l
        <5>1. writing \in Seq(EventsOf(TypesOf(log)))
          BY DEF RecordsInv, WritingOK
        <5>2. DOMAIN writing = 1..Len(writing) /\ Len(writing) \in Nat
          BY <5>1
        <5>3. B \subseteq 1..Len(writing)
          BY <5>2
        <5> HIDE DEF B
        <5>4. QED
          BY <3>4, <5>2, <5>3, LastOf
      <4>2. PICK j \in B : \A l \in B : j <= l
        BY <4>1
      <4>3. j \in A
        <5>1. j \in Items("order") /\ OrderFromRecord(j).id = o
          BY <2>3, <2>5
        <5>2. \A i \in Items("order") \ {} : OrderFromRecord(i).id = o => j <= i
          BY <2>2, <2>3, <4>2
        <5>3. AcceptedOrder(j, {})
          BY <2>13, <5>1, <5>2 DEF AcceptedOrder
        <5>4. QED
          BY <5>1, <5>3
      <4>4. LastWritten(A) = j
        <5>1. \A i \in A : i = j
          BY <2>2, <4>3, AcceptedOnce
        <5> HIDE DEF A
        <5>2. QED
          BY <2>6, <4>3, <5>1
      <4>5. new = [key |-> writing[j].id, status |-> log[writing[j].id].value]
        BY <2>1, <2>4, <4>3, <4>4
      <4>6. writing[j].id \in S /\ writing[j].id # 0
        BY <2>2, <2>3
      <4>7. \A n \in S : writing[j].id <= n
        <5>1. SUFFICES ASSUME NEW n \in S  PROVE writing[j].id <= n
          OBVIOUS
        <5>2. /\ Turns(writing, outbox) /\ Ahead(writing, outbox)
              /\ Fresh(outbox, n) /\ Fresh(outbox, writing[j].id)
              /\ n \in Int /\ writing[j].id \in Int /\ j \in DOMAIN writing /\ j \in Int
          BY <1>3, <2>5, <2>7, <3>2, <4>6 DEF FollowInv, InTurn
        <5>3. CASE InReady(outbox, n)
          <6>1. PICK i \in DOMAIN outbox.ready : outbox.ready[i].id = n
            BY <5>3 DEF InReady
          <6>2. writing[j].id < n
            BY <5>2, <6>1 DEF Ahead
          <6>3. QED
            BY <5>2, <6>2
        <5>4. CASE InBatch(writing, n)
          <6>1. PICK i \in DOMAIN writing : writing[i].id = n
            BY <5>4 DEF InBatch
          <6>2. i \in B /\ i \in Int
            BY <1>3, <6>1
          <6>3. j <= i
            BY <4>2, <6>2
          <6>4. CASE i = j
            BY <5>2, <6>1, <6>4
          <6>5. CASE j < i
            <7>1. writing[j].id < writing[i].id
              BY <5>2, <6>1, <6>5 DEF Turns
            <7>2. QED
              BY <5>2, <6>1, <7>1
          <6>6. QED
            BY <5>2, <6>2, <6>3, <6>4, <6>5
        <5>5. QED
          BY <3>2, <5>3, <5>4
      <4>8. new # NoRow
        BY <4>5, <4>6 DEF NoRow
      <4> HIDE DEF new
      <4>9. KeepsFirst(log, S, V, new)
        BY <4>5, <4>6, <4>7, <4>8 DEF KeepsFirst
      <4>10. QED
        BY <4>9 DEF new, V, h
    <3>5. QED
      BY <3>3, <3>4
  <2>14. QED
    BY <2>12, <2>13
<1>6. QED
  BY <1>4, <1>5

\* and the market, whose events do not overtake each other.
LEMMA ListingFollows ==
  ASSUME RecordsInv, FollowInv, WriteKind, Clean', ~merged
  PROVE  Follows(log, ListingsOf(log), Wait(ListingsOf(log), outbox, writing, kind', 2),
                 rows'.market, Absent)
<1> DEFINE S == ListingsOf(log)
<1>1. /\ Clean /\ failures = 0 /\ kind \in 1..6 /\ kind' = NextKind(writing, kind)
      /\ kind' \in Int /\ kind < kind'
      /\ rows'.market = IF kind = 2 THEN SaveMarkets({}) ELSE rows.market
  BY CleanWrite
<1>2. /\ Apart(writing, outbox, log) /\ Paused(writing, outbox, log, listing) /\ OldFirst(writing)
      /\ Follows(log, S, Wait(S, outbox, writing, kind, 2), rows.market, Absent)
  BY <1>1 DEF FollowInv, MarketFollows
<1>3. /\ OnLoan(log, outbox, writing) /\ DOMAIN writing \subseteq Int /\ LogOK(log)
      /\ \A j \in DOMAIN writing : writing[j].typ \in Types
  BY BatchRecords
<1>4. \A j \in DOMAIN writing : writing[j].ver = writing[j].id
  BY <1>2, <1>3 DEF OnLoan, Apart
<1>5. \A j \in DOMAIN writing : /\ "market" \in KindsOf(writing[j]) <=> writing[j].id \in S
                                /\ Of(j) = log[writing[j].id]
  <2>1. \A j \in DOMAIN writing :
          "market" \in KindsOf(writing[j]) <=> /\ writing[j].typ \in MarketTypes
                                               /\ log[writing[j].ver].value # Absent
    BY <1>3, KindsAre
  <2>2. \A j \in DOMAIN writing : writing[j].typ = log[writing[j].id].typ /\ writing[j].id \in DOMAIN log
    BY <1>3 DEF OnLoan
  <2>3. QED
    BY <1>4, <2>1, <2>2 DEF ListingsOf, Of, Payload
<1>6. CASE kind # 2
  <2>1. \A i \in DOMAIN writing : writing[i].id \in S => KindOrder[2] \in KindsOf(writing[i])
    BY <1>5, KindOrderIs
  <2>2. 2 \in 1..6
    OBVIOUS
  <2> DEFINE h == kind'
  <2> HIDE DEF S
  <2>3. Wait(S, outbox, writing, h, 2) = Wait(S, outbox, writing, kind, 2)
    <3>1. h = NextKind(writing, kind) /\ kind \in 1..6 /\ 2 # kind
      BY <1>1, <1>6
    <3> HIDE DEF h
    <3>2. QED
      BY <2>1, <2>2, <3>1, KindStays
  <2>4. QED
    BY <1>1, <1>2, <1>6, <2>3 DEF S
<1>7. CASE kind = 2
  <2> DEFINE A == {j \in DOMAIN writing : writing[j].id \in S}
  <2>1. Items("market") \ {} = A
    BY <1>5 DEF Items
  <2>2. rows'.market = IF A = {} THEN rows.market ELSE MarketRecord(LastWritten(A))
    BY <1>1, <1>7, <2>1 DEF SaveMarkets
  <2>3. \A j \in A : Of(j) = log[writing[j].id]
    BY <1>5
  <2>4. A # {} => LastWritten(A) \in A /\ \A i \in A : i <= LastWritten(A)
    <3>1. A \subseteq DOMAIN writing
      OBVIOUS
    <3> HIDE DEF A
    <3>2. QED
      BY <3>1, LastWrittenLast
  <2>5. S \subseteq Int /\ S \subseteq DOMAIN log
    <3>1. DOMAIN log \subseteq Int
      BY <1>3, LogFacts
    <3>2. QED
      BY <3>1 DEF ListingsOf
  <2>6. \A n \in S : log[n].typ \in {"discovered", "filtered_out"} /\ ~IsCritical(log[n])
    <3>1. \A n \in S : log[n].typ \in MarketTypes /\ log[n].value # Absent
      BY DEF ListingsOf
    <3>2. \A n \in S : log[n].typ # "resolved"
      BY <1>3, <2>5, <3>1 DEF LogOK, Told
    <3>3. QED
      BY <1>3, <2>5, <3>1, <3>2, AccountCritical DEF MarketTypes
  <2>7. \A i \in A : ~IsCritical(writing[i])
    BY <1>3, <2>6 DEF OnLoan, IsCritical
  <2>8. \A i, j \in A : i < j => writing[i].id < writing[j].id
    BY <1>2, <2>7 DEF OldFirst
  <2>9. ASSUME NEW i \in A, NEW n \in S, InReady(outbox, n)
        PROVE  writing[i].id < n
    <3> DEFINE x == writing[i].id
    <3>1. /\ x \in S /\ InBatch(writing, x) /\ x \in DOMAIN outbox.events
      BY <1>3 DEF OnLoan, InBatch
    <3>2. n \in DOMAIN outbox.events /\ ~InBatch(writing, n)
      BY <1>2, <2>6, <2>9 DEF Apart, InReady
    <3> HIDE DEF x, S, A
    <3>3. \A m \in DOMAIN outbox.events :
            outbox.events[m].typ = log[m].typ /\ (IsCritical(outbox.events[m]) <=> IsCritical(log[m]))
      BY BoxFacts DEF RecordsInv
    <3>4. log[x].typ # log[n].typ
      <4>1. SUFFICES ASSUME log[x].typ = log[n].typ  PROVE FALSE
        OBVIOUS
      <4>2. ~IsCritical(outbox.events[x]) /\ ~IsCritical(outbox.events[n])
            /\ outbox.events[x].typ = outbox.events[n].typ
        BY <2>6, <3>1, <3>2, <3>3, <4>1
      <4>3. x = n
        BY <1>2, <3>1, <3>2, <4>2 DEF Apart
      <4>4. QED
        BY <3>1, <3>2, <4>3
    <3>5. CASE log[x].typ = "discovered"
      <4>1. log[n].typ = "filtered_out" /\ log[n].value # Absent
        BY <2>6, <3>4, <3>5 DEF S, ListingsOf
      <4>2. Pausing(outbox, log, n) /\ x \in Discovered(log) /\ n \in DOMAIN log
        BY <2>5, <3>1, <3>2, <3>5, <4>1 DEF Pausing, Discovered
      <4>3. x < n
        BY <1>2, <4>2 DEF Paused
      <4>4. QED
        BY <4>3 DEF x
    <3>6. CASE log[x].typ = "filtered_out"
      <4>1. log[n].typ = "discovered" /\ log[x].value # Absent
        BY <2>6, <3>1, <3>4, <3>6 DEF S, ListingsOf
      <4>2. Pausing(outbox, log, x) /\ n \in Discovered(log) /\ x \in DOMAIN log
        BY <2>5, <3>1, <3>6, <4>1 DEF Pausing, Discovered
      <4>3. ~InReady(outbox, n)
        BY <1>2, <3>1, <4>2 DEF Paused
      <4>4. QED
        BY <2>9, <4>3
    <3>7. QED
      BY <2>6, <3>1, <3>5, <3>6
  <2> HIDE DEF A, S
  <2>10. A # {} => \E j \in A : rows'.market = log[writing[j].id].value /\ \A i \in A : i <= j
    BY <2>2, <2>3, <2>4 DEF MarketRecord
  <2>11. A = {j \in DOMAIN writing : writing[j].id \in S}
    BY DEF A
  <2> DEFINE h == kind'
             w == rows'.market
             v == rows.market
  <2>12. 2 \in Int /\ h \in Int /\ 2 < h /\ Follows(log, S, Wait(S, outbox, writing, 2, 2), v, Absent)
         /\ (A = {} => w = v)
         /\ (A # {} => \E j \in A : w = log[writing[j].id].value /\ \A i \in A : i <= j)
    BY <1>1, <1>2, <1>7, <2>2, <2>10
  <2> HIDE DEF h, w, v
  <2>13. Follows(log, S, Wait(S, outbox, writing, h, 2), w, Absent)
    BY <1>3, <2>5, <2>8, <2>9, <2>11, <2>12, BatchWritten
  <2>14. QED
    BY <2>13 DEF h, w, S
<1>8. QED
  BY <1>6, <1>7

LEMMA WriteKindFollows ==
  ASSUME RecordsInv, FollowInv, WriteKind
  PROVE  FollowInv'
<1>1. UNCHANGED <<log, outbox, writing, listing, merged>>
  BY DEF WriteKind
<1>2. InTurn(writing, outbox, log)'
  BY <1>1 DEF FollowInv, InTurn, Turns, Ahead, Priced, Fresh
<1>3. ASSUME Clean'
      PROVE  AccountFollows(log, outbox, writing, kind, rows)'
  <2>1. \A t \in AllTrades :
          Follows(log, FillsOf(log, t), Wait(FillsOf(log, t), outbox, writing, kind', 4),
                  rows'.fill[t], Absent)
    BY <1>3, FillsFollow
  <2>2. Follows(log, PositionsOf(log), Wait(PositionsOf(log), outbox, writing, kind', 5),
                rows'.position, NoPosition)
    BY <1>3, PositionsFollow
  <2>3. \A o \in Orders :
          KeepsFirst(log, OrdersOf(log, o), Wait(OrdersOf(log, o), outbox, writing, kind', 3),
                     rows'.order[o])
    BY <1>3, OrdersFollow
  <2>4. AccountFollows(log, outbox, writing, kind', rows')
    BY <2>1, <2>2, <2>3 DEF AccountFollows
  <2>5. AccountFollows(log', outbox', writing', kind', rows')
    BY <1>1, <2>4
  <2>6. QED
    BY <2>5 DEF AccountFollows
<1>4. ASSUME Clean', ~merged'
      PROVE  MarketFollows(log, outbox, writing, kind, rows, listing)'
  <2>1. ~merged /\ Clean
    BY <1>1, <1>4, CleanWrite
  <2>2. Follows(log, ListingsOf(log), Wait(ListingsOf(log), outbox, writing, kind', 2),
                rows'.market, Absent)
    BY <1>4, <2>1, ListingFollows
  <2>3. Apart(writing, outbox, log) /\ Paused(writing, outbox, log, listing) /\ OldFirst(writing)
    BY <2>1 DEF FollowInv, MarketFollows
  <2>4. MarketFollows(log, outbox, writing, kind', rows', listing)
    BY <2>2, <2>3 DEF MarketFollows
  <2>5. MarketFollows(log', outbox', writing', kind', rows', listing')
    BY <1>1, <2>4
  <2>6. QED
    BY <2>5 DEF MarketFollows
<1>5. QED
  BY <1>2, <1>3, <1>4 DEF FollowInv

--------------------------------------------------------------------------------
(* The worker settles its batch. *)

\* Event e of the batch is settled; wr says that it was written.  What waited in
\* the queue still does; what comes to it was retained, or is e to be tried again.
SettlesOne(L, b, e, wr, r) ==
  /\ \A j \in DOMAIN b.ready : j \in DOMAIN r.ready /\ r.ready[j] = b.ready[j]
  /\ \A j \in DOMAIN r.ready :
       \/ j \in DOMAIN b.ready
       \/ /\ r.ready[j].prio = PriorityOf[L[r.ready[j].id].typ]
          /\ \/ r.ready[j].id \in DOMAIN b.retained
             \/ ~wr /\ r.ready[j].id = e.id
  /\ \A i \in DOMAIN r.events :
       /\ i \in DOMAIN b.events
       /\ r.events[i] = b.events[i] \/ (~wr /\ i = e.id)
       /\ i = e.id => ~wr /\ r.events[i].retry # 0
  /\ \A i \in DOMAIN b.events : i # e.id => i \in DOMAIN r.events
  /\ \A i \in DOMAIN r.retained : i \in DOMAIN b.retained
  /\ wr \/ IsCritical(e) =>
       \A t \in DOMAIN b.index : b.index[t] # e.id => t \in DOMAIN r.index /\ r.index[t] = b.index[t]

LEMMA AckSettles ==
  ASSUME NEW L, NEW R, NEW f, NEW s, NEW m, NEW b, Settling(L, R, f, s, m, b),
         NEW e, e = s[m + 1], NEW r, r = Ack(b, e.id)
  PROVE  SettlesOne(L, b, e, TRUE, r)
<1> DEFINE p == TypesOf(L)
           c == Acked(b, e.id)
<1>1. /\ Publications(p) /\ BoxOK(b, p) /\ Shape(b, p)
      /\ e.id \in DOMAIN b.events /\ b.events[e.id].id = e.id
  BY SettlingIs
<1>2. LogOK(L) /\ BoxSound(b, L, R, f)
  BY DEF Settling, Sound
<1>3. \A i \in DOMAIN b.retained : b.retained[i].id = i /\ b.retained[i].typ = L[i].typ
  BY <1>2, BoxFacts
<1> HIDE DEF p, c
<1>4. /\ BoxOK(c, p) /\ r = Promote(c) /\ c.ready = b.ready
      /\ c.events = Without(b.events, e.id) /\ c.retained = Without(b.retained, e.id)
  BY <1>1, AckedIs DEF c
<1>5. c.index = Unindexed(b, b.events[e.id])
  BY <1>1 DEF c, Acked, Shape, IsBox
<1>6. Shape(c, p)
  BY <1>4 DEF BoxOK
<1>7. Publications(p) /\ Shape(c, p) /\ r = Promote(c)
  BY <1>1, <1>4, <1>6
<1> HIDE DEF p, c
<1>70. /\ r.events = c.events /\ r.index = c.index
       /\ \A j \in DOMAIN c.ready : j \in DOMAIN r.ready /\ r.ready[j] = c.ready[j]
       /\ \A j \in DOMAIN r.ready :
            \/ j \in DOMAIN c.ready
            \/ /\ r.ready[j].id \in DOMAIN c.retained
               /\ r.ready[j] = Entry(c.retained[r.ready[j].id])
       /\ \A i \in DOMAIN r.retained : i \in DOMAIN c.retained
  BY <1>7, PromoteIs
<1>8. /\ DOMAIN c.events = DOMAIN b.events \ {e.id}
      /\ \A i \in DOMAIN c.events : c.events[i] = b.events[i]
      /\ DOMAIN c.retained = DOMAIN b.retained \ {e.id}
      /\ \A i \in DOMAIN c.retained : c.retained[i] = b.retained[i]
  BY <1>4 DEF Without
<1>9. \A t \in DOMAIN b.index : b.index[t] # e.id => t \in DOMAIN r.index /\ r.index[t] = b.index[t]
  <2>1. r.index = Unindexed(b, b.events[e.id])
    BY <1>5, <1>70
  <2> DEFINE g == b.events[e.id]
  <2>2. g.id = e.id
    BY <1>1
  <2> HIDE DEF g
  <2>3. CASE r.index = b.index
    BY <2>3
  <2>4. CASE g.typ \in DOMAIN b.index /\ b.index[g.typ] = e.id /\ r.index = Without(b.index, g.typ)
    BY <2>4 DEF Without
  <2>5. QED
    BY <2>1, <2>2, <2>3, <2>4 DEF Unindexed, g
<1>10. \A j \in DOMAIN r.ready : \/ j \in DOMAIN b.ready
                                 \/ /\ r.ready[j].id \in DOMAIN b.retained
                                    /\ r.ready[j].prio = PriorityOf[L[r.ready[j].id].typ]
  <2>1. \A x : Entry(x).prio = PriorityOf[x.typ]
    BY DEF Entry
  <2>2. SUFFICES ASSUME NEW j \in DOMAIN r.ready, j \notin DOMAIN b.ready
                 PROVE  /\ r.ready[j].id \in DOMAIN b.retained
                        /\ r.ready[j].prio = PriorityOf[L[r.ready[j].id].typ]
    OBVIOUS
  <2>3. /\ r.ready[j].id \in DOMAIN b.retained
        /\ r.ready[j] = Entry(b.retained[r.ready[j].id])
    BY <1>4, <1>70, <1>8, <2>2
  <2>4. r.ready[j].prio = PriorityOf[b.retained[r.ready[j].id].typ]
    BY <2>1, <2>3
  <2>5. QED
    BY <1>3, <2>3, <2>4
<1>11. QED
  BY <1>4, <1>70, <1>8, <1>9, <1>10 DEF SettlesOne

\* What a retry stores of one event, which was there, it leaves of the others.
LEMMA WithRetried ==
  ASSUME NEW g, NEW f, NEW w, NEW i0, IsWith(g, f, w), w.id = i0, i0 \in DOMAIN f, w.retry # 0
  PROVE  /\ \A i \in DOMAIN g :
               /\ i \in DOMAIN f
               /\ g[i] = f[i] \/ i = i0
               /\ i = i0 => g[i].retry # 0
         /\ \A i \in DOMAIN f : i # i0 => i \in DOMAIN g
<1>1. DOMAIN g = DOMAIN f \union {i0} /\ \A i \in DOMAIN g : g[i] = IF i = i0 THEN w ELSE f[i]
  BY DEF IsWith
<1>2. DOMAIN g = DOMAIN f
  BY <1>1
<1>3. QED
  BY <1>1, <1>2

LEMMA RetrySettles ==
  ASSUME NEW L, NEW R, NEW f, NEW s, NEW m, NEW b, Settling(L, R, f, s, m, b),
         NEW e, e = s[m + 1], Excused(L, R, f, e, e.retry + 1), e.retry < MaxRetryCount,
         NEW r, r = Retried(b, e.id)
  PROVE  SettlesOne(L, b, e, FALSE, r)
<1> DEFINE p == TypesOf(L)
           w == WithRetry(b.events[e.id])
           st == RetryStore(b, e.id)
           id == e.id
<1>1. /\ Publications(p) /\ BoxOK(b, p) /\ CritBox(b, p) /\ Shape(b, p)
      /\ id \in DOMAIN b.events /\ b.events[id].retry = e.retry /\ e.retry \in Nat
      /\ (Critical(p, id) => ~InReady(b, id))
      /\ Cardinality(DOMAIN b.retained) \in Nat
      /\ IsFiniteSet(DOMAIN b.retained) /\ ReadyOK(b, p)
      /\ Cardinality(DOMAIN b.retained) < RetainedMaxSize
      /\ WellFormed(p, e)
  BY SettlingIs
<1>2. w.id = id /\ w.typ = e.typ /\ w.retry = e.retry + 1 /\ Current(b, id) = b.events[id]
  BY TriedAgain
<1>3. LogOK(L) /\ IsBox(b)
  BY <1>1 DEF Settling, Shape
<1>4. w.retry # 0 /\ w.typ = L[id].typ /\ (IsCritical(w) <=> IsCritical(e))
  <2>1. e.typ = L[id].typ
    BY <1>1, <1>3, LogFacts DEF WellFormed
  <2>2. QED
    BY <1>1, <1>2, <2>1 DEF IsCritical
<1>5. id \in DOMAIN b.events /\ b.events[id].retry < MaxRetryCount /\ w = WithRetry(Current(b, id))
  BY <1>1, <1>2
<1> HIDE DEF p, w, st, id
<1>6. WellFormed(p, w) /\ BoxOK(st, p)
  <2>1. st = RetryStore(b, id)
    BY DEF st, id
  <2>2. QED
    BY <1>1, <1>5, <2>1, RetryStoreFacts
<1>7. CASE id \in b.queued
  <2>1. r = StorePending(b, w)
    BY <1>5, <1>7 DEF Retried, RetryStore, id
  <2>2. /\ r.ready = b.ready /\ IsWith(r.events, b.events, w)
        /\ r.retained = Without(b.retained, w.id) /\ IsIndexed(r, b, w)
    BY <1>3, <2>1, PendingIs
  <2>3. IsCritical(e) => ~Mergeable(w)
    BY <1>4, <1>6, OutboxAssumption DEF Mergeable, IsCritical, WellFormed
  <2>4. /\ \A i \in DOMAIN r.events :
             /\ i \in DOMAIN b.events
             /\ r.events[i] = b.events[i] \/ i = e.id
             /\ i = e.id => r.events[i].retry # 0
        /\ \A i \in DOMAIN b.events : i # e.id => i \in DOMAIN r.events
    <3>1. IsWith(r.events, b.events, w)
      BY ONLY <2>2
    <3>2. w.id = e.id /\ w.id \in DOMAIN b.events /\ w.retry # 0
      BY <1>2, <1>4, <1>5 DEF id
    <3>3. QED
      BY ONLY <3>1, <3>2, WithRetried
  <2>5. \A i \in DOMAIN r.retained : i \in DOMAIN b.retained
    BY <2>2 DEF Without
  <2>6. IsCritical(e) =>
           \A t \in DOMAIN b.index : t \in DOMAIN r.index /\ r.index[t] = b.index[t]
    BY <2>2, <2>3 DEF IsIndexed
  <2>7. \A j \in DOMAIN r.ready :
          \/ j \in DOMAIN b.ready
          \/ r.ready[j].prio = PriorityOf[L[r.ready[j].id].typ] /\ r.ready[j].id = e.id
    BY <2>2
  <2>8. \A j \in DOMAIN b.ready : j \in DOMAIN r.ready /\ r.ready[j] = b.ready[j]
    BY <2>2
  <2>9. QED
    BY <2>4, <2>5, <2>6, <2>7, <2>8 DEF SettlesOne
<1>8. CASE id \notin b.queued
  <2>1. st = StoreRetained(b, w) /\ r = RetryEnqueue(st, w)
    BY <1>5, <1>8 DEF Retried, RetryStore, st, id
  <2>2. Cardinality(DOMAIN b.retained \union {w.id}) <= RetainedMaxSize
    <3>1. Cardinality(DOMAIN b.retained \union {w.id}) \in
            {Cardinality(DOMAIN b.retained), Cardinality(DOMAIN b.retained) + 1}
      BY <1>1, FS_AddElement
    <3>2. QED
      BY <1>1, <3>1, OutboxAssumption
  <2>3. /\ DOMAIN st = DOMAIN b
        /\ st.ready = b.ready
        /\ IsWith(st.events, b.events, w)
        /\ IsWith(st.retained, b.retained, w)
        /\ IsIndexed(st, b, w)
    BY <1>1, <1>6, <2>1, <2>2, RetainedIs
  <2>4. /\ r.ready = Append(b.ready, Entry(w)) /\ r.retained = Without(st.retained, w.id)
        /\ r.events = st.events /\ r.index = st.index
    <3>1. IsBox(st)
      BY <1>3, <2>3 DEF IsBox
    <3>2. QED
      BY <2>1, <2>3, <3>1 DEF RetryEnqueue, EnqueueReady, PutReady, IsBox
  <2>5. /\ DOMAIN b.ready = 1..Len(b.ready) /\ Len(b.ready) \in Nat
        /\ DOMAIN r.ready = 1..(Len(b.ready) + 1)
        /\ r.ready[Len(b.ready) + 1] = Entry(w)
        /\ \A j \in DOMAIN b.ready : r.ready[j] = b.ready[j]
    <3>1. w.typ \in Types
      BY <1>6 DEF WellFormed
    <3>2. QED
      BY <1>1, <1>6, <2>4, <3>1, AppendReady
  <2>6. Entry(w).id = id /\ Entry(w).prio = PriorityOf[L[id].typ]
    BY <1>2, <1>4 DEF Entry
  <2>7. IsCritical(e) => ~Mergeable(w)
    BY <1>4, <1>6, OutboxAssumption DEF Mergeable, IsCritical, WellFormed
  <2>8. \A j \in DOMAIN b.ready : j \in DOMAIN r.ready /\ r.ready[j] = b.ready[j]
    BY <2>5
  <2>9. \A j \in DOMAIN r.ready :
          \/ j \in DOMAIN b.ready
          \/ r.ready[j].prio = PriorityOf[L[r.ready[j].id].typ] /\ r.ready[j].id = e.id
    <3>1. \A j \in DOMAIN r.ready : j \in DOMAIN b.ready \/ r.ready[j] = Entry(w)
      BY <2>5
    <3>2. QED
      BY <2>6, <3>1 DEF id
  <2>10. /\ \A i \in DOMAIN r.events :
              /\ i \in DOMAIN b.events
              /\ r.events[i] = b.events[i] \/ i = e.id
              /\ i = e.id => r.events[i].retry # 0
         /\ \A i \in DOMAIN b.events : i # e.id => i \in DOMAIN r.events
    <3>1. IsWith(r.events, b.events, w)
      BY ONLY <2>3, <2>4
    <3>2. w.id = e.id /\ w.id \in DOMAIN b.events /\ w.retry # 0
      BY <1>2, <1>4, <1>5 DEF id
    <3>3. QED
      BY ONLY <3>1, <3>2, WithRetried
  <2>11. \A i \in DOMAIN r.retained : i \in DOMAIN b.retained
    BY <2>3, <2>4 DEF IsWith, Without
  <2>12. IsCritical(e) =>
           \A t \in DOMAIN b.index : t \in DOMAIN r.index /\ r.index[t] = b.index[t]
    BY <2>3, <2>4, <2>7 DEF IsIndexed
  <2>13. QED
    BY <2>8, <2>9, <2>10, <2>11, <2>12 DEF SettlesOne
<1>9. QED
  BY <1>7, <1>8

LEMMA GivenUpSettles ==
  ASSUME NEW L, NEW R, NEW f, NEW s, NEW m, NEW b, Settling(L, R, f, s, m, b),
         NEW e, e = s[m + 1], NEW r, r = DeadLetter(b, e.id)
  PROVE  SettlesOne(L, b, e, FALSE, r)
<1> DEFINE p == TypesOf(L)
           id == e.id
           w == WithRetry(Current(b, id))
<1>1. /\ Publications(p) /\ BoxOK(b, p) /\ Shape(b, p) /\ id \in DOMAIN b.events
      /\ b.events[id].id = id
      /\ WellFormed(p, b.events[id])
  BY SettlingIs
<1>2. w.id = id
  BY <1>1 DEF WithRetry, Current, WellFormed
<1> HIDE DEF p, w
<1>3. /\ r.ready = b.ready /\ r.retained = b.retained
      /\ r.events = Without(b.events, id) /\ r.index = Unindexed(b, w)
  BY <1>1 DEF DeadLetter, Shape, IsBox, w
<1>4. \A t \in DOMAIN b.index : b.index[t] # id => t \in DOMAIN r.index /\ r.index[t] = b.index[t]
  BY <1>2, <1>3 DEF Unindexed, Without
<1>5. QED
  BY <1>3, <1>4 DEF SettlesOne, Without

LEMMA SettledOne ==
  ASSUME RecordsInv, NEW m, NEW b, Settling(log, rows, failures, writing, m, b),
         NEW e, e = writing[m + 1], NEW r, r = Settled(b, e)
  PROVE  SettlesOne(log, b, e, Written(e), r)
<1>1. m + 1 \in DOMAIN writing
  BY DEF Settling
<1>2. CASE Written(e)
  <2>1. r = Ack(b, e.id)
    BY <1>2 DEF Settled
  <2>2. SettlesOne(log, b, e, TRUE, r)
    BY <2>1, AckSettles
  <2>3. QED
    BY <1>2, <2>2 DEF SettlesOne
<1>3. CASE ~Written(e)
  <2>1. Excused(log, rows, failures, e, e.retry + 1)
    BY <1>1, <1>3, FailedTry
  <2>2. SettlesOne(log, b, e, FALSE, r)
    <3>1. CASE e.retry < MaxRetryCount
      <4>1. r = Retried(b, e.id)
        BY <1>3, <3>1 DEF Settled
      <4>2. QED
        BY <2>1, <3>1, <4>1, RetrySettles
    <3>2. CASE ~(e.retry < MaxRetryCount)
      <4>1. r = DeadLetter(b, e.id)
        BY <1>3, <3>2 DEF Settled
      <4>2. QED
        BY <4>1, GivenUpSettles
    <3>3. QED
      BY <3>1, <3>2
  <2>3. QED
    BY <1>3, <2>2 DEF SettlesOne
<1>4. QED
  BY <1>2, <1>3

\* The first m events of the batch s are settled, those in F without being written:
\* what the outbox b has become.
SettledAs(L, b, s, F, m, r) ==
  /\ \A j \in DOMAIN b.ready : j \in DOMAIN r.ready /\ r.ready[j] = b.ready[j]
  /\ \A j \in DOMAIN r.ready :
       \/ j \in DOMAIN b.ready
       \/ /\ r.ready[j].prio = PriorityOf[L[r.ready[j].id].typ]
          /\ r.ready[j].id \in DOMAIN b.retained \union F
  /\ \A i \in DOMAIN r.events :
       i \in DOMAIN b.events /\ (r.events[i] = b.events[i] \/ i \in F)
  /\ \A j \in DOMAIN s : j <= m /\ s[j].id \in DOMAIN r.events =>
       s[j].id \in F /\ r.events[s[j].id].retry # 0
  /\ \A i \in DOMAIN b.events : ~InBatch(s, i) => i \in DOMAIN r.events
  /\ \A i \in DOMAIN r.retained : i \in DOMAIN b.retained
  /\ (\A j \in DOMAIN s : s[j].id \notin F \/ IsCritical(s[j])) =>
       \A t \in DOMAIN b.index :
         ~InBatch(s, b.index[t]) => t \in DOMAIN r.index /\ r.index[t] = b.index[t]

\* One more.
LEMMA SettledAsOne ==
  ASSUME NEW L, NEW b, NEW s, NEW F, NEW m \in Nat, m + 1 \in DOMAIN s, DOMAIN s \subseteq Nat,
         Distinct(s),
         NEW c, SettledAs(L, b, s, F, m, c), NEW e, e = s[m + 1], NEW wr, wr \/ e.id \in F,
         e.id \in F => ~wr,
         NEW r, SettlesOne(L, c, e, wr, r)
  PROVE  SettledAs(L, b, s, F, m + 1, r)
<1>0. e.id \in F <=> ~wr
  OBVIOUS
<1>1. \A j \in DOMAIN b.ready : j \in DOMAIN r.ready /\ r.ready[j] = b.ready[j]
  BY DEF SettledAs, SettlesOne
<1>2. ASSUME NEW j \in DOMAIN r.ready, j \notin DOMAIN b.ready
      PROVE  /\ r.ready[j].prio = PriorityOf[L[r.ready[j].id].typ]
             /\ r.ready[j].id \in DOMAIN b.retained \union F
  <2>1. CASE j \in DOMAIN c.ready
    BY <1>2, <2>1 DEF SettledAs, SettlesOne
  <2>2. CASE j \notin DOMAIN c.ready
    <3>1. /\ r.ready[j].prio = PriorityOf[L[r.ready[j].id].typ]
          /\ r.ready[j].id \in DOMAIN c.retained \/ (~wr /\ r.ready[j].id = e.id)
      BY <2>2 DEF SettlesOne
    <3>2. \A i \in DOMAIN c.retained : i \in DOMAIN b.retained
      BY DEF SettledAs
    <3>3. QED
      BY <1>0, <3>1, <3>2
  <2>3. QED
    BY <2>1, <2>2
<1>3. ASSUME NEW i \in DOMAIN r.events
      PROVE  /\ i \in DOMAIN c.events /\ i \in DOMAIN b.events
             /\ r.events[i] = b.events[i] \/ i \in F
             /\ i = e.id => ~wr /\ r.events[i].retry # 0
             /\ i # e.id => r.events[i] = c.events[i]
  <2>1. /\ i \in DOMAIN c.events /\ (r.events[i] = c.events[i] \/ (~wr /\ i = e.id))
        /\ i = e.id => ~wr /\ r.events[i].retry # 0
    BY DEF SettlesOne
  <2>2. i \in DOMAIN b.events /\ (c.events[i] = b.events[i] \/ i \in F)
    BY <2>1 DEF SettledAs
  <2>3. QED
    BY <1>0, <2>1, <2>2
<1>4. ASSUME NEW j \in DOMAIN s, j <= m + 1, s[j].id \in DOMAIN r.events
      PROVE  s[j].id \in F /\ r.events[s[j].id].retry # 0
  <2>1. CASE s[j].id = e.id
    BY <1>0, <1>3, <1>4, <2>1
  <2>2. CASE s[j].id # e.id
    <3>1. j # m + 1 /\ j \in Nat
      BY <2>2
    <3>2. j <= m
      BY <1>4, <3>1
    <3>3. s[j].id \in DOMAIN c.events /\ r.events[s[j].id] = c.events[s[j].id]
      BY <1>3, <1>4, <2>2
    <3>4. QED
      BY <3>2, <3>3 DEF SettledAs
  <2>3. QED
    BY <2>1, <2>2
<1>5. InBatch(s, e.id)
  BY DEF InBatch
<1>6. \A i \in DOMAIN b.events : ~InBatch(s, i) => i \in DOMAIN r.events
  BY <1>5 DEF SettledAs, SettlesOne
<1>7. \A i \in DOMAIN r.retained : i \in DOMAIN b.retained
  BY DEF SettledAs, SettlesOne
<1>8. ASSUME \A j \in DOMAIN s : s[j].id \notin F \/ IsCritical(s[j]),
             NEW t \in DOMAIN b.index, ~InBatch(s, b.index[t])
      PROVE  t \in DOMAIN r.index /\ r.index[t] = b.index[t]
  <2>1. wr \/ IsCritical(e)
    BY <1>0, <1>8
  <2>2. t \in DOMAIN c.index /\ c.index[t] = b.index[t]
    BY <1>8 DEF SettledAs
  <2>3. c.index[t] # e.id
    BY <1>5, <1>8, <2>2
  <2>4. QED
    BY <2>1, <2>2, <2>3 DEF SettlesOne
<1>9. QED
  BY <1>1, <1>2, <1>3, <1>4, <1>6, <1>7, <1>8 DEF SettledAs

\* The events of the batch that are not written.
Missed == {writing[j].id : j \in {n \in DOMAIN writing : ~Written(writing[n])}}

LEMMA AllSettledAs ==
  ASSUME RecordsInv, NEW r, r = SettledAll(outbox, writing)
  PROVE  SettledAs(log, outbox, writing, Missed, Len(writing), r)
<1>1. /\ LogOK(log) /\ BoxSound(outbox, log, rows, failures) /\ Roomy(outbox, Len(writing), log)
      /\ writing \in Seq(EventsOf(TypesOf(log))) /\ Distinct(writing)
      /\ InHand(writing, 0, outbox, log, rows, failures)
  BY DEF RecordsInv, WritingOK
<1> DEFINE n == Len(writing)
<1>2. n \in Nat /\ DOMAIN writing = 1..n /\ n - 0 = n /\ n - n = 0
  BY <1>1
<1>3. \E g : SettleRun(outbox, writing, g)
  BY <1>2, SettledAllRun
<1>4. PICK g : SettleRun(outbox, writing, g)
  BY <1>3
<1> DEFINE P(i) == /\ SettledTo(log, rows, failures, writing, i, g[i])
                   /\ SettledAs(log, outbox, writing, Missed, i, g[i])
           B == {i \in 0..n : ~P(i)}
<1>5. P(0)
  <2>1. SettledTo(log, rows, failures, writing, 0, g[0])
    BY <1>1, <1>2, <1>4 DEF SettleRun, SettledTo, Sound
  <2>2. g[0] = outbox /\ \A j \in DOMAIN writing : ~(j <= 0)
    BY <1>2, <1>4 DEF SettleRun
  <2>3. QED
    BY <2>1, <2>2 DEF SettledAs
<1>6. ASSUME NEW i \in 1..n, P(i - 1)
      PROVE  P(i)
  <2>1. i - 1 \in Nat /\ (i - 1) + 1 = i /\ i \in DOMAIN writing /\ DOMAIN writing \subseteq Nat
    BY <1>2
  <2>2. g[i] = Settled(g[i - 1], writing[i])
    BY <1>4 DEF SettleRun
  <2>3. Settling(log, rows, failures, writing, i - 1, g[i - 1])
    BY <1>1, <1>6, <2>1 DEF Settling, SettledTo
  <2>4. SettledTo(log, rows, failures, writing, i, g[i])
    BY <2>1, <2>2, <2>3, OneSettled
  <2>5. SettlesOne(log, g[i - 1], writing[i], Written(writing[i]), g[i])
    BY <2>1, <2>2, <2>3, SettledOne
  <2>6. writing[i].id \in Missed <=> ~Written(writing[i])
    <3>1. \A j \in DOMAIN writing : writing[j].id = writing[i].id => j = i
      BY <1>1, <2>1 DEF Distinct
    <3>2. QED
      BY <2>1, <3>1 DEF Missed
  <2> DEFINE c == g[i - 1]
             h == g[i]
             wr == Written(writing[i])
             k == i - 1
             e == writing[i]
  <2>7. /\ k \in Nat /\ k + 1 \in DOMAIN writing /\ DOMAIN writing \subseteq Nat /\ Distinct(writing)
        /\ SettledAs(log, outbox, writing, Missed, k, c) /\ e = writing[k + 1]
        /\ (wr \/ e.id \in Missed) /\ (e.id \in Missed => ~wr)
        /\ SettlesOne(log, c, e, wr, h) /\ k + 1 = i
    BY <1>1, <1>6, <2>1, <2>5, <2>6
  <2> HIDE DEF c, h, wr, k, e
  <2>8. SettledAs(log, outbox, writing, Missed, k + 1, h)
    BY <2>7, SettledAsOne
  <2>9. QED
    BY <2>4, <2>7, <2>8 DEF h
<1>7. P(n)
  <2>1. B \subseteq 0..n /\ 0 \notin B
    BY <1>2, <1>5
  <2>2. ASSUME NEW i \in 1..n, i \in B  PROVE i - 1 \in B
    <3>1. i - 1 \in 0..n
      BY <1>2
    <3>2. QED
      BY <1>6, <2>2, <3>1
  <2>3. n \in 0..n
    BY <1>2
  <2>4. \A i \in 1..n : i \in B => i - 1 \in B
    BY <2>2
  <2> HIDE DEF B
  <2>5. B = {}
    BY <1>2, <2>1, <2>4, Walk
  <2>6. QED
    BY <2>3, <2>5 DEF B
<1>8. r = g[n]
  BY <1>4 DEF SettleRun
<1>9. QED
  BY <1>7, <1>8

\* Without a failure only orders that are too late, and balances, are not written.
LEMMA CleanMisses ==
  ASSUME RecordsInv, Clean
  PROVE  /\ \A i \in Missed : log[i].typ \in {"order", "balance"}
         /\ \A j \in DOMAIN writing :
              writing[j].id \notin Missed \/ IsCritical(writing[j])
<1>1. ASSUME NEW j \in DOMAIN writing, ~Written(writing[j])
      PROVE  writing[j].typ \in {"order", "balance"}
  <2>1. Excused(log, rows, failures, writing[j], writing[j].retry + 1)
    BY <1>1, FailedTry
  <2>2. writing[j].retry \in Nat /\ failures = 0
    BY WritingIs DEF Clean
  <2>3. ~(failures >= writing[j].retry + 1)
    BY <2>2
  <2>4. QED
    BY <2>1, <2>3 DEF Excused, Beaten
<1>2. \A j \in DOMAIN writing : writing[j].typ = log[writing[j].id].typ /\ writing[j].typ \in Types
  <2>1. TAKE j \in DOMAIN writing
  <2>2. writing[j].id \in DOMAIN log
    BY WritingIs
  <2>3. j > 0 /\ InHand(writing, 0, outbox, log, rows, failures) /\ LogOK(log)
    BY BatchInHand DEF Sound
  <2>4. WellFormed(TypesOf(log), writing[j])
    BY <2>3 DEF InHand
  <2>5. QED
    BY <2>2, <2>3, <2>4, LogFacts DEF WellFormed
<1>3. ASSUME NEW i \in Missed  PROVE log[i].typ \in {"order", "balance"}
  <2>1. PICK j \in DOMAIN writing : ~Written(writing[j]) /\ writing[j].id = i
    BY DEF Missed
  <2>2. QED
    BY <1>1, <1>2, <2>1
<1>4. ASSUME NEW j \in DOMAIN writing, writing[j].id \in Missed
      PROVE  IsCritical(writing[j])
  <2>1. writing[j].typ \in {"order", "balance"} /\ writing[j].typ \in Types
    BY <1>2, <1>3, <1>4
  <2>2. PriorityOf[writing[j].typ] = 0
    BY <2>1, RecordPriorities
  <2>3. QED
    BY <2>2 DEF IsCritical
<1>5. QED
  BY <1>3, <1>4

\* Of the queue, what is fresh once all is settled was there before.
LEMMA SettledInTurn ==
  ASSUME NEW L, LogOK(L), NEW R, NEW f, NEW b, BoxSound(b, L, R, f),
         NEW r, BoxSound(r, L, R, f), NEW s, InTurn(s, b, L), NEW F, \A i \in F : InBatch(s, i),
         NEW m, \A j \in DOMAIN s : j <= m, SettledAs(L, b, s, F, m, r)
  PROVE  InTurn(<<>>, r, L)
<1>1. ASSUME NEW i, Fresh(r, i)
      PROVE  Fresh(b, i) /\ ~InBatch(s, i) /\ i \notin F
  <2>1. i \in DOMAIN r.events /\ r.events[i].retry = 0 /\ IsCritical(r.events[i])
    BY <1>1 DEF Fresh
  <2>2. ~InBatch(s, i)
    BY <2>1 DEF SettledAs, InBatch
  <2>3. i \notin F
    BY <2>2
  <2>4. QED
    BY <2>1, <2>2, <2>3 DEF SettledAs, Fresh
<1>2. /\ \A i \in DOMAIN b.retained : ~IsCritical(L[i])
      /\ \A i \in DOMAIN r.events : IsCritical(r.events[i]) <=> IsCritical(L[i])
  BY BoxFacts
<1>3. ASSUME NEW j \in DOMAIN r.ready, Fresh(r, r.ready[j].id)
      PROVE  j \in DOMAIN b.ready /\ r.ready[j] = b.ready[j] /\ Fresh(b, r.ready[j].id)
  <2>1. r.ready[j].id \notin F /\ Fresh(b, r.ready[j].id)
    BY <1>1, <1>3
  <2>2. r.ready[j].id \notin DOMAIN b.retained
    BY <1>2, <1>3 DEF Fresh
  <2>3. QED
    BY <2>1, <2>2 DEF SettledAs
<1>4. Turns(b.ready, b) /\ Priced(b, L)
  BY DEF InTurn
<1>5. Turns(r.ready, r)
  BY <1>3, <1>4 DEF Turns
<1>6. Priced(r, L)
  <2>1. SUFFICES ASSUME NEW j \in DOMAIN r.ready
                 PROVE  r.ready[j].prio = PriorityOf[L[r.ready[j].id].typ]
    BY DEF Priced
  <2>2. CASE j \in DOMAIN b.ready
    BY <1>4, <2>2 DEF SettledAs, Priced
  <2>3. CASE j \notin DOMAIN b.ready
    BY <2>3 DEF SettledAs
  <2>4. QED
    BY <2>2, <2>3
<1>7. QED
  BY <1>5, <1>6 DEF InTurn, Turns, Ahead

\* What comes back to the queue is of low priority, an order or a balance.
LEMMA SettledWaits ==
  ASSUME NEW L, LogOK(L), NEW R, NEW f, NEW b, BoxSound(b, L, R, f),
         NEW s, NEW F, \A i \in F : L[i].typ \in {"order", "balance"},
         NEW m, NEW r, SettledAs(L, b, s, F, m, r)
  PROVE  /\ \A i : InReady(b, i) => InReady(r, i)
         /\ \A i \in DOMAIN L : InReady(r, i) =>
              \/ InReady(b, i)
              \/ i \in DOMAIN b.retained
              \/ L[i].typ \in {"order", "balance"}
         /\ \A i \in DOMAIN b.retained : L[i].typ \notin {"order", "fill", "position", "balance"}
<1>1. \A i : InReady(b, i) => InReady(r, i)
  BY DEF SettledAs, InReady
<1>2. \A i \in DOMAIN L : InReady(r, i) =>
        InReady(b, i) \/ i \in DOMAIN b.retained \/ L[i].typ \in {"order", "balance"}
  BY DEF SettledAs, InReady
<1>3. \A i \in DOMAIN b.retained : ~IsCritical(L[i]) /\ L[i].typ \in Types
  BY BoxFacts, LogFacts
<1>4. \A t \in Types : t \in {"order", "fill", "position", "balance"} => PriorityOf[t] = 0
  BY RecordPriorities
<1>5. \A i \in DOMAIN b.retained : L[i].typ \notin {"order", "fill", "position", "balance"}
  BY <1>3, <1>4 DEF IsCritical
<1>6. QED
  BY <1>1, <1>2, <1>5

LEMMA SettledStillWaits ==
  ASSUME NEW L, LogOK(L), NEW R, NEW f, NEW b, BoxSound(b, L, R, f),
         NEW s, NEW F, \A i \in F : L[i].typ \in {"order", "balance"},
         NEW m, NEW r, SettledAs(L, b, s, F, m, r)
  PROVE  StillWaits(L, b, s, 7, L, r, <<>>, 0)
<1>1. /\ \A i : InReady(b, i) => InReady(r, i)
      /\ \A i \in DOMAIN L : InReady(r, i) =>
           \/ InReady(b, i)
           \/ i \in DOMAIN b.retained
           \/ L[i].typ \in {"order", "balance"}
      /\ \A i \in DOMAIN b.retained : L[i].typ \notin {"order", "fill", "position", "balance"}
  BY SettledWaits
<1>2. /\ \A i : Waits(b, s, 7, 3, i) <=> InReady(b, i)
      /\ \A i : Waits(b, s, 7, 4, i) <=> InReady(b, i)
      /\ \A i : Waits(b, s, 7, 5, i) <=> InReady(b, i)
      /\ \A i, l : Waits(r, <<>>, 0, l, i) <=> InReady(r, i)
  BY DEF Waits, InBatch
<1>3. \A i \in DOMAIN L : L[i].typ \in {"fill", "position"} => (InReady(r, i) <=> InReady(b, i))
  BY <1>1
<1>4. QED
  BY <1>1, <1>2, <1>3 DEF StillWaits

\* The market's.
LEMMA SettledMarket ==
  ASSUME NEW L, LogOK(L), NEW R, NEW f, NEW b, BoxSound(b, L, R, f),
         NEW r, BoxSound(r, L, R, f),
         NEW s, NEW F, \A i \in F : L[i].typ \in {"order", "balance"} /\ InBatch(s, i),
         \A j \in DOMAIN s : s[j].id \notin F \/ IsCritical(s[j]),
         NEW m, \A j \in DOMAIN s : j <= m, SettledAs(L, b, s, F, m, r),
         NEW g, MarketFollows(L, b, s, 7, R, g)
  PROVE  MarketFollows(L, r, <<>>, 0, R, g)
<1>1. /\ DOMAIN b.retained = {}
      /\ \A i \in DOMAIN b.events : ~IsCritical(b.events[i]) =>
           /\ b.events[i].ver = i
           /\ b.events[i].typ \in DOMAIN b.index /\ b.index[b.events[i].typ] = i
      /\ \A j \in DOMAIN b.ready : ~IsCritical(L[b.ready[j].id]) =>
           /\ b.ready[j].id \in DOMAIN b.events
           /\ ~InBatch(s, b.ready[j].id)
           /\ Once(b, b.ready[j].id)
  BY DEF MarketFollows, Apart
<1>2. /\ \A i \in DOMAIN r.events : i \in DOMAIN L /\ (IsCritical(r.events[i]) <=> IsCritical(L[i]))
      /\ \A j \in DOMAIN r.ready : r.ready[j].id \in DOMAIN L
  BY BoxFacts
<1>3. \A i \in DOMAIN L : L[i].typ \in {"order", "balance"} => IsCritical(L[i])
  <2>1. \A i \in DOMAIN L : L[i].typ \in Types
    BY LogFacts
  <2>2. QED
    BY <2>1, RecordPriorities DEF IsCritical
<1>4. ASSUME NEW i \in DOMAIN r.events, ~IsCritical(r.events[i])
      PROVE  /\ i \in DOMAIN b.events /\ r.events[i] = b.events[i] /\ ~InBatch(s, i)
             /\ i \in DOMAIN b.events
  <2>1. i \notin F
    BY <1>2, <1>3, <1>4
  <2>2. ~InBatch(s, i)
    BY <2>1 DEF SettledAs, InBatch
  <2>3. QED
    BY <2>1, <2>2 DEF SettledAs
<1>5. ASSUME NEW i \in DOMAIN r.events, ~IsCritical(r.events[i])
      PROVE  /\ r.events[i].ver = i
             /\ r.events[i].typ \in DOMAIN r.index /\ r.index[r.events[i].typ] = i
  <2>1. /\ b.events[i].ver = i /\ b.events[i].typ \in DOMAIN b.index
        /\ b.index[b.events[i].typ] = i
    BY <1>1, <1>4, <1>5
  <2>2. \A t \in DOMAIN b.index :
          ~InBatch(s, b.index[t]) => t \in DOMAIN r.index /\ r.index[t] = b.index[t]
    BY DEF SettledAs
  <2>3. QED
    BY <1>4, <1>5, <2>1, <2>2
<1>6. ASSUME NEW j \in DOMAIN r.ready, ~IsCritical(L[r.ready[j].id])
      PROVE  j \in DOMAIN b.ready /\ r.ready[j] = b.ready[j]
  <2>1. r.ready[j].id \notin F /\ r.ready[j].id \notin DOMAIN b.retained
    BY <1>1, <1>2, <1>3, <1>6
  <2>2. QED
    BY <2>1 DEF SettledAs
<1>7. ASSUME NEW j \in DOMAIN r.ready, ~IsCritical(L[r.ready[j].id])
      PROVE  /\ r.ready[j].id \in DOMAIN r.events
             /\ Once(r, r.ready[j].id)
  <2>1. /\ j \in DOMAIN b.ready /\ r.ready[j] = b.ready[j]
    BY <1>6, <1>7
  <2>2. /\ r.ready[j].id \in DOMAIN b.events /\ ~InBatch(s, r.ready[j].id)
        /\ Once(b, r.ready[j].id)
    BY <1>1, <1>7, <2>1
  <2>3. r.ready[j].id \in DOMAIN r.events
    BY <2>2 DEF SettledAs
  <2>4. Once(r, r.ready[j].id)
    BY <1>6, <1>7, <2>2 DEF Once
  <2>5. QED
    BY <2>3, <2>4
<1>8. DOMAIN r.retained = {}
  BY <1>1 DEF SettledAs
<1>9. Apart(<<>>, r, L)
  BY <1>5, <1>7, <1>8 DEF Apart, InBatch
<1>10. Paused(<<>>, r, L, g)
  <2>1. Paused(s, b, L, g)
    BY DEF MarketFollows
  <2>2. \A i : Pausing(r, L, i) => Pausing(b, L, i)
    BY DEF Pausing, SettledAs
  <2>3. QED
    BY <2>1, <2>2 DEF Paused, InBatch
<1>11. OldFirst(<<>>)
  BY DEF OldFirst
<1>12. Wait(ListingsOf(L), r, <<>>, 0, 2) = Wait(ListingsOf(L), b, s, 7, 2)
  <2>1. /\ \A i : InReady(b, i) => InReady(r, i)
        /\ \A i \in DOMAIN L : InReady(r, i) =>
             \/ InReady(b, i)
             \/ i \in DOMAIN b.retained
             \/ L[i].typ \in {"order", "balance"}
    <3>1. \A i \in F : L[i].typ \in {"order", "balance"}
      OBVIOUS
    <3>2. QED
      BY <3>1, SettledWaits
  <2>2. \A i \in ListingsOf(L) : InReady(r, i) <=> InReady(b, i)
    BY <1>1, <2>1 DEF ListingsOf, MarketTypes
  <2>3. /\ \A i : Waits(b, s, 7, 2, i) <=> InReady(b, i)
        /\ \A i : Waits(r, <<>>, 0, 2, i) <=> InReady(r, i)
    BY DEF Waits, InBatch
  <2>4. QED
    BY <2>2, <2>3 DEF Wait
<1>13. Follows(L, ListingsOf(L), Wait(ListingsOf(L), r, <<>>, 0, 2), R.market, Absent)
  BY <1>12 DEF MarketFollows
<1>14. QED
  BY <1>9, <1>10, <1>11, <1>13 DEF MarketFollows

LEMMA SettleFollows ==
  ASSUME RecordsInv, FollowInv, Settle
  PROVE  FollowInv'
<1>1. /\ UNCHANGED <<log, rows, listing, failures, crashes, merged>>
      /\ kind = 7
      /\ outbox' = SettledAll(outbox, writing)
      /\ writing' = <<>> /\ kind' = 0
  BY KindOrderIs DEF Settle
<1> DEFINE r == outbox'
           F == Missed
           m == Len(writing)
<1>2. /\ SettledAs(log, outbox, writing, F, m, r)
      /\ BoxSound(r, log, rows, failures)
  BY <1>1, AllSettledAs, AllSettled
<1>3. /\ LogOK(log) /\ BoxSound(outbox, log, rows, failures)
      /\ \A j \in DOMAIN writing : j <= m
  BY BatchInHand DEF Sound
<1>4. \A i \in F : InBatch(writing, i)
  BY DEF Missed, InBatch
<1>5. ASSUME Clean
      PROVE  /\ \A i \in F : log[i].typ \in {"order", "balance"}
             /\ \A j \in DOMAIN writing : writing[j].id \notin F \/ IsCritical(writing[j])
  BY <1>5, CleanMisses
<1>6. InTurn(writing, outbox, log)
  BY DEF FollowInv
<1> HIDE DEF r, F, m
<1>7. InTurn(<<>>, r, log)
  BY <1>2, <1>3, <1>4, <1>6, SettledInTurn
<1>8. Clean' <=> Clean
  BY <1>1 DEF Clean
<1>9. ASSUME Clean  PROVE AccountFollows(log, r, <<>>, 0, rows)
  <2>1. StillWaits(log, outbox, writing, 7, log, r, <<>>, 0)
    BY <1>2, <1>3, <1>5, <1>9, SettledStillWaits
  <2>2. AccountFollows(log, outbox, writing, 7, rows)
    BY <1>1, <1>9 DEF FollowInv
  <2>3. Extends(log, log)
    BY DEF Extends
  <2>4. QED
    BY <1>3, <2>1, <2>2, <2>3, AccountKept
<1>10. ASSUME Clean, ~merged  PROVE MarketFollows(log, r, <<>>, 0, rows, listing)
  <2>1. MarketFollows(log, outbox, writing, 7, rows, listing)
    BY <1>1, <1>10 DEF FollowInv
  <2>2. \A i \in F : log[i].typ \in {"order", "balance"} /\ InBatch(writing, i)
    BY <1>4, <1>5, <1>10
  <2>3. \A j \in DOMAIN writing : writing[j].id \notin F \/ IsCritical(writing[j])
    BY <1>5, <1>10
  <2>4. QED
    BY <1>2, <1>3, <2>1, <2>2, <2>3, SettledMarket
<1>11. QED
  <2>1. FollowAt(log, r, <<>>, 0, rows, listing, Clean, Clean /\ ~merged)
    BY <1>7, <1>9, <1>10 DEF FollowAt
  <2>2. FollowAt(log', outbox', writing', kind', rows', listing', Clean', Clean' /\ ~merged')
    BY <1>1, <1>8, <2>1 DEF r
  <2>3. QED
    BY <2>2 DEF FollowAt, FollowInv

--------------------------------------------------------------------------------
(* The tables follow the log. *)

LEMMA InitFollowInv == RecordsInit => FollowInv
<1> SUFFICES ASSUME RecordsInit  PROVE FollowInv
  OBVIOUS
<1>1. /\ log = <<>> /\ writing = <<>> /\ outbox = EmptyOutbox
      /\ rows = [order |-> [o \in Orders |-> NoRow], fill |-> [t \in AllTrades |-> Absent],
                 position |-> NoPosition, market |-> Absent, audit |-> {}, outbox |-> {}]
  BY DEF RecordsInit
<1>2. /\ DOMAIN log = {} /\ DOMAIN writing = {} /\ DOMAIN outbox.ready = {}
      /\ DOMAIN outbox.events = {} /\ DOMAIN outbox.retained = {}
  BY <1>1 DEF EmptyOutbox
<1>3. /\ \A t \in AllTrades : rows.fill[t] = Absent
      /\ \A o \in Orders : rows.order[o] = NoRow
      /\ rows.position = NoPosition /\ rows.market = Absent
  BY <1>1
<1>4. InTurn(writing, outbox, log)
  BY <1>2 DEF InTurn, Turns, Ahead, Priced
<1>5. /\ \A t : FillsOf(log, t) = {}
      /\ \A o : OrdersOf(log, o) = {}
      /\ PositionsOf(log) = {} /\ ListingsOf(log) = {}
  BY <1>2 DEF FillsOf, OrdersOf, PositionsOf, ListingsOf
<1>6. \A v : Follows(log, {}, Wait({}, outbox, writing, kind, 4), v, v)
      /\ Follows(log, {}, Wait({}, outbox, writing, kind, 5), v, v)
      /\ Follows(log, {}, Wait({}, outbox, writing, kind, 2), v, v)
  BY DEF Follows
<1>7. KeepsFirst(log, {}, Wait({}, outbox, writing, kind, 3), NoRow)
  BY DEF KeepsFirst, Wait
<1>8. AccountFollows(log, outbox, writing, kind, rows)
  BY <1>3, <1>5, <1>6, <1>7 DEF AccountFollows
<1>9. Apart(writing, outbox, log) /\ Paused(writing, outbox, log, listing) /\ OldFirst(writing)
  BY <1>2 DEF Apart, Paused, OldFirst
<1>10. MarketFollows(log, outbox, writing, kind, rows, listing)
  BY <1>3, <1>5, <1>6, <1>9 DEF MarketFollows
<1>11. QED
  BY <1>4, <1>8, <1>10 DEF FollowInv

\* A crash leaves an empty queue, and is counted.
LEMMA CrashFollows ==
  ASSUME RecordsInv, Crash
  PROVE  FollowInv'
<1>1. /\ crashes' = crashes + 1 /\ writing' = <<>>
      /\ outbox' = [EmptyOutbox EXCEPT !.dead = outbox.dead]
  BY DEF Crash
<1>2. DOMAIN writing' = {} /\ DOMAIN outbox'.ready = {}
  BY <1>1 DEF EmptyOutbox
<1>3. crashes' # 0
  BY <1>1 DEF RecordsInv, StoreOK
<1>4. InTurn(writing, outbox, log)'
  BY <1>2 DEF InTurn, Turns, Ahead, Priced
<1>5. QED
  BY <1>3, <1>4 DEF FollowInv, Clean

\* The process is down only after a crash.
LEMMA RestartFollows ==
  ASSUME RecordsInv, FollowInv, Restart
  PROVE  FollowInv'
<1>1. /\ ~up /\ UNCHANGED <<log, outbox, writing, failures, crashes>>
  BY DEF Restart, worker, history
<1>2. crashes' # 0
  BY <1>1 DEF RecordsInv, StoreOK
<1>3. InTurn(writing, outbox, log)'
  BY <1>1 DEF FollowInv, InTurn, Turns, Ahead, Priced, Fresh
<1>4. QED
  BY <1>2, <1>3 DEF FollowInv, Clean

\* Nothing else touches what the tables follow.
LEMMA ElseFollows ==
  ASSUME FollowInv, UNCHANGED <<log, outbox, writing, kind, rows, listing, failures, crashes, merged>>
  PROVE  FollowInv'
<1>1. Clean' <=> Clean
  BY DEF Clean
<1>2. FollowAt(log, outbox, writing, kind, rows, listing, Clean, Clean /\ ~merged)
  BY FollowInvIs
<1>3. FollowAt(log', outbox', writing', kind', rows', listing', Clean', Clean' /\ ~merged')
  BY <1>1, <1>2
<1>4. QED
  BY <1>3 DEF FollowAt, FollowInv

LEMMA NextFollows ==
  ASSUME RecordsInv, FollowInv, [RecordsNext]_recordsVars
  PROVE  FollowInv'
<1>1. CASE \E o \in Orders : Place(o) \/ Match(o) \/ Cancel(o)
  BY <1>1, OrderFollows
<1>2. CASE \E t \in AllTrades, s \in {"matched", "confirmed"} : TradeReported(t, s)
  BY <1>2, TradeFollows
<1>3. CASE PositionReported \/ BalanceReported
  BY <1>3, SnapshotFollows
<1>4. CASE MarketDiscovered \/ MarketUpdated \/ MarketFilteredOut \/ MarketResolved
  BY <1>4, MarketStepFollows
<1>5. CASE PersistStep
  BY <1>5, TakeBatchFollows, WriteKindFollows, SettleFollows DEF PersistStep
<1>6. CASE Crash
  BY <1>6, CrashFollows
<1>7. CASE Restart
  BY <1>7, RestartFollows
<1>8. CASE ReconcileAsks
  BY <1>8, ElseFollows DEF ReconcileAsks, worker, history
<1>9. CASE \E answered \in SUBSET Calls : ReconcileApplies(answered)
  BY <1>9, ElseFollows DEF ReconcileApplies, worker, history
<1>10. CASE UNCHANGED recordsVars
  BY <1>10, ElseFollows DEF recordsVars, worker, history
<1>11. QED
  BY <1>1, <1>2, <1>3, <1>4, <1>5, <1>6, <1>7, <1>8, <1>9, <1>10 DEF RecordsNext

\* With nothing left to be written the row is that of the newest event,
LEMMA FollowsNewest ==
  ASSUME NEW L, NEW S, S \subseteq Int, NEW v, NEW none, Follows(L, S, {}, v, none)
  PROVE  v = IF S = {} THEN none ELSE L[Max(S)].value
<1>1. CASE S = {}
  BY <1>1 DEF Follows
<1>2. CASE S # {}
  <2>1. PICK x \in S : v = L[x].value /\ \A m \in S : m <= x
    BY <1>2 DEF Follows
  <2>2. \A y \in S : (\A m \in S : y >= m) => y = x
    BY <2>1
  <2>3. Max(S) \in S /\ \A m \in S : Max(S) >= m
    BY <2>1 DEF Max
  <2>4. Max(S) = x
    BY <2>2, <2>3
  <2>5. QED
    BY <1>2, <2>1, <2>4
<1>3. QED
  BY <1>1, <1>2

\* and of an order that of the first.
LEMMA FirstIs ==
  ASSUME NEW L, NEW S, S \subseteq Nat \ {0}, NEW row, KeepsFirst(L, S, {}, row)
  PROVE  row = IF S = {} THEN NoRow ELSE [key |-> Min(S), status |-> L[Min(S)].value]
<1>1. CASE row = NoRow
  BY <1>1 DEF KeepsFirst
<1>2. CASE row # NoRow
  <2>1. PICK x \in S : row = [key |-> x, status |-> L[x].value] /\ \A m \in S : x <= m
    BY <1>2 DEF KeepsFirst
  <2>2. \A y \in S : (\A m \in S : y <= m) => y = x
    BY <2>1
  <2>3. Min(S) \in S /\ \A m \in S : Min(S) <= m
    BY <2>1 DEF Min
  <2>4. Min(S) = x
    BY <2>2, <2>3
  <2>5. QED
    BY <2>1, <2>4
<1>3. QED
  BY <1>1, <1>2

\* What the invariant says once nothing is ready.
LEMMA FollowInvRows ==
  ASSUME RecordsInv, FollowInv
  PROVE  RowsFollow
<1>1. SUFFICES ASSUME Quiet, Clean
               PROVE  /\ \A t \in AllTrades :
                           rows.fill[t] = Newest(PublishedOf("fill", t), Absent)
                      /\ rows.position = Newest(PublishedOf("position", "token"), NoPosition)
                      /\ \A o \in Orders :
                           rows.order[o] =
                             IF PublishedOf("order", o) = {} THEN NoRow
                             ELSE [key |-> Min(PublishedOf("order", o)),
                                   status |-> log[Min(PublishedOf("order", o))].value]
                      /\ ~merged =>
                           rows.market = Newest({n \in DOMAIN log :
                                                   /\ log[n].typ \in MarketTypes
                                                   /\ log[n].value # Absent}, Absent)
  BY DEF RowsFollow, Clean
<1>2. LogOK(log) /\ Publications(TypesOf(log)) /\ Shape(outbox, TypesOf(log))
      /\ DOMAIN log = 1..Len(log) /\ Len(log) \in Nat
  BY LogFacts DEF RecordsInv, BoxSound, BoxOK
<1>3. DOMAIN outbox.ready = {}
  <2> DEFINE r == Promote(outbox)
  <2>1. r.ready = <<>> /\ r = Promote(outbox)
    BY <1>1 DEF Quiet
  <2> HIDE DEF r
  <2>2. \A j \in DOMAIN outbox.ready : j \in DOMAIN r.ready
    BY <1>2, <2>1, PromoteIs
  <2>3. DOMAIN r.ready = {}
    BY <2>1
  <2>4. QED
    BY <2>2, <2>3
<1>4. \A S, l : Wait(S, outbox, writing, kind, l) = {}
  BY <1>1, <1>3 DEF Wait, Waits, InReady, InBatch, Quiet
<1>5. DOMAIN log \subseteq Nat \ {0} /\ DOMAIN log \subseteq Int
  BY <1>2
<1>6. AccountFollows(log, outbox, writing, kind, rows)
  BY <1>1 DEF FollowInv
<1>7. ASSUME NEW t \in AllTrades
      PROVE  rows.fill[t] = Newest(PublishedOf("fill", t), Absent)
  <2> DEFINE S == FillsOf(log, t)
  <2>1. Follows(log, S, {}, rows.fill[t], Absent)
    BY <1>4, <1>6 DEF AccountFollows
  <2>2. S \subseteq Int /\ S = PublishedOf("fill", t)
    BY <1>5 DEF FillsOf, PublishedOf
  <2> HIDE DEF S
  <2>3. rows.fill[t] = IF S = {} THEN Absent ELSE log[Max(S)].value
    BY <2>1, <2>2, FollowsNewest
  <2>4. QED
    BY <2>2, <2>3 DEF Newest
<1>8. rows.position = Newest(PublishedOf("position", "token"), NoPosition)
  <2> DEFINE S == PositionsOf(log)
  <2>1. Follows(log, S, {}, rows.position, NoPosition)
    BY <1>4, <1>6 DEF AccountFollows
  <2>2. S \subseteq Int /\ S = PublishedOf("position", "token")
    BY <1>5 DEF PositionsOf, PublishedOf
  <2> HIDE DEF S
  <2>3. rows.position = IF S = {} THEN NoPosition ELSE log[Max(S)].value
    BY <2>1, <2>2, FollowsNewest
  <2>4. QED
    BY <2>2, <2>3 DEF Newest
<1>9. ASSUME NEW o \in Orders
      PROVE  rows.order[o] =
               IF PublishedOf("order", o) = {} THEN NoRow
               ELSE [key |-> Min(PublishedOf("order", o)),
                     status |-> log[Min(PublishedOf("order", o))].value]
  <2> DEFINE S == OrdersOf(log, o)
  <2>1. KeepsFirst(log, S, {}, rows.order[o])
    BY <1>4, <1>6 DEF AccountFollows
  <2>2. S \subseteq Nat \ {0} /\ S = PublishedOf("order", o)
    BY <1>5 DEF OrdersOf, PublishedOf
  <2> HIDE DEF S
  <2>3. rows.order[o] = IF S = {} THEN NoRow ELSE [key |-> Min(S), status |-> log[Min(S)].value]
    BY <2>1, <2>2, FirstIs
  <2>4. QED
    BY <2>2, <2>3
<1>10. ASSUME ~merged
       PROVE  rows.market = Newest({n \in DOMAIN log : /\ log[n].typ \in MarketTypes
                                                      /\ log[n].value # Absent}, Absent)
  <2> DEFINE S == ListingsOf(log)
  <2>1. Follows(log, S, {}, rows.market, Absent)
    BY <1>1, <1>4, <1>10 DEF FollowInv, MarketFollows
  <2>2. S \subseteq Int /\ S = {n \in DOMAIN log : /\ log[n].typ \in MarketTypes
                                                  /\ log[n].value # Absent}
    BY <1>5 DEF ListingsOf
  <2> HIDE DEF S
  <2>3. rows.market = IF S = {} THEN Absent ELSE log[Max(S)].value
    BY <2>1, <2>2, FollowsNewest
  <2>4. QED
    BY <2>2, <2>3 DEF Newest
<1>11. QED
  BY <1>7, <1>8, <1>9, <1>10

\* With a database that refuses nothing by itself and a process that does not
\* crash, the tables have, once nothing is ready, the last status of every trade,
\* the last position, unless events were merged the last status of the market
\* that came with one, and of an order the status it was first reported with:
\* whatever the sizes of queue and batch, in whatever order events of different
\* priorities are taken, written kind by kind and tried again.
THEOREM RowsAlwaysFollow ==
  RecordsSpec => []RowsFollow
<1>1. RecordsInit => RecordsInv /\ FollowInv
  BY InitRecordsInv, InitFollowInv
<1>2. RecordsInv /\ FollowInv /\ [RecordsNext]_recordsVars => FollowInv'
  BY NextFollows
<1>3. RecordsInv /\ FollowInv => RowsFollow
  BY FollowInvRows
<1>4. RecordsSpec => []RecordsInv
  BY RecordsInvInvariant
<1>5. QED
  BY <1>1, <1>2, <1>3, <1>4, PTL DEF RecordsSpec

============================================================================
