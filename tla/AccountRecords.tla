---------------------------- MODULE AccountRecords ----------------------------
(***************************************************************************)
(* What the database keeps of the account, and what a restarted process    *)
(* gets back.  Messages of the user channel change the account store and   *)
(* publish events, the event bus hands them to the local outbox, the       *)
(* persistence worker writes each as records of several tables, table by   *)
(* table, and settles it.  The process may crash at any point; a restart   *)
(* loads the tables into the store, and the reconcile loop replaces what   *)
(* the exchange answers.                                                   *)
(*                                                                         *)
(* The outbox is LocalOutbox with room for everything: an event's payload  *)
(* is the publication its "ver" numbers in the log.  The batches and the   *)
(* timeouts of the worker are PersistenceWorker's subject: here it takes   *)
(* what is ready, and settles its batch in one step.  The theorems are in  *)
(* AccountRecords_proof.                                                   *)
(***************************************************************************)
EXTENDS LocalOutbox, UserMessages

CONSTANTS
  Orders,         \* orders of this account on the exchange
  Side,           \* "buy" or "sell", by order
  Size,           \* shares of each order
  Named,          \* do the trade messages name our order: a set of Booleans
  Texts,          \* do the order messages name a status: a set of Booleans
  Mixes,          \* bound of the model: event types that occur together
  MaxFaults       \* bound of the model: writes refused by the database, and crashes

\* The event types the sink lets through; the market types are
\* MARKET_DISCOVERED, MARKET_FILTERED_OUT and MARKET_RESOLVED_OR_DISABLED.
MarketTypes == {"discovered", "filtered_out", "resolved"}

RecordTypes == {"order", "fill", "position", "balance"} \union MarketTypes

ASSUME RecordsAssumption ==
  /\ Types = RecordTypes
  /\ \A t \in Types : PriorityOf[t] = IF t = "discovered" THEN 2
                                      ELSE IF t = "filtered_out" THEN 3 ELSE 0
  /\ Identified = Types \ {"balance"}
  /\ IsFiniteSet(Orders) /\ NoText \notin Orders
  /\ Side \in [Orders -> {"buy", "sell"}]
  /\ Size \in [Orders -> Nat \ {0}]
  /\ Mixes \subseteq SUBSET Types
  /\ Named \subseteq BOOLEAN /\ Texts \subseteq BOOLEAN
  /\ MaxFaults \in Nat
  /\ MaxSize >= MaxEvents /\ RetainedMaxSize >= MaxEvents

VARIABLES
  state, filled,  \* exchange: state and matched shares of each order
  trade,          \* exchange: status each trade was last reported with
  up,             \* the process runs
  account,        \* store: open orders by id, shares of the position
  listing,        \* registry: status of the one market, Absent without it
  asked,          \* what the exchange answered to a reconcile run under way
  log,            \* history: every publication, and the payload of the events
  outbox,         \* the outbox
  writing,        \* events the worker writes
  kind,           \* place in KindOrder of the kind it writes, 0 when idle
  failed,         \* <<id, kind>> of the records of the batch not written
  rows,           \* the tables
  acked,          \* history: <<id, ver>> of the events acknowledged
  failures,       \* history: writes the database refused by itself
  crashes,        \* history: crashes so far
  merged,         \* history: a market event was merged into a pending one
  mix             \* bound: the event types of this behaviour

exchange == <<state, filled, trade, mix>>
worker == <<writing, kind, failed>>
history == <<acked, failures, crashes, merged>>
recordsVars == <<exchange, up, account, listing, asked, log, outbox, worker, rows, history>>

NoRow == [key |-> 0, status |-> Absent]

\* The tables: one row for each order_id, trade, token, condition and event id.
OrderTable ==
  [Orders -> [key : 1..MaxEvents, status : OrderStatuses] \union {NoRow}]

NoPosition == -1

EmptyStore == [orders |-> [o \in Orders |-> Absent], shares |-> 0]

NotAsked == [orders |-> <<>>, shares |-> -1]

TradesOf(o) == {<<o, n>> : n \in 1..Size[o]}

AllTrades == UNION {TradesOf(o) : o \in Orders}

FillTable == [AllTrades -> {"matched", "confirmed", Absent}]

PositionTable == Nat \union {NoPosition}

MarketTable == {"eligible", "paused", Absent}

AuditTable == SUBSET (1..MaxEvents)

OutboxTable == SUBSET (1..MaxEvents)

RecordsInit ==
  /\ state = [o \in Orders |-> "none"]
  /\ filled = [o \in Orders |-> 0]
  /\ trade = [t \in AllTrades |-> "none"]
  /\ up = TRUE
  /\ account = EmptyStore
  /\ listing = Absent
  /\ asked = NotAsked
  /\ log = <<>>
  /\ outbox = EmptyOutbox
  /\ writing = <<>> /\ kind = 0 /\ failed = {}
  /\ rows = [order |-> [o \in Orders |-> NoRow],
             fill |-> [t \in AllTrades |-> Absent],
             position |-> NoPosition, market |-> Absent,
             audit |-> {}, outbox |-> {}]
  /\ acked = {} /\ failures = 0 /\ crashes = 0
  /\ merged = FALSE
  /\ mix \in Mixes

\* Shares held according to the exchange.
SharesHeld ==
  Cardinality({t \in AllTrades : t[2] <= filled[t[1]] /\ Side[t[1]] = "buy"})
  - Cardinality({t \in AllTrades : t[2] <= filled[t[1]] /\ Side[t[1]] = "sell"})

--------------------------------------------------------------------------------
(* Publishing. *)

\* The bounds of the model on what is published.
HasRoom(events) ==
  /\ Len(log) + Len(events) <= MaxEvents
  /\ \A i \in DOMAIN events : events[i].typ \in mix

\* publish mirrors each event to the outbox through put_nowait.
Put(b, n, t) == PutNowait(b, Event(n, t, n))

PutAll(b, n, events) ==
  LET put[i \in 0..Len(events)] ==
        IF i = 0 THEN b ELSE Put(put[i - 1], n + i, events[i].typ)
  IN  put[Len(events)]

Published(events) ==
  /\ log' = log \o events
  /\ outbox' = PutAll(outbox, Len(log), events)

\* process_message of a message that is handled as result says; messages are
\* handled one after the other, and lost while the process is down.
Processed(result) ==
  IF up
  THEN /\ HasRoom(result.events)
       /\ account' = result.account
       /\ Published(result.events)
  ELSE UNCHANGED <<account, log, outbox>>

Unpublished == <<up, listing, asked, worker, rows, history>>

--------------------------------------------------------------------------------
(* The exchange and its messages. *)

StatusText(o, s) == IF s = "cancelled" THEN "canceled" ELSE s

OrderMoves(o, k, s, f) ==
  /\ state' = [state EXCEPT ![o] = s]
  /\ filled' = [filled EXCEPT ![o] = f]
  /\ \E text \in Texts :
       Processed(HandleOrder(account,
         OrderMessage(o, k, IF text THEN StatusText(o, s) ELSE NoText, f, Size[o])))
  /\ UNCHANGED <<trade, mix, Unpublished>>

Place(o) ==
  /\ state[o] = "none"
  /\ OrderMoves(o, "placement", "live", 0)

Match(o) ==
  /\ state[o] = "live"
  /\ Side[o] = "sell" => SharesHeld > 0
  /\ OrderMoves(o, "update",
       IF filled[o] + 1 = Size[o] THEN "matched" ELSE "live", filled[o] + 1)

Cancel(o) ==
  /\ state[o] = "live"
  /\ OrderMoves(o, "cancellation", "cancelled", filled[o])

\* A trade is reported when it is matched and again when it is confirmed.  One
\* that fails in between is left out.
TradeReported(t, s) ==
  /\ t[2] <= filled[t[1]]
  /\ <<trade[t], s>> \in {<<"none", "matched">>, <<"matched", "confirmed">>}
  /\ trade' = [trade EXCEPT ![t] = s]
  /\ \E named \in Named :
       Processed(HandleFill(account,
         FillSnapshot(t, IF named THEN t[1] ELSE NoText, Side[t[1]], s)))
  /\ UNCHANGED <<state, filled, mix, Unpublished>>

PositionReported ==
  /\ up
  /\ account.shares # SharesHeld
  /\ Processed(HandlePosition(account, SharesHeld))
  /\ UNCHANGED <<exchange, Unpublished>>

BalanceReported ==
  /\ up
  /\ \A n \in DOMAIN log : log[n].typ # "balance"
  /\ Processed(HandleBalance(account))
  /\ UNCHANGED <<exchange, Unpublished>>

\* Discovery, or the market channel, moves the market to status s in the
\* registry and publishes an event whose market payload has status v, Absent
\* when it has no market.
MarketMoves(t, s, v) ==
  LET events == <<DomainEvent(t, "market", v)>>
  IN  /\ up
      /\ HasRoom(events)
      /\ listing' = s
      /\ Published(events)
      /\ merged' = (merged \/ MergesInto(outbox, Event(Len(log) + 1, t, Len(log) + 1)))
      /\ UNCHANGED <<exchange, up, account, asked, worker, rows,
                     acked, failures, crashes>>

MarketDiscovered ==
  listing = Absent /\ MarketMoves("discovered", "eligible", "eligible")

\* A market selected again is MARKET_UPDATED, which the sink does not let
\* through.
MarketUpdated ==
  /\ up
  /\ listing \in {"paused", "resolved"}
  /\ listing' = "eligible"
  /\ UNCHANGED <<exchange, up, account, asked, log, outbox, worker, rows, history>>

\* A market no longer selected stays, paused, while there is exposure to it.
MarketFilteredOut ==
  \/ listing = "eligible" /\ MarketMoves("filtered_out", "paused", "paused")
  \/ listing # Absent /\ MarketMoves("filtered_out", Absent, Absent)

MarketResolved ==
  listing \in {"eligible", "paused"} /\ MarketMoves("resolved", "resolved", Absent)

--------------------------------------------------------------------------------
(* The persistence worker and the tables. *)

Payload(e) == log[e.ver]

\* route_event: the kinds of record planned for an event.  A market event has
\* one for the market only if its payload holds a market.
KindsOf(e) ==
  {"audit", "outbox"} \union
  (IF e.typ \in MarketTypes
   THEN IF Payload(e).value = Absent THEN {} ELSE {"market"}
   ELSE IF e.typ = "balance" THEN {"account"} ELSE {e.typ})

\* route_order of _persist_batch.  It has no "account"; the kinds of books and
\* allocations, which no event of the sink has records of, are left out.
KindOrder == <<"audit", "market", "order", "fill", "position", "outbox">>

\* build_planned_records, for one kind: the events with a record of it.
Items(k) == {i \in DOMAIN writing : k \in KindsOf(writing[i])}

Of(i) == Payload(writing[i])

\* The first kind after k with records to write; the loop goes past the others.
NextKind(b, k) ==
  LET due == {l \in DOMAIN KindOrder :
                l > k /\ \E i \in DOMAIN b : KindOrder[l] \in KindsOf(b[i])}
  IN  IF due = {} THEN Len(KindOrder) + 1 ELSE Min(due)

\* One pass of the loop of get, while the batch has room: an entry whose event
\* is gone is skipped.
Take(s) ==
  IF Len(s.got) = BatchSize \/ s.box.ready = <<>> THEN s
  ELSE [box |-> PopReady(s.box),
        got |-> IF FirstReady(s.box) \in DOMAIN s.box.events
                THEN Append(s.got, s.box.events[FirstReady(s.box)]) ELSE s.got]

\* What is left of the outbox, and the events taken.
Taken(b) ==
  LET take[i \in 0..Len(b.ready)] ==
        IF i = 0 THEN [box |-> b, got |-> <<>>] ELSE Take(take[i - 1])
  IN  take[Len(b.ready)]

\* get begins with a promotion; with room for everything one is enough.
TakeBatch ==
  /\ up
  /\ kind = 0
  /\ Promote(outbox).ready # <<>>
  /\ LET taken == Taken(Promote(outbox))
     IN  /\ outbox' = taken.box
         /\ writing' = Coalesce(taken.got)
         /\ kind' = NextKind(writing', 0)
  /\ failed' = {}
  /\ UNCHANGED <<exchange, up, account, listing, asked, log, rows, history>>

\* order_key: an order of the user channel has no idempotency key, and the
\* trace id of its message is drawn when the message is read, so the key is
\* new for every event and stays with it through its retries.
OrderKey(i) == writing[i].id

\* Mutant: the table of statuses lacks those of a resting order.
StoredStatusWithoutResting(s) ==
  IF s \in OrderStatuses \ {"live", "submitted"} THEN s
  ELSE IF s \in {"partial_fill", "canceled"} THEN Aliases[s] ELSE "failed"

\* _order_status of record_mappers.py.
StoredStatus(s) ==
  IF s \in OrderStatuses THEN s
  ELSE IF s \in {"partial_fill", "canceled"} THEN Aliases[s] ELSE "failed"

\* order_from_record: the order a record stands for.
OrderFromRecord(i) == [id |-> Of(i).subject, status |-> StoredStatus(Of(i).value)]

\* OrderModel.from_domain: its row.
OrderRow(i) == [key |-> OrderKey(i), status |-> OrderFromRecord(i).status]

\* Mutant: orders are upserted by the id the exchange gave them.
AcceptedOrderByOrderId(i, F) == i \notin F

\* The row of an order is updated by an event with the row's key, and
\* inserted when no row has its order_id, which is UNIQUE; any other event
\* with that order_id is refused.
AcceptedOrder(i, F) ==
  LET o == OrderFromRecord(i).id
  IN  /\ i \notin F
      /\ \/ rows.order[o].key = OrderKey(i)
         \/ /\ rows.order[o] = NoRow
            /\ \A j \in Items("order") \ F :
                 OrderFromRecord(j).id = o => i <= j

\* _bulk_upsert on one key: the last record written stays.  A statement may
\* not touch a row twice: it is refused, and its records are written one by
\* one, in order.
LastWritten(taken) == CHOOSE j \in taken : \A l \in taken : l <= j

SaveOrders(F) ==
  [o \in Orders |->
     LET taken == {i \in Items("order") :
                     OrderFromRecord(i).id = o /\ AcceptedOrder(i, F)}
     IN  IF taken = {} THEN rows.order[o] ELSE OrderRow(LastWritten(taken))]

\* The records of a trade, a position and a market, from payload to row.
FillRecord(i) == Of(i).value

PositionRecord(i) == Of(i).value

MarketRecord(i) == Of(i).value

SaveFills(F) ==
  [t \in AllTrades |->
     LET taken == {i \in Items("fill") \ F : Of(i).subject = t}
     IN  IF taken = {} THEN rows.fill[t] ELSE FillRecord(LastWritten(taken))]

SavePositions(F) ==
  LET taken == Items("position") \ F
  IN  IF taken = {} THEN rows.position ELSE PositionRecord(LastWritten(taken))

SaveMarkets(F) ==
  LET taken == Items("market") \ F
  IN  IF taken = {} THEN rows.market ELSE MarketRecord(LastWritten(taken))

\* AuditEventModel.from_domain and OutboxEventModel.from_domain: a row is known
\* by the id of its event, which its retries and what is merged into it keep.
AuditRow(i) == writing[i].id

OutboxRow(i) == writing[i].id

SaveAudit(F) == rows.audit \union {AuditRow(i) : i \in Items("audit") \ F}

SaveOutbox(F) == rows.outbox \union {OutboxRow(i) : i \in Items("outbox") \ F}

\* _select_repository_method.  The records in F are not written.
Saved(k, F) ==
  CASE k = "order"    -> SaveOrders(F)
    [] k = "fill"     -> SaveFills(F)
    [] k = "position" -> SavePositions(F)
    [] k = "market"   -> SaveMarkets(F)
    [] k = "audit"    -> SaveAudit(F)
    [] k = "outbox"   -> SaveOutbox(F)

Refused(k, F) ==
  F \union (IF k = "order" THEN {i \in Items(k) : ~AcceptedOrder(i, F)} ELSE {})

\* _write_kind: one call for all records of the kind and, should it fail, one
\* for each; those in F fail.  A call is a transaction of its own.
WriteKind ==
  /\ up
  /\ kind \in DOMAIN KindOrder
  /\ LET k == KindOrder[kind]
     IN  \E F \in SUBSET Items(k) :
           /\ failures + Cardinality(F) + crashes <= MaxFaults
           /\ failures' = failures + Cardinality(F)
           /\ rows' = [rows EXCEPT ![k] = Saved(k, F)]
           /\ failed' = failed \union {<<writing[i].id, k>> : i \in Refused(k, F)}
  /\ kind' = NextKind(writing, kind)
  /\ UNCHANGED <<exchange, up, account, listing, asked, log, outbox, writing,
                 acked, crashes, merged>>

\* Mutant: an event is settled by the first kind written of it.
WrittenInPart(e) ==
  \E k \in KindsOf(e) : k \in ToSet(KindOrder) /\ <<e.id, k>> \notin failed

\* succeeded >= required: every kind planned was written.
Written(e) ==
  /\ \A k \in KindsOf(e) : k \in ToSet(KindOrder)
  /\ \A k \in KindsOf(e) : <<e.id, k>> \notin failed

\* retry, which finds room in the ready queue.
Retried(b, id) ==
  LET stored == RetryStore(b, id)
  IN  IF id \in b.queued THEN stored
      ELSE RetryEnqueue(stored, WithRetry(Current(b, id)))

\* _finalize_event_outcomes for one event: acknowledge, retry or give up.
Settled(b, e) ==
  IF Written(e) THEN Ack(b, e.id)
  ELSE IF e.retry < MaxRetryCount THEN Retried(b, e.id)
  ELSE DeadLetter(b, e.id)

SettledAll(b, events) ==
  LET settle[i \in 0..Len(events)] ==
        IF i = 0 THEN b ELSE Settled(settle[i - 1], events[i])
  IN  settle[Len(events)]

Settle ==
  /\ up
  /\ kind = Len(KindOrder) + 1
  /\ outbox' = SettledAll(outbox, writing)
  /\ acked' = acked \union {<<e.id, e.ver>> : e \in {f \in ToSet(writing) : Written(f)}}
  /\ writing' = <<>> /\ kind' = 0 /\ failed' = {}
  /\ UNCHANGED <<exchange, up, account, listing, asked, log, rows,
                 failures, crashes, merged>>

PersistStep == TakeBatch \/ WriteKind \/ Settle

--------------------------------------------------------------------------------
(* Crash, restart and reconcile. *)

\* The store, the outbox and the batch are in memory only.
Crash ==
  /\ up
  /\ failures + crashes < MaxFaults
  /\ crashes' = crashes + 1
  /\ up' = FALSE
  /\ account' = EmptyStore
  /\ listing' = Absent
  /\ asked' = NotAsked
  /\ outbox' = [EmptyOutbox EXCEPT !.dead = outbox.dead]
  /\ writing' = <<>> /\ kind' = 0 /\ failed' = {}
  /\ UNCHANGED <<exchange, log, rows, acked, failures, merged>>

OpenStatuses == OrderStatuses \ ClosedStatuses

\* list_open_orders_snapshot, list_positions_snapshot, list_markets_snapshot.
\* Their limit of 500 rows is beyond the model.
RestoredOrders ==
  [o \in Orders |-> IF rows.order[o].status \in OpenStatuses
                    THEN rows.order[o].status ELSE Absent]

RestoredShares == IF rows.position = NoPosition THEN 0 ELSE rows.position

RestoredMarket == rows.market

\* _load_reference_state.  A database that cannot be read leaves the store
\* empty.
Restart ==
  /\ ~up
  /\ up' = TRUE
  /\ \/ /\ account' = [orders |-> RestoredOrders, shares |-> RestoredShares]
        /\ listing' = RestoredMarket
     \/ UNCHANGED <<account, listing>>
  /\ UNCHANGED <<exchange, asked, log, outbox, worker, rows, history>>

\* _fetch_open_orders and _fetch_positions, answered as of now.
OpenOrdersAnswer == [o \in Orders |-> IF state[o] = "live" THEN "live" ELSE Absent]

PositionsAnswer == SharesHeld

\* refresh_account asks for everything at once.
ReconcileAsks ==
  /\ up
  /\ asked = NotAsked
  /\ asked' = [orders |-> OpenOrdersAnswer, shares |-> PositionsAnswer]
  /\ UNCHANGED <<exchange, up, account, listing, log, outbox, worker, rows, history>>

\* Mutant: the open orders answered are added to those in the store.
ReconcileMerges(answered) ==
  /\ up
  /\ asked # NotAsked
  /\ account' = [orders |-> [o \in Orders |->
                    IF "orders" \in answered /\ asked.orders[o] # Absent
                    THEN asked.orders[o] ELSE account.orders[o]],
                 shares |-> IF "positions" \in answered THEN asked.shares
                            ELSE account.shares]
  /\ asked' = NotAsked
  /\ UNCHANGED <<exchange, up, listing, log, outbox, worker, rows, history>>

\* The answers are in.  A call that failed or timed out leaves its part of
\* the store as it is.
ReconcileApplies(answered) ==
  /\ up
  /\ asked # NotAsked
  /\ account' = [orders |-> IF "orders" \in answered THEN asked.orders
                            ELSE account.orders,
                 shares |-> IF "positions" \in answered THEN asked.shares
                            ELSE account.shares]
  /\ asked' = NotAsked
  /\ UNCHANGED <<exchange, up, listing, log, outbox, worker, rows, history>>

Calls == {"orders", "positions"}

RecordsNext ==
  \/ \E o \in Orders : Place(o) \/ Match(o) \/ Cancel(o)
  \/ \E t \in AllTrades, s \in {"matched", "confirmed"} : TradeReported(t, s)
  \/ PositionReported
  \/ BalanceReported
  \/ MarketDiscovered \/ MarketUpdated \/ MarketFilteredOut \/ MarketResolved
  \/ PersistStep
  \/ Crash
  \/ Restart
  \/ ReconcileAsks
  \/ \E answered \in SUBSET Calls : ReconcileApplies(answered)

RecordsSpec == RecordsInit /\ [][RecordsNext]_recordsVars

\* The reconcile loop goes round for ever, and now and then all calls of a
\* run are answered.
RecordsFairSpec ==
  /\ RecordsSpec
  /\ WF_recordsVars(ReconcileAsks)
  /\ SF_recordsVars(ReconcileApplies(Calls))
--------------------------------------------------------------------------------
(* Properties. *)

Events == {[id |-> i, typ |-> t, ver |-> v, retry |-> r] :
             i \in 1..MaxEvents, t \in Types, v \in 1..MaxEvents, r \in 0..MaxRetryCount}

\* The type invariant.
RecordsTyped ==
  /\ state \in [Orders -> {"none", "live", "matched", "cancelled"}]
  /\ \A o \in Orders : filled[o] \in 0..Size[o]
  /\ account.orders \in [Orders -> OpenStatuses \union {Absent}]
  /\ account.shares \in Nat /\ SharesHeld \in Nat
  /\ listing \in {Absent, "eligible", "paused", "resolved"}
  /\ rows \in [order : OrderTable, fill : FillTable, position : PositionTable,
               market : MarketTable, audit : AuditTable, outbox : OutboxTable]
  /\ Len(log) <= MaxEvents
  /\ ToSet(writing) \subseteq Events
  /\ kind \in 0..(Len(KindOrder) + 1)

Recorded(id, e) ==
  /\ id \in rows.audit /\ id \in rows.outbox
  /\ e.typ # "balance"
  /\ e.typ = "order" => rows.order[e.subject].key = id
  /\ e.typ = "fill" => rows.fill[e.subject] # Absent
  /\ e.typ = "position" => rows.position # NoPosition
  /\ e.typ \in MarketTypes /\ e.value # Absent => rows.market # Absent

\* An event the outbox was told to forget is in every table it belongs to;
\* one given up had all its tries, and either it is of a kind no write can
\* complete, or an earlier event of its order has the row, or the database
\* refused as many writes by itself.
RecordsSound ==
  /\ RecordsTyped
  /\ \A a \in acked : Recorded(a[1], log[a[2]])
  /\ \A e \in outbox.dead :
       /\ e.retry = MaxRetryCount + 1
       /\ \/ e.typ = "balance"
          \/ failures > MaxRetryCount
          \/ e.typ = "order" /\ rows.order[Payload(e).subject].key \notin {0, e.id}

PublishedOf(t, x) == {n \in DOMAIN log : log[n].typ = t /\ log[n].subject = x}

Newest(S, none) == IF S = {} THEN none ELSE log[Max(S)].value

Quiet == Promote(outbox).ready = <<>> /\ writing = <<>>

\* With a database that refuses nothing by itself and a process that does not
\* crash, once the outbox has nothing ready the tables have the last status of
\* every trade, the last position and, but for merged events, the last status
\* of the market that came with one; an order's row has the status it was
\* FIRST reported with.
RowsFollow ==
  Quiet /\ failures = 0 /\ crashes = 0 =>
    /\ \A t \in AllTrades : rows.fill[t] = Newest(PublishedOf("fill", t), Absent)
    /\ rows.position = Newest(PublishedOf("position", "token"), NoPosition)
    /\ \A o \in Orders :
         LET told == PublishedOf("order", o)
         IN  rows.order[o] = IF told = {} THEN NoRow
                             ELSE [key |-> Min(told), status |-> log[Min(told)].value]
    /\ ~merged =>
         rows.market = Newest({n \in DOMAIN log : /\ log[n].typ \in MarketTypes
                                                 /\ log[n].value # Absent}, Absent)

\* An order that rests on the exchange and has a row comes back with the next
\* restart, whatever was lost or refused of its later messages.
LiveOrdersRestored ==
  \A o \in Orders :
    state[o] = "live" /\ rows.order[o] # NoRow => rows.order[o].status \in OpenStatuses

AccountTrue ==
  /\ \A o \in Orders : account.orders[o] # Absent <=> state[o] = "live"
  /\ account.shares = SharesHeld

\* Whatever stale rows a restart brought back and whatever order the messages
\* and the reconcile answers came in, a process that keeps running ends with
\* the open orders and the position of the exchange.
AccountRestored == <>[](~up \/ AccountTrue)
================================================================================
