------------------------------- MODULE MarketBooks -------------------------------
(***************************************************************************)
(* The order book of one token: the exchange changes it, the websocket     *)
(* client (infra/polymarket/ws_client.py) brings the changes into the      *)
(* queue of the market websocket loop (runtime/ws_loops.py), the worker    *)
(* (workers/market_ws_worker.py, market_book_projector.py) applies them,   *)
(* asks the REST interface for a snapshot after a gap in the sequence, and *)
(* the reconcile run replaces the book from time to time by a snapshot it  *)
(* has read some while ago.                                                *)
(*                                                                         *)
(* One side of the book is enough: the asks, which an entry is priced by.  *)
(* Change n of the exchange's book is the n-th message about it.           *)
(***************************************************************************)
EXTENDS Integers, Sequences, FiniteSets, FiniteSetsExt

CONSTANTS
  Levels,       \* prices at which shares are offered
  MaxSize,      \* bound of the model: shares at a level
  Sequenced,    \* messages carry a sequence number
  MaxChanges,   \* bound of the model: changes of the book
  MaxBreaks     \* bound of the model: broken connections and resubscriptions

ASSUME BooksAssumption ==
  /\ Levels \subseteq Nat \ {0} /\ Levels # {} /\ IsFiniteSet(Levels)
  /\ MaxSize \in Nat \ {0} /\ Sequenced \in BOOLEAN
  /\ MaxChanges \in Nat /\ MaxBreaks \in Nat

None == 0

VARIABLES
  changes,   \* history: what the exchange did, [level, size]
  conn,      \* connecting or up
  breaks,    \* connections broken and subscriptions renewed so far
  queue,     \* messages in the queue of the loop, [type, n]
  state,     \* BookState: [asks, known, best, last, needsRest]
  worker,    \* the loop: [at, n, on], see Waiting below
  read,      \* snapshot the reconcile run holds, as its change number, or -1
  newest,    \* history: newest change the book has taken in
  missing    \* history: changes it had taken in and has lost again

booksVars == <<changes, conn, breaks, queue, state, worker, read, newest, missing>>

Now == Len(changes)

\* The exchange's book after change n, and its best ask.
AsksAt(n) ==
  [l \in Levels |->
     LET touched == {i \in 1 .. n : changes[i].level = l}
     IN  IF touched = {} THEN 0 ELSE changes[Max(touched)].size]

BestOf(asks) ==
  LET offered == {l \in Levels : asks[l] > 0} IN IF offered = {} THEN None ELSE Min(offered)

\* idle; rest: waiting for the snapshot of a gap; asked: it was read at n;
\* publishing: waiting for room in the trading lane before sequence n is
\* recorded, on TRUE while the state is still the one the message was applied
\* to; dead: a REST call raised, which ends the loop for good.
Waiting == {"idle", "rest", "asked", "publishing", "dead"}
IdleWorker == [at |-> "idle", n |-> 0, on |-> TRUE]

\* initial_state: an empty book that has heard of no level and of no sequence
\* number.
InitialState ==
  [asks |-> [l \in Levels |-> 0], known |-> {}, best |-> None, last |-> None, needsRest |-> FALSE]

BooksInit ==
  /\ changes = <<>>
  /\ conn = "connecting"
  /\ breaks = 0
  /\ queue = <<>>
  /\ state = InitialState
  /\ worker = IdleWorker
  /\ read = -1
  /\ newest = 0
  /\ missing = {}

--------------------------------------------------------------------------------
\* stream_market_ws_messages: every message of the stream goes to the end of
\* the queue, as do those of the connection after a reconnect.
Streamed(type, n) == Append(queue, [type |-> type, n |-> n])

\* The exchange changes a level, and tells who is subscribed.
Change(l, size) ==
  /\ Now < MaxChanges
  /\ AsksAt(Now)[l] # size
  /\ changes' = Append(changes, [level |-> l, size |-> size])
  /\ queue' = IF conn = "up" THEN Streamed("price_change", Now + 1) ELSE queue
  /\ UNCHANGED <<conn, breaks, state, worker, read, newest, missing>>

\* _stream: a new connection subscribes and is sent the whole book.
Connect ==
  /\ conn = "connecting"
  /\ conn' = "up"
  /\ queue' = Streamed("book", Now)
  /\ UNCHANGED <<changes, breaks, state, worker, read, newest, missing>>

\* _stream: an error, and another attempt after reconnect_delay_s.  What is in
\* the queue stays there.
Break ==
  /\ conn = "up" /\ breaks < MaxBreaks
  /\ conn' = "connecting"
  /\ breaks' = breaks + 1
  /\ UNCHANGED <<changes, queue, state, worker, read, newest, missing>>

\* Mutant: the queue is drained and the stream kept.
ResubscribeInPlace ==
  /\ worker.at = "idle" /\ breaks < MaxBreaks
  /\ breaks' = breaks + 1
  /\ queue' = <<>>
  /\ UNCHANGED <<conn, changes, state, worker, read, newest, missing>>

\* run_market_ws, between two messages: the registry holds other tokens than
\* those subscribed to, or the stream has ended; the queue is drained.
Resubscribe ==
  /\ worker.at = "idle" /\ breaks < MaxBreaks
  /\ conn' = "connecting"
  /\ breaks' = breaks + 1
  /\ queue' = <<>>
  /\ UNCHANGED <<changes, state, worker, read, newest, missing>>

--------------------------------------------------------------------------------
\* The worker.

\* snapshot_from_message and rest_state: the levels are those of the snapshot.
Snapshot(n, last) ==
  [asks |-> AsksAt(n), known |-> {l \in Levels : AsksAt(n)[l] > 0},
   best |-> BestOf(AsksAt(n)), last |-> last, needsRest |-> FALSE]

\* apply_price_message and upsert_level: an emptied level stays in the book, at
\* size 0, and counts for the best price when the message names none.
Priced(s, n) ==
  LET change == changes[n]
      asks == [s.asks EXCEPT ![change.level] = change.size]
      known == s.known \union {change.level}
      told == BestOf(AsksAt(n))
  IN  [s EXCEPT !.asks = asks, !.known = known,
                !.best = IF told # None THEN told ELSE Min(known)]

\* sequence_gap_detected.
Gap(n) == Sequenced /\ state.last # None /\ n > state.last + 1

\* A snapshot of change n goes into the book: what it does not hold is lost.
Replaced(n) ==
  /\ newest' = n
  /\ missing' = (missing \union (n + 1 .. newest)) \ (1 .. n)

\* A single change goes in.
TakenIn(n) ==
  /\ newest' = IF n > newest THEN n ELSE newest
  /\ missing' = missing \ {n}

Sequence(n) == IF Sequenced THEN n ELSE None

\* _emit_snapshot_update waits for the event bus to take the event of change n.
Publishing(n) == [at |-> "publishing", n |-> n, on |-> TRUE]

\* handle_message.  A message that shows a gap is not applied; while a snapshot
\* is needed only a book is.
Handle ==
  /\ worker.at = "idle" /\ queue # <<>>
  /\ LET message == Head(queue)
     IN  IF Gap(message.n)
         THEN /\ state' = [state EXCEPT !.needsRest = TRUE]
              /\ worker' = [worker EXCEPT !.at = "rest"]
              /\ UNCHANGED <<newest, missing>>
         ELSE IF message.type = "book"
         THEN /\ state' = Snapshot(message.n, state.last)
              /\ Replaced(message.n)
              /\ worker' = Publishing(message.n)
         ELSE IF state.needsRest
         THEN UNCHANGED <<state, worker, newest, missing>>
         ELSE /\ state' = Priced(state, message.n)
              /\ TakenIn(message.n)
              /\ worker' = Publishing(message.n)
  /\ queue' = Tail(queue)
  /\ UNCHANGED <<changes, conn, breaks, read>>

\* The end of handle_message, after _publish has returned: the sequence number
\* goes to the state object the message was applied to.
Published ==
  /\ worker.at = "publishing"
  /\ state' = IF worker.on /\ Sequenced THEN [state EXCEPT !.last = worker.n] ELSE state
  /\ worker' = IdleWorker
  /\ UNCHANGED <<changes, conn, breaks, queue, read, newest, missing>>

\* The REST snapshot of a gap is read, arrives later and is applied; or the
\* call raises, through handle_message and run_market_ws, and the loop is over.
\* Its stream is not cancelled and goes on filling a queue nobody reads.
RestRead ==
  /\ worker.at = "rest"
  /\ worker' = [worker EXCEPT !.at = "asked", !.n = Now]
  /\ UNCHANGED <<changes, conn, breaks, queue, state, read, newest, missing>>

RestApplied ==
  /\ worker.at = "asked"
  /\ state' = Snapshot(worker.n, None)
  /\ Replaced(worker.n)
  /\ worker' = IdleWorker
  /\ UNCHANGED <<changes, conn, breaks, queue, read>>

RestFails ==
  /\ worker.at = "rest"
  /\ worker' = [worker EXCEPT !.at = "dead"]
  /\ UNCHANGED <<changes, conn, breaks, queue, state, read, newest, missing>>

--------------------------------------------------------------------------------
\* The reconcile run reads the book with those of all other markets, and
\* applies it when the slowest of them has answered.  The new state object
\* knows no sequence number.  A call that fails changes nothing: no step.
ReconcileReads ==
  /\ read = -1
  /\ read' = Now
  /\ UNCHANGED <<changes, conn, breaks, queue, state, worker, newest, missing>>

\* Mutant: it leaves a book alone that the websocket has brought news of.
ReconcileAppliesOnce ==
  /\ read # -1
  /\ IF newest = 0
     THEN state' = Snapshot(read, None) /\ Replaced(read)
     ELSE UNCHANGED <<state, newest, missing>>
  /\ worker' = [worker EXCEPT !.on = FALSE]
  /\ read' = -1
  /\ UNCHANGED <<changes, conn, breaks, queue>>

ReconcileApplies ==
  /\ read # -1
  /\ state' = Snapshot(read, None)
  /\ Replaced(read)
  /\ worker' = [worker EXCEPT !.on = FALSE]
  /\ read' = -1
  /\ UNCHANGED <<changes, conn, breaks, queue>>

\* untrack_market and track_market before the loop looks again: the state is
\* new and empty, the subscription the same.
Retracked ==
  /\ breaks < MaxBreaks
  /\ breaks' = breaks + 1
  /\ state' = InitialState
  /\ Replaced(0)
  /\ worker' = [worker EXCEPT !.on = FALSE]
  /\ UNCHANGED <<changes, conn, queue, read>>

--------------------------------------------------------------------------------
Worker == Handle \/ Published \/ RestRead \/ RestApplied
Reconcile == ReconcileReads \/ ReconcileApplies

BooksNext ==
  \/ \E l \in Levels, size \in 0 .. MaxSize : Change(l, size)
  \/ Connect
  \/ Break
  \/ Resubscribe
  \/ Worker
  \/ RestFails
  \/ Reconcile
  \/ Retracked

BooksSpec == BooksInit /\ [][BooksNext]_booksVars

\* The loop runs while it lives.  The reconcile loop is assumed to live, and its
\* call for this book to be answered some time.
BooksFairSpec == BooksSpec /\ WF_booksVars(Worker) /\ WF_booksVars(Reconcile)
--------------------------------------------------------------------------------
Messages == [type : {"book", "price_change"}, n : 0 .. MaxChanges]

\* The type invariant.
BooksTyped ==
  /\ changes \in Seq([level : Levels, size : 0 .. MaxSize]) /\ Now <= MaxChanges
  /\ conn \in {"connecting", "up"} /\ breaks \in 0 .. MaxBreaks
  /\ queue \in Seq(Messages)
  /\ state \in [asks : [Levels -> 0 .. MaxSize], known : SUBSET Levels,
                best : Levels \union {None}, last : 0 .. MaxChanges, needsRest : BOOLEAN]
  /\ worker \in [at : Waiting, n : 0 .. MaxChanges, on : BOOLEAN]
  /\ read \in -1 .. MaxChanges
  /\ newest \in 0 .. MaxChanges /\ missing \subseteq 1 .. MaxChanges

\* The connection is up and the loop has dealt with all it was sent.
Settled == conn = "up" /\ queue = <<>> /\ worker.at \in {"idle", "publishing"}

\* Whatever connections broke, queues were drained, gaps were repaired and old
\* messages were replayed over newer snapshots: a settled book holds what the
\* exchange offers, with the best price an entry will pay, unless a snapshot
\* older than the book was put over it.
SettledBookTrue ==
  Settled /\ missing = {} =>
    /\ state.asks = AsksAt(Now)
    /\ BestOf(AsksAt(Now)) # None => state.best = BestOf(AsksAt(Now))
    /\ ~state.needsRest

\* The book keeps its types and, settled, is true.
BookSound == BooksTyped /\ SettledBookTrue

\* Once the exchange is quiet the book ends up true for good, the loop dead or
\* alive: what a late snapshot lost, a later one brings back.
BookConverges == <>[](state.asks = AsksAt(Now))
================================================================================
