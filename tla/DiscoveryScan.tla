----------------------------- MODULE DiscoveryScan -----------------------------
(***************************************************************************)
(* The full scan of the exchange's market list                             *)
(* (runtime/discovery_runner.py with the failure state of                  *)
(* workers/market_discovery_worker.py): several queries, each paged by its *)
(* own cursor, a few requests in a tick of the scheduler, a pause after a  *)
(* failure.  A round is over when every query has reached its last page.   *)
(*                                                                         *)
(* A page is asked for, recorded and ingested in one step: only the scan   *)
(* job touches this state.                                                 *)
(***************************************************************************)
EXTENDS Integers, Sequences, FiniteSets, SequencesExt

CONSTANTS
  Queries,      \* the strategy's queries, a sequence of names
  PagesOf,      \* number of pages of each query
  RequestBudget, \* requests in a tick
  MaxFailures   \* bound of the model: requests or pages that fail

Names == ToSet(Queries)

ASSUME ScanAssumption ==
  /\ Queries \in Seq(Names) /\ Queries # <<>>
  /\ PagesOf \in [Names -> Nat \ {0}]
  /\ RequestBudget \in Nat \ {0} /\ MaxFailures \in Nat

VARIABLES
  cursors,      \* query_cursors: last page of each query that has been read
  completed,    \* completed_query_names
  nextIndex,    \* next_query_index, counted from one
  ticking,      \* the scan job is between start_tick and finish_tick
  requests,     \* last_tick_requests
  failure,      \* last_failure of the worker: none or waiting
  failures,     \* failures so far
  rounds,       \* rounds finished, modulo two
  covered,      \* history: pages that were ingested, or lost, in this round
  lastRound     \* history: what covered held when the last round was finished

scanVars == <<cursors, completed, nextIndex, ticking, requests, failure, failures,
              rounds, covered, lastRound>>

Start == 0
AllPages == UNION {{<<q, n>> : n \in 1 .. PagesOf[q]} : q \in Names}

ScanInit ==
  /\ cursors = [q \in Names |-> Start]
  /\ completed = {} /\ nextIndex = 1
  /\ ticking = FALSE /\ requests = 0
  /\ failure = "none" /\ failures = 0
  /\ rounds = 0 /\ covered = {} /\ lastRound = AllPages

--------------------------------------------------------------------------------
\* run_market_discovery_scan: a tick does nothing while the retry is waited for.
TickStarts ==
  /\ ~ticking
  /\ IF failure = "waiting"
     THEN UNCHANGED <<ticking, requests>>
     ELSE ticking' = TRUE /\ requests' = 0
  /\ UNCHANGED <<cursors, completed, nextIndex, failure, failures, rounds, covered, lastRound>>

\* next_query: the first one from next_query_index on that is not completed,
\* none when all of them are.
Turn(i) == ((nextIndex - 1 + i) % Len(Queries)) + 1
OpenTurns == {i \in 0 .. Len(Queries) - 1 : Queries[Turn(i)] \notin completed}
NextTurn == {Turn(i) : i \in {j \in OpenTurns : \A k \in OpenTurns : j <= k}}

\* Mutant: a query without a cursor starts at that of another one.
PageAfterAny(q) == (IF cursors[q] # Start THEN cursors[q] ELSE Max({cursors[p] : p \in Names})) + 1

\* fetch_full_market_discovery_page: the page after the query's own cursor,
\* for next_query has set after_cursor to it.
PageAfter(q) == cursors[q] + 1

IsLast(q, n) == n >= PagesOf[q]

\* finish_round.
FinishRound(all) ==
  /\ cursors' = [q \in Names |-> Start]
  /\ completed' = {} /\ nextIndex' = 1
  /\ rounds' = 1 - rounds
  /\ covered' = {} /\ lastRound' = all
  /\ ticking' = FALSE

\* Mutant: a query's last page does not complete it, its cursor only goes.
CompletedNever(q, n) == completed

\* record_page: a page without a next cursor completes its query.
CompletedBy(q, n) == IF IsLast(q, n) THEN completed \union {q} ELSE completed

\* The index moves on past a query whatever becomes of its page.
MovePast(turn) == nextIndex' = (turn % Len(Queries)) + 1

RecordPage(q, n) ==
  /\ cursors' = [cursors EXCEPT ![q] = IF IsLast(q, n) THEN Start ELSE n]
  /\ completed' = CompletedBy(q, n)

\* A page that is read, recorded and ingested.  The tick goes on, or ends when
\* its time is over.
PageRead ==
  /\ ticking /\ requests < RequestBudget
  /\ \E turn \in NextTurn :
       LET q == Queries[turn]
           n == PageAfter(q)
       IN  IF CompletedBy(q, n) = Names
           THEN FinishRound(covered \union {<<q, n>>})
           ELSE /\ RecordPage(q, n) /\ MovePast(turn)
                /\ covered' = covered \union {<<q, n>>}
                /\ UNCHANGED <<rounds, lastRound, ticking>>
  /\ requests' = requests + 1
  /\ failure' = "none"
  /\ UNCHANGED failures

\* Every query was completed when the tick began: a failure has kept the round
\* from being finished with its last page.
NothingLeft ==
  /\ ticking /\ requests < RequestBudget /\ OpenTurns = {}
  /\ FinishRound(covered)
  /\ UNCHANGED <<requests, failure, failures>>

\* The exception of a tick: record_failure of the state and of the worker.
Failed ==
  /\ failures < MaxFailures
  /\ failures' = failures + 1
  /\ failure' = "waiting"
  /\ ticking' = FALSE
  /\ UNCHANGED <<rounds, lastRound>>

\* The request fails: the page is asked for again, another query comes first.
RequestFails ==
  /\ ticking /\ requests < RequestBudget
  /\ Failed
  /\ \E turn \in NextTurn : MovePast(turn)
  /\ UNCHANGED <<cursors, completed, requests, covered>>

\* Ingesting the page fails: it is recorded all the same, what it holds has to
\* wait for the next round.
IngestFails ==
  /\ ticking /\ requests < RequestBudget
  /\ Failed
  /\ \E turn \in NextTurn :
       LET q == Queries[turn]
           n == PageAfter(q)
       IN  RecordPage(q, n) /\ MovePast(turn) /\ covered' = covered \union {<<q, n>>}
  /\ requests' = requests + 1

\* finish_tick: the budget of requests, of markets or of time is used up.
TickEnds ==
  /\ ticking /\ requests > 0
  /\ ticking' = FALSE
  /\ UNCHANGED <<cursors, completed, nextIndex, requests, failure, failures, rounds, covered, lastRound>>

\* should_retry: five seconds have passed, or a market announced by the
\* websocket was accepted, which forgets the failure at once.
RetryDue ==
  /\ failure = "waiting"
  /\ failure' = "none"
  /\ UNCHANGED <<cursors, completed, nextIndex, ticking, requests, failures, rounds, covered, lastRound>>

\* The scan job is cancelled by the shutdown.
TickCancelled ==
  /\ ticking' = FALSE
  /\ UNCHANGED <<cursors, completed, nextIndex, requests, failure, failures, rounds, covered, lastRound>>

TickStep == PageRead \/ NothingLeft \/ RequestFails \/ IngestFails \/ TickEnds
--------------------------------------------------------------------------------
ScanTypeOK ==
  /\ cursors \in [Names -> Nat] /\ \A q \in Names : cursors[q] < PagesOf[q]
  /\ completed \subseteq Names /\ nextIndex \in 1 .. Len(Queries)
  /\ ticking \in BOOLEAN /\ requests \in 0 .. RequestBudget
  /\ failure \in {"none", "waiting"} /\ failures \in 0 .. MaxFailures
  /\ rounds \in {0, 1} /\ covered \subseteq AllPages /\ lastRound \subseteq AllPages

\* However the requests are spread over ticks and whichever of them fail, a
\* finished round has gone through every page of every query, each from its
\* first page on.
RoundsComplete == lastRound = AllPages

\* A round after a round is finished, as long as failures come to an end.
RoundsGoOn == []<>(rounds = 0) /\ []<>(rounds = 1)
================================================================================
