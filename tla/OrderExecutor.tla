------------------------------ MODULE OrderExecutor ------------------------------
(***************************************************************************)
(* infra/polymarket/order_executor.py: the only path to the exchange.      *)
(* Callers (trading decision worker, reconcile, admin API) execute         *)
(* requests; one operation (an asyncio task) runs per idempotency key and  *)
(* its result is kept for later calls with the same key.  An operation     *)
(* signs and then sends its request on a thread of a small pool.           *)
(*                                                                         *)
(* The critical section of _execute contains no await, so the whole lookup *)
(* is one step and its lock is never contended.  A request is its key and  *)
(* its fingerprint; submit, cancel and replace take the same path and an   *)
(* operation that reached the exchange is said to be placed.               *)
(***************************************************************************)
EXTENDS Integers, Sequences, FiniteSets

CONSTANTS
  Callers,       \* tasks that may call submit, cancel or replace
  Keys,          \* idempotency keys
  Fingerprints,  \* request_signature of the requests
  MaxCached,     \* max_cached_results
  PoolSize,      \* threads of the order executor's pool
  MaxOps         \* bound of the model: number of operations started

ASSUME ExecutorAssumption ==
  /\ MaxCached \in Nat \ {0}
  /\ PoolSize \in Nat \ {0}
  /\ MaxOps \in Nat

Ops == 1..MaxOps
NoOp == 0
None == "none"

\* What an operation can return; a call may also be answered with "conflict".
Results == {"accepted", "rejected", "failed", "timeout"}

VARIABLES
  count,      \* operations started so far
  op,         \* the operations: request, progress, adapter call, result
  index,      \* _idempotency_index
  completed,  \* _completed, oldest first
  waiting,    \* the operation each caller awaits
  placed,     \* operations whose request the exchange executed
  answers,    \* history: the final results callers were told
  evicted     \* history: operations whose result the cache dropped

vars == <<count, op, index, completed, waiting, placed, answers, evicted>>

NewOp(k, f) == [key |-> k, print |-> f, pc |-> "created", call |-> "none", result |-> None]

\* An entry with neither task nor result is what the trimmed cache leaves.
Entry(f, n, r) == [print |-> f, task |-> n, result |-> r]

NoEntry == Entry(None, NoOp, None)

Init ==
  /\ count = 0
  /\ op = [n \in Ops |-> [key |-> None, print |-> None, pc |-> "unused",
                          call |-> "none", result |-> None]]
  /\ index = [k \in Keys |-> NoEntry]
  /\ completed = <<>>
  /\ waiting = [c \in Callers |-> NoOp]
  /\ placed = {}
  /\ answers = {}
  /\ evicted = {}

\* The answers that claim to know how the request ended.
Final == {"accepted", "rejected", "failed"}

Answer(k, f, r) ==
  answers' = answers \union (IF r \in Final THEN {[key |-> k, print |-> f, result |-> r]} ELSE {})

--------------------------------------------------------------------------------
(* Callers. *)

Conflict(k, f) == index[k] # NoEntry /\ index[k].print # f

Known(k, f) == ~Conflict(k, f) /\ index[k].result # None

Joins(k, f) == ~Conflict(k, f) /\ ~Known(k, f) /\ index[k].task # NoOp

\* Mutant: an operation in progress is not joined.
StartsUnlessKnown(k, f) == ~Conflict(k, f) /\ ~Known(k, f)

Starts(k, f) == ~Conflict(k, f) /\ ~Known(k, f) /\ ~Joins(k, f)

\* _execute up to the first await of _await_task.
ExecuteAnswered(c, k, f) ==
  /\ waiting[c] = NoOp
  /\ \/ Conflict(k, f) /\ Answer(k, f, "conflict")
     \/ Known(k, f) /\ Answer(k, f, index[k].result)
  /\ UNCHANGED <<count, op, index, completed, waiting, placed, evicted>>

ExecuteJoins(c, k, f) ==
  /\ waiting[c] = NoOp
  /\ Joins(k, f)
  /\ waiting' = [waiting EXCEPT ![c] = index[k].task]
  /\ UNCHANGED <<count, op, index, completed, placed, answers, evicted>>

ExecuteStarts(c, k, f) ==
  /\ waiting[c] = NoOp
  /\ Starts(k, f)
  /\ count < MaxOps
  /\ count' = count + 1
  /\ op' = [op EXCEPT ![count + 1] = NewOp(k, f)]
  /\ index' = [index EXCEPT ![k] = Entry(f, count + 1, None)]
  /\ waiting' = [waiting EXCEPT ![c] = count + 1]
  /\ UNCHANGED <<completed, placed, answers, evicted>>

\* The callback that stores the result was registered first, so it has run
\* when the caller wakes up.
CallerReturns(c) ==
  /\ waiting[c] # NoOp
  /\ LET o == op[waiting[c]]
     IN  o.pc = "stored" /\ Answer(o.key, o.print, o.result)
  /\ waiting' = [waiting EXCEPT ![c] = NoOp]
  /\ UNCHANGED <<count, op, index, completed, placed, evicted>>

\* wait_for of the shielded task: the caller is told UNKNOWN_TIMEOUT and the
\* operation goes on.
CallerTimesOut(c) ==
  /\ waiting[c] # NoOp
  /\ LET o == op[waiting[c]]
     IN  o.pc # "stored" /\ Answer(o.key, o.print, "timeout")
  /\ waiting' = [waiting EXCEPT ![c] = NoOp]
  /\ UNCHANGED <<count, op, index, completed, placed, evicted>>

\* The caller's own task is cancelled (an admin request, a stopped worker).
CallerCancelled(c) ==
  /\ waiting[c] # NoOp
  /\ waiting' = [waiting EXCEPT ![c] = NoOp]
  /\ UNCHANGED <<count, op, index, completed, placed, answers, evicted>>

--------------------------------------------------------------------------------
(* Operations: _run_operation and _invoke_adapter. *)

SetOp(n, o) == op' = [op EXCEPT ![n] = o]

Begin(n) ==
  /\ op[n].pc = "created"
  /\ SetOp(n, [op[n] EXCEPT !.pc = "sign", !.call = "queued"])
  /\ UNCHANGED <<count, index, completed, waiting, placed, answers, evicted>>

Busy == {n \in Ops : op[n].call \in {"signing", "sending"}}

\* A thread of the pool takes the call.
ThreadStarts(n) ==
  /\ op[n].call = "queued"
  /\ Cardinality(Busy) < PoolSize
  /\ SetOp(n, [op[n] EXCEPT !.call = IF op[n].pc = "sign" THEN "signing" ELSE "sending"])
  /\ UNCHANGED <<count, index, completed, waiting, placed, answers, evicted>>

Signed(n) ==
  /\ op[n].pc = "sign"
  /\ op[n].call = "signing"
  /\ SetOp(n, [op[n] EXCEPT !.pc = "send", !.call = "queued"])
  /\ UNCHANGED <<count, index, completed, waiting, placed, answers, evicted>>

\* The exchange executes the request of a thread that is sending it, whether
\* or not somebody still waits for that thread.
Place(n) ==
  /\ op[n].call = "sending"
  /\ n \notin placed
  /\ placed' = placed \union {n}
  /\ UNCHANGED <<count, op, index, completed, waiting, answers, evicted>>

Returned(n, r) == [op[n] EXCEPT !.pc = "returned", !.call = "none", !.result = r]

\* The adapter answers, or raises: an exception does not tell whether the
\* exchange executed the request.
AdapterReturns(n) ==
  /\ \/ op[n].pc = "sign" /\ op[n].call = "signing" /\ SetOp(n, Returned(n, "failed"))
     \/ /\ op[n].pc = "send"
        /\ op[n].call = "sending"
        /\ \E r \in {"failed", IF n \in placed THEN "accepted" ELSE "rejected"} :
             SetOp(n, Returned(n, r))
  /\ UNCHANGED <<count, index, completed, waiting, placed, answers, evicted>>

\* Mutant: a call whose wait timed out is queued again.
AdapterTimesOutRequeues(n) ==
  /\ op[n].pc \in {"sign", "send"}
  /\ SetOp(n, [op[n] EXCEPT !.pc = "send", !.call = "queued"])
  /\ UNCHANGED <<count, index, completed, waiting, placed, answers, evicted>>

\* wait_for cancels a call no thread has taken; it cannot stop one that has.
AdapterTimesOut(n) ==
  /\ op[n].pc \in {"sign", "send"}
  /\ SetOp(n, [op[n] EXCEPT !.pc = "returned", !.result = "timeout",
                            !.call = IF @ = "queued" THEN "none" ELSE @])
  /\ UNCHANGED <<count, index, completed, waiting, placed, answers, evicted>>

\* The abandoned thread finishes; nobody reads its answer.
ThreadEnds(n) ==
  /\ op[n].pc \in {"returned", "stored"}
  /\ op[n].call \in {"signing", "sending"}
  /\ SetOp(n, [op[n] EXCEPT !.call = "none"])
  /\ UNCHANGED <<count, index, completed, waiting, placed, answers, evicted>>

--------------------------------------------------------------------------------
(* The idempotency index. *)

Positions(s, k) == {i \in 1..Len(s) : s[i] = k}

MovedToEnd(s, k) ==
  IF Positions(s, k) = {}
    THEN Append(s, k)
    ELSE LET p == CHOOSE i \in Positions(s, k) : TRUE
         IN  SubSeq(s, 1, p - 1) \o SubSeq(s, p + 1, Len(s)) \o <<k>>

Surplus(s) == IF Len(s) > MaxCached THEN Len(s) - MaxCached ELSE 0

Kept(s) == SubSeq(s, Surplus(s) + 1, Len(s))

TrimmedKeys(s) == {s[i] : i \in 1..Surplus(s)}

\* Mutant: a failure is not remembered, so that the caller can retry it.
FinishedUnlessFailed(n) ==
  Entry(index[op[n].key].print, NoOp, IF op[n].result = "failed" THEN None ELSE op[n].result)

Finished(n) == Entry(index[op[n].key].print, NoOp, op[n].result)

\* Mutant: a trimmed entry is removed with its fingerprint.
TrimmedToNothing(e) == NoEntry

Trimmed(e) == Entry(e.print, NoOp, None)

\* _store_task_result with _trim_completed_cache, the done callback.
StoreResult(n) ==
  /\ op[n].pc = "returned"
  /\ SetOp(n, [op[n] EXCEPT !.pc = "stored"])
  /\ LET k == op[n].key
         stored == [index EXCEPT ![k] = Finished(n)]
         cache == MovedToEnd(completed, k)
         out == TrimmedKeys(cache)
     IN  /\ completed' = Kept(cache)
         /\ index' = [j \in Keys |->
                        IF j \in out THEN Trimmed(stored[j]) ELSE stored[j]]
         /\ evicted' = evicted \union
              {m \in Ops : op[m].key \in out /\ op[m].pc \in {"returned", "stored"}}
  /\ UNCHANGED <<count, waiting, placed, answers>>

--------------------------------------------------------------------------------

Next ==
  \/ \E c \in Callers, k \in Keys, f \in Fingerprints :
       ExecuteAnswered(c, k, f) \/ ExecuteJoins(c, k, f) \/ ExecuteStarts(c, k, f)
  \/ \E c \in Callers : CallerReturns(c) \/ CallerTimesOut(c) \/ CallerCancelled(c)
  \/ \E n \in Ops :
       \/ Begin(n)
       \/ ThreadStarts(n)
       \/ Signed(n)
       \/ Place(n)
       \/ AdapterReturns(n)
       \/ AdapterTimesOut(n)
       \/ ThreadEnds(n)
       \/ StoreResult(n)

Spec == Init /\ [][Next]_vars

\* The event loop runs ready tasks and callbacks and its timers fire.  Nothing
\* is assumed of the threads: the exchange may never answer.
FairSpec ==
  /\ Spec
  /\ \A n \in Ops :
       WF_vars(Begin(n)) /\ WF_vars(AdapterTimesOut(n)) /\ WF_vars(StoreResult(n))

--------------------------------------------------------------------------------
(* Properties. *)

Progress == {"unused", "created", "sign", "send", "returned", "stored"}

TypeOK ==
  /\ count \in 0..MaxOps
  /\ op \in [Ops -> [key : Keys \union {None}, print : Fingerprints \union {None},
                     pc : Progress, call : {"none", "queued", "signing", "sending"},
                     result : Results \union {None}]]
  /\ index \in [Keys -> [print : Fingerprints \union {None}, task : Ops \union {NoOp},
                         result : Results \union {None}]]
  /\ completed \in Seq(Keys) /\ Len(completed) <= MaxCached
  /\ waiting \in [Callers -> Ops \union {NoOp}]
  /\ placed \subseteq Ops
  /\ evicted \subseteq Ops

Started == 1..count

\* However calls, timeouts, cancelled callers and late threads interleave, a
\* second operation of one key starts only after the first one's result was
\* stored and dropped by the cache: a retry of a timed out order joins the
\* operation in progress instead of sending the order again.
RestartedOnlyAfterEviction ==
  \A m, n \in Started : m < n /\ op[m].key = op[n].key => m \in evicted

\* The index and the cache keep to their types and bounds, and no operation
\* is started again early.
IndexSound == TypeOK /\ RestartedOnlyAfterEviction

Remembered(k) == \A n \in evicted : op[n].key # k

\* The same request under one key has one final result while it is remembered.
AnswersAgree ==
  \A a, b \in answers :
    Remembered(a.key) /\ a.key = b.key /\ a.print = b.print => a.result = b.result

\* Accepted orders are on the exchange, rejected ones never get there.
AnswersTrue ==
  \A a \in answers, n \in Started :
    Remembered(a.key) /\ op[n].key = a.key /\ op[n].print = a.print =>
      /\ a.result = "accepted" => n \in placed
      /\ a.result = "rejected" => n \notin placed

\* While the cache remembers a key, all callers with its request are told one
\* final result, and it is what happened: an accepted order is on the exchange,
\* a rejected one never gets there, not even from an abandoned thread.
AnswersSound == AnswersAgree /\ AnswersTrue

\* The idempotency index with its tasks and its cache is an implementation of
\* IdempotentCalls: a key stays bound to its first request, also after its
\* result was dropped; it has one operation at a time; its result is there as
\* long as it is one of the max_cached_results stored last, and no longer.
Promise == INSTANCE IdempotentCalls WITH
             Requests <- Fingerprints,
             Memory <- MaxCached,
             bound <- [k \in Keys |-> index[k].print],
             running <- {k \in Keys : index[k].task # NoOp},
             known <- [k \in Keys |-> index[k].result],
             memory <- completed

KeepsPromise == Promise!Spec

\* No operation hangs and keeps its key although the exchange never answers:
\* once the last of the MaxOps operations has begun, all end up stored.
OperationsEnd == <>[](\A n \in Ops : op[n].pc \in {"unused", "stored"})

================================================================================
