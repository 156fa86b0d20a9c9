---------------------------- MODULE IdempotentCalls ----------------------------
(***************************************************************************)
(* What a caller may expect of an executor with idempotency keys, without  *)
(* the tasks, threads, timeouts and cancelled callers that provide it.  A  *)
(* key belongs for ever to the first request made under it.  It is         *)
(* executed by one call at a time, and not again while the result of the   *)
(* last execution is remembered.  The memory holds the results of the keys *)
(* executed last; the oldest one makes room.                               *)
(***************************************************************************)
EXTENDS Naturals, Sequences

CONSTANTS
  Keys,
  Requests,
  Results,
  None,       \* no request, no result
  Memory      \* how many results are remembered

VARIABLES
  bound,      \* the request each key belongs to
  running,    \* keys being executed
  known,      \* the remembered result of each key
  memory      \* the keys remembered, oldest first

vars == <<bound, running, known, memory>>

Init ==
  /\ bound = [k \in Keys |-> None]
  /\ running = {}
  /\ known = [k \in Keys |-> None]
  /\ memory = <<>>

\* The first execution of a key, or one more after its result was forgotten.
Execute(k, r) ==
  /\ k \notin running /\ known[k] = None
  /\ bound[k] \in {None, r}
  /\ bound' = [bound EXCEPT ![k] = r]
  /\ running' = running \union {k}
  /\ UNCHANGED <<known, memory>>

Remember(k, v) ==
  /\ Len(memory) < Memory
  /\ memory' = Append(memory, k)
  /\ known' = [known EXCEPT ![k] = v]

RememberInstead(k, v) ==
  /\ Len(memory) = Memory
  /\ memory' = Append(Tail(memory), k)
  /\ known' = [known EXCEPT ![Head(memory)] = None, ![k] = v]

Complete(k, v) ==
  /\ k \in running
  /\ running' = running \ {k}
  /\ Remember(k, v) \/ RememberInstead(k, v)
  /\ UNCHANGED bound

Next ==
  \E k \in Keys :
    \/ \E r \in Requests : Execute(k, r)
    \/ \E v \in Results : Complete(k, v)

Spec == Init /\ [][Next]_vars

================================================================================
