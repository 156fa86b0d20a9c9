--------------------------- MODULE Supervision_proof ---------------------------
(***************************************************************************)
(* Proofs about DiscoveryScan and Supervision for any queries, of any      *)
(* number of pages, and any number of failures.                            *)
(***************************************************************************)
EXTENDS Supervision, TLAPS

--------------------------------------------------------------------------------
\* The turns of the queries.

\* Counting on from any place of a ring of L reaches every place of it.
LEMMA RingFacts ==
  ASSUME NEW L \in Nat \ {0}, NEW x \in 1..L
  PROVE  /\ \A i \in Nat : ((x - 1 + i) % L) + 1 \in 1..L
         /\ \A k \in 1..L : \E i \in 0..L-1 : ((x - 1 + i) % L) + 1 = k
<1>1. \A i \in Nat : ((x - 1 + i) % L) + 1 \in 1..L
  OBVIOUS
<1>2. ASSUME NEW k \in 1..L
      PROVE  \E i \in 0..L-1 : ((x - 1 + i) % L) + 1 = k
  <2>1. CASE x <= k
    <3>1. ((x - 1 + (k - x)) % L) + 1 = k
      BY <2>1
    <3>2. k - x \in 0..L-1
      BY <2>1
    <3>3. QED
      BY <3>1, <3>2, Zenon
  <2>2. CASE x > k
    <3>1. ((x - 1 + (k - x + L)) % L) + 1 = k
      <4>1. x - 1 + (k - x + L) = L + (k - 1)
        OBVIOUS
      <4>2. (L + (k - 1)) % L = k - 1
        OBVIOUS
      <4>3. QED
        BY <4>1, <4>2
    <3>2. k - x + L \in 0..L-1
      BY <2>2
    <3>3. QED
      BY <3>1, <3>2, Zenon
  <2>3. QED
    BY <2>1, <2>2
<1>3. QED
  BY <1>1, <1>2

LEMMA QueryFacts ==
  /\ Len(Queries) \in Nat \ {0}
  /\ \A i \in 1..Len(Queries) : Queries[i] \in Names
  /\ \A q \in Names : \E i \in 1..Len(Queries) : Queries[i] = q
<1>1. Queries \in Seq(Names) /\ Queries # <<>>
  BY ScanAssumption
<1>2. Names = {Queries[i] : i \in DOMAIN Queries}
  BY <1>1 DEF Names, ToSet
<1>3. QED
  BY <1>1, <1>2

\* The next query is one that is not completed, and there is one unless all are.
LEMMA TurnFacts ==
  ASSUME nextIndex \in 1..Len(Queries)
  PROVE  /\ \A turn \in NextTurn :
              /\ turn \in 1..Len(Queries)
              /\ Queries[turn] \in Names \ completed
              /\ (turn % Len(Queries)) + 1 \in 1..Len(Queries)
         /\ OpenTurns = {} => Names \subseteq completed
<1> DEFINE L == Len(Queries)
<1>1. L \in Nat \ {0}
  BY QueryFacts
<1>2. ASSUME NEW turn \in NextTurn
      PROVE  /\ turn \in 1..L
             /\ Queries[turn] \in Names \ completed
             /\ (turn % L) + 1 \in 1..L
  <2>1. PICK i \in OpenTurns : turn = Turn(i)
    BY <1>2 DEF NextTurn
  <2>2. i \in 0..L-1 /\ Queries[Turn(i)] \notin completed
    BY <2>1 DEF OpenTurns
  <2>3. turn \in 1..L
    BY <1>1, <2>1, <2>2, RingFacts DEF Turn
  <2>4. QED
    BY <1>1, <2>1, <2>2, <2>3, QueryFacts
<1>3. ASSUME OpenTurns = {}, NEW q \in Names
      PROVE  q \in completed
  <2>1. PICK k \in 1..L : Queries[k] = q
    BY QueryFacts
  <2>2. PICK i \in 0..L-1 : ((nextIndex - 1 + i) % L) + 1 = k
    BY <1>1, RingFacts
  <2>3. Turn(i) = k
    BY <2>2 DEF Turn
  <2>4. QED
    BY <1>3, <2>1, <2>3 DEF OpenTurns
<1>4. QED
  BY <1>2, <1>3

--------------------------------------------------------------------------------
\* The rounds of the scan.

CursorsTyped == cursors \in [Names -> Nat] /\ \A q \in Names : cursors[q] < PagesOf[q]

IndexTyped == completed \subseteq Names /\ nextIndex \in 1 .. Len(Queries)

TickTyped == ticking \in BOOLEAN

CountersTyped ==
  /\ requests \in 0 .. RequestBudget
  /\ failure \in {"none", "waiting"} /\ failures \in 0 .. MaxFailures /\ rounds \in {0, 1}

PagesTyped == covered \subseteq AllPages /\ lastRound \subseteq AllPages

\* What a cursor has passed, and every page of a completed query, was gone
\* through in this round.
ReadSoFar ==
  \A q \in Names : \A n \in 1 .. PagesOf[q] :
    q \in completed \/ n <= cursors[q] => <<q, n>> \in covered

ScanInv ==
  /\ CursorsTyped /\ IndexTyped /\ TickTyped /\ CountersTyped /\ PagesTyped
  /\ ReadSoFar /\ RoundsComplete

LEMMA PageFacts ==
  ASSUME NEW q \in Names
  PROVE  PagesOf[q] \in Nat \ {0} /\ \A n \in 1 .. PagesOf[q] : <<q, n>> \in AllPages
BY ScanAssumption DEF AllPages

LEMMA InitScanInv == ScanInit => ScanInv
<1> SUFFICES ASSUME ScanInit PROVE ScanInv
  OBVIOUS
<1>1. \A q \in Names : PagesOf[q] \in Nat \ {0}
  BY PageFacts
<1>2. CursorsTyped
  BY <1>1 DEF ScanInit, Start, CursorsTyped
<1>3. IndexTyped
  BY QueryFacts DEF ScanInit, IndexTyped
<1>4. CountersTyped
  BY ScanAssumption DEF ScanInit, CountersTyped
<1>5. ReadSoFar
  BY <1>1 DEF ScanInit, Start, ReadSoFar
<1>6. TickTyped
  BY DEF ScanInit, TickTyped
<1>7. QED
  BY <1>2, <1>3, <1>4, <1>5, <1>6 DEF ScanInit, ScanInv, PagesTyped, RoundsComplete

\* A page that is read is one of its query, the next after those it has passed.
LEMMA NextPageFacts ==
  ASSUME ScanInv, NEW turn \in NextTurn, NEW q, q = Queries[turn], NEW n, n = PageAfter(q)
  PROVE  /\ q \in Names \ completed /\ n \in 1 .. PagesOf[q] /\ n = cursors[q] + 1
         /\ <<q, n>> \in AllPages
         /\ covered \union {<<q, n>>} \subseteq AllPages
<1>1. q \in Names \ completed
  BY TurnFacts DEF ScanInv, IndexTyped
<1>2. n \in 1 .. PagesOf[q] /\ n = cursors[q] + 1
  BY <1>1, PageFacts DEF ScanInv, CursorsTyped, PageAfter
<1>3. QED
  BY <1>1, <1>2, PageFacts DEF ScanInv, PagesTyped

\* Recording a page that is gone through.
LEMMA RecordFacts ==
  ASSUME ScanInv, NEW turn \in NextTurn, NEW q, q = Queries[turn], NEW n, n = PageAfter(q),
         RecordPage(q, n), MovePast(turn), covered' = covered \union {<<q, n>>}
  PROVE  CursorsTyped' /\ IndexTyped' /\ ReadSoFar' /\ covered' \subseteq AllPages
<1>1. /\ q \in Names \ completed /\ n \in 1 .. PagesOf[q] /\ n = cursors[q] + 1
      /\ covered' \subseteq AllPages
  BY NextPageFacts
<1>2. \A p \in Names : PagesOf[p] \in Nat \ {0}
  BY PageFacts
<1>3. cursors' = [cursors EXCEPT ![q] = IF n >= PagesOf[q] THEN 0 ELSE n]
  BY DEF RecordPage, IsLast, Start
<1>4. completed' = IF n >= PagesOf[q] THEN completed \union {q} ELSE completed
  BY DEF RecordPage, CompletedBy, IsLast
<1>5. CursorsTyped'
  BY <1>1, <1>2, <1>3 DEF ScanInv, CursorsTyped
<1>6. IndexTyped'
  <2>1. nextIndex' \in 1 .. Len(Queries)
    BY TurnFacts DEF ScanInv, IndexTyped, MovePast
  <2>2. completed' \subseteq Names
    BY <1>1, <1>4 DEF ScanInv, IndexTyped
  <2>3. QED
    BY <2>1, <2>2 DEF IndexTyped
<1>7. ReadSoFar'
  <2> SUFFICES ASSUME NEW p \in Names, NEW k \in 1 .. PagesOf[p],
                      p \in completed' \/ k <= cursors'[p]
               PROVE  <<p, k>> \in covered'
    BY DEF ReadSoFar
  <2>1. CASE p # q
    <3>1. p \in completed \/ k <= cursors[p]
      BY <1>1, <1>3, <1>4, <2>1 DEF ScanInv, CursorsTyped
    <3>2. QED
      BY <3>1 DEF ScanInv, ReadSoFar
  <2>2. CASE p = q
    <3>1. k <= n
      BY <1>1, <1>2, <1>3, <1>4, <2>2 DEF ScanInv, CursorsTyped
    <3>2. CASE k = n
      BY <2>2, <3>2
    <3>3. CASE k <= cursors[q]
      BY <2>2, <3>3 DEF ScanInv, ReadSoFar
    <3>4. QED
      BY <1>1, <1>2, <2>2, <3>1, <3>2, <3>3 DEF ScanInv, CursorsTyped
  <2>3. QED
    BY <2>1, <2>2
<1>8. QED
  BY <1>1, <1>5, <1>6, <1>7

\* A round that went through everything may be finished.
LEMMA FinishFacts ==
  ASSUME ScanInv, NEW all, all = AllPages, FinishRound(all)
  PROVE  CursorsTyped' /\ IndexTyped' /\ PagesTyped' /\ ReadSoFar' /\ RoundsComplete'
         /\ rounds' \in {0, 1} /\ TickTyped'
<1>1. \A q \in Names : PagesOf[q] \in Nat \ {0}
  BY PageFacts
<1>2. cursors' = [q \in Names |-> 0] /\ completed' = {} /\ nextIndex' = 1
  BY DEF FinishRound, Start
<1>3. CursorsTyped'
  BY <1>1, <1>2 DEF CursorsTyped
<1>4. IndexTyped'
  BY <1>2, QueryFacts DEF IndexTyped
<1>5. ReadSoFar'
  BY <1>1, <1>2 DEF ReadSoFar
<1>6. PagesTyped' /\ RoundsComplete' /\ rounds' \in {0, 1}
  BY DEF FinishRound, PagesTyped, RoundsComplete, ScanInv, CountersTyped
<1>7. TickTyped'
  BY DEF FinishRound, TickTyped
<1>8. QED
  BY <1>3, <1>4, <1>5, <1>6, <1>7

LEMMA PageReadKeeps == ASSUME ScanInv, PageRead PROVE ScanInv'
<1>1. PICK turn \in NextTurn :
        LET q == Queries[turn]
            n == PageAfter(q)
        IN  IF CompletedBy(q, n) = Names
            THEN FinishRound(covered \union {<<q, n>>})
            ELSE /\ RecordPage(q, n) /\ MovePast(turn)
                 /\ covered' = covered \union {<<q, n>>}
                 /\ UNCHANGED <<rounds, lastRound, ticking>>
  BY DEF PageRead
<1> DEFINE q == Queries[turn]
           n == PageAfter(q)
<1> HIDE DEF q, n
<1>2. /\ requests' \in 0 .. RequestBudget /\ failure' \in {"none", "waiting"}
      /\ failures' \in 0 .. MaxFailures
  BY ScanAssumption DEF PageRead, ScanInv, CountersTyped
<1>3. CASE CompletedBy(q, n) = Names
  <2>1. FinishRound(covered \union {<<q, n>>})
    BY <1>1, <1>3 DEF q, n
  <2>2. /\ q \in Names \ completed /\ n \in 1 .. PagesOf[q] /\ n = cursors[q] + 1
        /\ covered \union {<<q, n>>} \subseteq AllPages
    BY NextPageFacts DEF q, n
  <2>3. Names = completed \union {q} /\ n >= PagesOf[q]
    BY <1>3, <2>2 DEF CompletedBy, IsLast
  <2>4. ASSUME NEW p \in Names, NEW k \in 1 .. PagesOf[p]
        PROVE  <<p, k>> \in covered \union {<<q, n>>}
    <3>1. CASE p # q
      BY <2>3, <3>1 DEF ScanInv, ReadSoFar
    <3>2. CASE p = q
      <4>1. k <= cursors[q] \/ k = n
        BY <2>2, <2>3, <3>2, PageFacts DEF ScanInv, CursorsTyped
      <4>2. QED
        BY <3>2, <4>1 DEF ScanInv, ReadSoFar
    <3>3. QED
      BY <3>1, <3>2
  <2>5. covered \union {<<q, n>>} = AllPages
    BY <2>2, <2>4 DEF AllPages
  <2>6. QED
    BY <1>2, <2>1, <2>5, FinishFacts DEF ScanInv, CountersTyped
<1>4. CASE CompletedBy(q, n) # Names
  <2>1. /\ RecordPage(q, n) /\ MovePast(turn)
        /\ covered' = covered \union {<<q, n>>}
        /\ UNCHANGED <<rounds, lastRound, ticking>>
    BY <1>1, <1>4 DEF q, n
  <2>2. CursorsTyped' /\ IndexTyped' /\ ReadSoFar' /\ covered' \subseteq AllPages
    BY <2>1, RecordFacts DEF q, n
  <2>3. QED
    BY <1>2, <2>1, <2>2 DEF ScanInv, TickTyped, CountersTyped, PagesTyped, RoundsComplete
<1>5. QED
  BY <1>3, <1>4

LEMMA NothingLeftKeeps == ASSUME ScanInv, NothingLeft PROVE ScanInv'
<1>1. Names \subseteq completed
  BY TurnFacts DEF NothingLeft, ScanInv, IndexTyped
<1>2. \A q \in Names : \A n \in 1 .. PagesOf[q] : <<q, n>> \in covered
  BY <1>1 DEF ScanInv, ReadSoFar
<1>3. covered = AllPages
  BY <1>2 DEF ScanInv, PagesTyped, AllPages
<1>4. FinishRound(covered) /\ UNCHANGED <<requests, failure, failures>>
  BY DEF NothingLeft
<1>5. QED
  BY <1>3, <1>4, FinishFacts DEF ScanInv, CountersTyped

LEMMA FailedKeeps == ASSUME ScanInv, RequestFails \/ IngestFails PROVE ScanInv'
<1>1. /\ TickTyped' /\ failure' \in {"none", "waiting"} /\ failures' \in 0 .. MaxFailures
      /\ UNCHANGED <<rounds, lastRound>>
  <2>1. Failed
    BY DEF RequestFails, IngestFails
  <2>2. TickTyped'
    BY <2>1 DEF Failed, TickTyped
  <2>3. failures' \in 0 .. MaxFailures
    BY <2>1, ScanAssumption DEF Failed, ScanInv, CountersTyped
  <2>4. QED
    BY <2>1, <2>2, <2>3 DEF Failed
<1>2. CASE RequestFails
  <2>1. PICK turn \in NextTurn : MovePast(turn)
    BY <1>2 DEF RequestFails
  <2>2. nextIndex' \in 1 .. Len(Queries)
    BY <2>1, TurnFacts DEF MovePast, ScanInv, IndexTyped
  <2>3. UNCHANGED <<cursors, completed, requests, covered>>
    BY <1>2 DEF RequestFails
  <2>4. QED
    BY <1>1, <2>2, <2>3
       DEF ScanInv, CursorsTyped, IndexTyped, CountersTyped, PagesTyped, ReadSoFar, RoundsComplete
<1>3. CASE IngestFails
  <2>1. PICK turn \in NextTurn :
          /\ RecordPage(Queries[turn], PageAfter(Queries[turn])) /\ MovePast(turn)
          /\ covered' = covered \union {<<Queries[turn], PageAfter(Queries[turn])>>}
    BY <1>3 DEF IngestFails
  <2>2. CursorsTyped' /\ IndexTyped' /\ ReadSoFar' /\ covered' \subseteq AllPages
    BY <2>1, RecordFacts
  <2>3. requests' \in 0 .. RequestBudget
    BY <1>3, ScanAssumption DEF IngestFails, ScanInv, CountersTyped
  <2>4. QED
    BY <1>1, <2>2, <2>3 DEF ScanInv, CountersTyped, PagesTyped, RoundsComplete
<1>4. QED
  BY <1>2, <1>3

LEMMA ScanStepKeeps ==
  ASSUME ScanInv, TickStarts \/ TickStep \/ RetryDue \/ TickCancelled \/ UNCHANGED scanVars
  PROVE  ScanInv'
<1>1. CASE PageRead
  BY <1>1, PageReadKeeps
<1>2. CASE NothingLeft
  BY <1>2, NothingLeftKeeps
<1>3. CASE RequestFails \/ IngestFails
  BY <1>3, FailedKeeps
<1>4. CASE TickStarts \/ TickEnds \/ RetryDue \/ TickCancelled \/ UNCHANGED scanVars
  <2>1. UNCHANGED <<cursors, completed, nextIndex, covered, lastRound>>
    BY <1>4 DEF TickStarts, TickEnds, RetryDue, TickCancelled, scanVars
  <2>2. CountersTyped'
    BY <1>4, ScanAssumption
       DEF TickStarts, TickEnds, RetryDue, TickCancelled, scanVars, ScanInv, CountersTyped
  <2>3. TickTyped'
    BY <1>4
       DEF TickStarts, TickEnds, RetryDue, TickCancelled, scanVars, ScanInv, TickTyped
  <2>4. QED
    BY <2>1, <2>2, <2>3 DEF ScanInv, CursorsTyped, IndexTyped, PagesTyped, ReadSoFar, RoundsComplete
<1>5. QED
  BY <1>1, <1>2, <1>3, <1>4 DEF TickStep

--------------------------------------------------------------------------------
\* The supervisor.

FlagsTyped ==
  /\ infraReady \in BOOLEAN /\ bootOk \in BOOLEAN /\ resuming \in BOOLEAN
  /\ lowPaused \in BOOLEAN /\ gate \in BOOLEAN /\ overloaded \in BOOLEAN
  /\ links \in BOOLEAN /\ fresh \in BOOLEAN

StateTyped ==
  /\ phase \in Phases /\ reason \in Reasons
  /\ trigger \in {"none", "queued", "retained"}
  /\ jobs \in [Jobs -> {"none", "timed", "running"}] /\ cancelled \subseteq Jobs
  /\ loop \in {"none", "idle", "running", "dead"}

\* Nothing runs before the start.
NothingBeforeStart ==
  phase \in {"config_loading", "recovering_snapshot", "reconciling"} =>
    ~resuming /\ ~gate /\ cancelled = {} /\ NoJobLeft

\* What has come up unsound keeps a reason of its own for ever, which is what
\* keeps the end of backpressure from opening the gate.
UnsoundKeepsReason ==
  /\ phase = "config_loading" => reason = NoReason
  /\ phase \in {"recovering_snapshot", "reconciling"} =>
       reason # Backpressure /\ (reason = NoReason => infraReady)
  /\ phase \in Up \union {"stopping", "stopped"} /\ reason \in {NoReason, Backpressure} =>
       infraReady /\ bootOk

\* A job is cancelled only by the shutdown, which cancels every one; a refresh
\* that awaits is one that runs.
JobsOwned ==
  /\ resuming => jobs["supervisor_refresh"] = "running"
  /\ cancelled # {} => phase = "stopping"
  /\ GoingDown => \A j \in Jobs : jobs[j] # "none" => j \in cancelled

SupInv ==
  /\ FlagsTyped /\ StateTyped
  /\ NothingBeforeStart /\ UnsoundKeepsReason /\ JobsOwned
  /\ BackpressureOwned /\ OpenOnlyIfSound

IInv == ScanInv /\ SupInv

LEMMA InitIInv == Init => IInv
<1> SUFFICES ASSUME Init PROVE IInv
  OBVIOUS
<1>1. ScanInv
  BY InitScanInv DEF Init
<1>2. FlagsTyped
  BY DEF Init, FlagsTyped
<1>3. StateTyped
  BY DEF Init, StateTyped, Phases, Reasons
<1>4. NothingBeforeStart /\ UnsoundKeepsReason
  BY DEF Init, NothingBeforeStart, NoJobLeft, UnsoundKeepsReason, Up
<1>5. JobsOwned /\ BackpressureOwned /\ OpenOnlyIfSound
  BY DEF Init, JobsOwned, GoingDown, BackpressureOwned, OpenOnlyIfSound, NoReason, Backpressure
<1>6. QED
  BY <1>1, <1>2, <1>3, <1>4, <1>5 DEF IInv, SupInv

\* What every action does to the scan.
LEMMA ScanKept == ASSUME IInv, [Next]_vars PROVE ScanInv'
<1>1. TickStarts \/ TickStep \/ RetryDue \/ TickCancelled \/ UNCHANGED scanVars
  BY DEF Next, vars, Environment, Boot, InfraChecked, SnapshotLoaded, Started, RunRefresh,
         RefreshResumed, RunPeriodicReconcile, RunScan, ScanGoesOn, BackoffPasses, Reconcile,
         ReconcileStarts, ReconcileEnds, StopAsked, Shutdown, Stopped, JobEnds
<1>2. QED
  BY <1>1, ScanStepKeeps DEF IInv, SupInv

\* Jobs that are run belong to a process that is up.
LEMMA RunningIsUp ==
  ASSUME IInv, NEW j \in Jobs, jobs[j] # "none", j \notin cancelled
  PROVE  phase \in Up
BY DEF IInv, SupInv, StateTyped, Phases, NothingBeforeStart, NoJobLeft, JobsOwned, GoingDown, Up

\* The end of a refresh, with what it makes of reason and phase.
LEMMA ConcludedFacts ==
  ASSUME IInv, phase \in Up, NEW r \in Reasons, NEW p \in Up,
         r \in {NoReason, Backpressure} => infraReady /\ bootOk,
         Concluded(r, p), UNCHANGED <<infraReady, bootOk>>
  PROVE  /\ phase' \in Up /\ reason' = r /\ gate' \in BOOLEAN
         /\ NothingBeforeStart' /\ UnsoundKeepsReason' /\ OpenOnlyIfSound'
<1>1. phase' \in Up /\ reason' = r
  BY DEF Concluded, Up
<1>2. gate' \in BOOLEAN
  BY DEF Concluded, Ready
<1>3. NothingBeforeStart' /\ UnsoundKeepsReason'
  BY <1>1 DEF NothingBeforeStart, UnsoundKeepsReason, Up
<1>4. OpenOnlyIfSound'
  BY DEF Concluded, Ready, OpenOnlyIfSound
<1>5. QED
  BY <1>1, <1>2, <1>3, <1>4

LEMMA RunRefreshKeeps == ASSUME IInv, RunRefresh PROVE SupInv'
<1>1. phase \in Up
  BY RunningIsUp DEF RunRefresh, Jobs
<1>2. reason \in {NoReason, Backpressure} => infraReady /\ bootOk
  BY <1>1 DEF IInv, SupInv, UnsoundKeepsReason
<1>3. UNCHANGED <<infraReady, bootOk, cancelled, overloaded, links, fresh, loop>>
  BY DEF RunRefresh
<1>4. ~resuming /\ jobs["supervisor_refresh"] = "timed"
  BY DEF RunRefresh, IInv, SupInv, JobsOwned
<1>5. /\ phase' \in Up /\ reason' \in Reasons /\ gate' \in BOOLEAN
      /\ NothingBeforeStart' /\ UnsoundKeepsReason' /\ OpenOnlyIfSound'
      /\ lowPaused' \in BOOLEAN /\ resuming' \in BOOLEAN
      /\ trigger' \in {"none", "queued", "retained"}
      /\ BackpressureOwned'
  <2>1. CASE overloaded
    <3> DEFINE r == IF reason = NoReason THEN Backpressure ELSE reason
               p == IF phase = "trading_enabled" THEN "degraded" ELSE phase
    <3>1. Concluded(r, p) /\ lowPaused' = TRUE /\ UNCHANGED <<resuming, trigger>>
      BY <2>1 DEF RunRefresh, Refreshed
    <3>2. r \in Reasons /\ p \in Up /\ (r \in {NoReason, Backpressure} => infraReady /\ bootOk)
      BY <1>1, <1>2 DEF IInv, SupInv, StateTyped, Reasons, Up
    <3>3. /\ phase' \in Up /\ reason' = r /\ gate' \in BOOLEAN
          /\ NothingBeforeStart' /\ UnsoundKeepsReason' /\ OpenOnlyIfSound'
      BY <1>1, <1>3, <3>1, <3>2, ConcludedFacts
    <3>4. QED
      BY <3>1, <3>2, <3>3 DEF IInv, SupInv, FlagsTyped, StateTyped, BackpressureOwned
  <2>2. CASE ~overloaded /\ lowPaused
    <3>1. /\ lowPaused' = FALSE /\ resuming' = TRUE
          /\ trigger' = IF trigger = "retained" THEN "queued" ELSE trigger
          /\ UNCHANGED <<reason, phase, gate>>
      BY <2>2 DEF RunRefresh, Refreshed
    <3>2. NothingBeforeStart' /\ UnsoundKeepsReason' /\ OpenOnlyIfSound'
      BY <1>1, <1>3, <3>1 DEF IInv, SupInv, NothingBeforeStart, UnsoundKeepsReason, OpenOnlyIfSound, Up
    <3>3. QED
      BY <1>1, <3>1, <3>2 DEF IInv, SupInv, FlagsTyped, StateTyped, BackpressureOwned
  <2>3. CASE ~overloaded /\ ~lowPaused
    <3>1. Concluded(reason, phase) /\ UNCHANGED <<lowPaused, resuming, trigger>>
      BY <2>3 DEF RunRefresh, Refreshed
    <3>2. /\ phase' \in Up /\ reason' = reason /\ gate' \in BOOLEAN
          /\ NothingBeforeStart' /\ UnsoundKeepsReason' /\ OpenOnlyIfSound'
      BY <1>1, <1>2, <1>3, <3>1, ConcludedFacts DEF IInv, SupInv, StateTyped
    <3>3. QED
      BY <1>1, <3>1, <3>2 DEF IInv, SupInv, FlagsTyped, StateTyped, BackpressureOwned, Up
  <2>4. QED
    BY <2>1, <2>2, <2>3
<1>6. jobs' = [jobs EXCEPT !["supervisor_refresh"] = IF resuming' THEN "running" ELSE "timed"]
  BY DEF RunRefresh
<1>7. FlagsTyped' /\ StateTyped'
  <2>1. FlagsTyped'
    BY <1>3, <1>5 DEF IInv, SupInv, FlagsTyped
  <2>2. jobs' \in [Jobs -> {"none", "timed", "running"}]
    BY <1>6 DEF IInv, SupInv, StateTyped
  <2>3. QED
    BY <1>3, <1>5, <2>1, <2>2 DEF IInv, SupInv, StateTyped, Phases
<1>8. JobsOwned'
  <2>1. resuming' => jobs'["supervisor_refresh"] = "running"
    BY <1>6 DEF IInv, SupInv, StateTyped, Jobs
  <2>2. cancelled' = {} /\ ~GoingDown'
    BY <1>1, <1>3, <1>5 DEF IInv, SupInv, JobsOwned, GoingDown, Up
  <2>3. QED
    BY <2>1, <2>2 DEF JobsOwned
<1>9. QED
  BY <1>5, <1>7, <1>8 DEF SupInv

LEMMA RefreshResumedKeeps == ASSUME IInv, RefreshResumed PROVE SupInv'
<1> DEFINE r == Relief(reason)
           p == PhaseAfter(reason, phase)
<1>1. /\ resuming /\ "supervisor_refresh" \notin cancelled /\ Concluded(r, p)
      /\ resuming' = FALSE /\ jobs' = [jobs EXCEPT !["supervisor_refresh"] = "timed"]
      /\ UNCHANGED <<infraReady, bootOk, cancelled, lowPaused, overloaded, links, fresh,
                     trigger, loop>>
  BY DEF RefreshResumed
<1>2. phase \in Up
  BY <1>1, RunningIsUp DEF IInv, SupInv, JobsOwned, Jobs
<1>3. /\ r \in Reasons \ {Backpressure} /\ p \in Up
      /\ r \in {NoReason, Backpressure} => infraReady /\ bootOk
  BY <1>2 DEF IInv, SupInv, StateTyped, UnsoundKeepsReason, Relief, PhaseAfter, Reasons, NoReason,
              Backpressure, Up
<1>4. /\ phase' \in Up /\ reason' = r /\ gate' \in BOOLEAN
      /\ NothingBeforeStart' /\ UnsoundKeepsReason' /\ OpenOnlyIfSound'
  BY <1>1, <1>2, <1>3, ConcludedFacts
<1>5. BackpressureOwned'
  BY <1>3, <1>4 DEF BackpressureOwned
<1>6. FlagsTyped'
  BY <1>1, <1>4 DEF IInv, SupInv, FlagsTyped
<1>7. StateTyped'
  BY <1>1, <1>3, <1>4 DEF IInv, SupInv, StateTyped, Phases
<1>8. JobsOwned'
  BY <1>1, <1>2, <1>4 DEF IInv, SupInv, JobsOwned, GoingDown, Up
<1>9. QED
  BY <1>4, <1>5, <1>6, <1>7, <1>8 DEF SupInv

\* Steps that touch neither the supervisor nor which jobs there are.
LEMMA QuietKeeps ==
  ASSUME IInv, StateTyped', FlagsTyped',
         UNCHANGED <<phase, reason, infraReady, bootOk, cancelled, resuming, lowPaused, gate>>,
         jobs' = jobs \/ \E j \in Jobs : /\ j # "supervisor_refresh" /\ phase \in Up
                                        /\ \A i \in Jobs \ {j} : jobs'[i] = jobs[i]
  PROVE  SupInv'
<1>1. NothingBeforeStart'
  BY DEF IInv, SupInv, NothingBeforeStart, NoJobLeft, Up
<1>2. UnsoundKeepsReason' /\ BackpressureOwned' /\ OpenOnlyIfSound'
  BY DEF IInv, SupInv, UnsoundKeepsReason, BackpressureOwned, OpenOnlyIfSound
<1>3. JobsOwned'
  <2>1. CASE jobs' = jobs
    BY <2>1 DEF IInv, SupInv, JobsOwned, GoingDown
  <2>2. CASE jobs' # jobs
    <3>1. phase \in Up /\ jobs'["supervisor_refresh"] = jobs["supervisor_refresh"]
      BY <2>2 DEF Jobs
    <3>2. QED
      BY <3>1 DEF IInv, SupInv, JobsOwned, GoingDown, Up
  <2>3. QED
    BY <2>1, <2>2
<1>4. QED
  BY <1>1, <1>2, <1>3 DEF SupInv

LEMMA QuietStepsKeep ==
  ASSUME IInv,
         Environment \/ RunPeriodicReconcile \/ BackoffPasses \/ Reconcile \/ UNCHANGED vars
  PROVE  SupInv'
<1>1. UNCHANGED <<phase, reason, infraReady, bootOk, jobs, cancelled, resuming, lowPaused, gate>>
  BY DEF Environment, RunPeriodicReconcile, BackoffPasses, Reconcile, ReconcileStarts,
         ReconcileEnds, supVars, vars
<1>2. overloaded' \in BOOLEAN /\ links' \in BOOLEAN /\ fresh' \in BOOLEAN
  BY DEF IInv, SupInv, FlagsTyped, Environment, LoadChanges, LinksChange, GrowsStale,
         RunPeriodicReconcile, BackoffPasses, Reconcile, ReconcileStarts, ReconcileEnds, LoopFails,
         supVars, vars
<1>3. FlagsTyped'
  BY <1>1, <1>2 DEF IInv, SupInv, FlagsTyped
<1>4. /\ trigger' \in {"none", "queued", "retained"}
      /\ loop' \in {"none", "idle", "running", "dead"}
  BY DEF IInv, SupInv, StateTyped, Environment, RunPeriodicReconcile, PublishedLow, BackoffPasses,
         Reconcile, ReconcileStarts, ReconcileEnds, LoopFails, supVars, vars
<1>5. StateTyped'
  BY <1>1, <1>4 DEF IInv, SupInv, StateTyped
<1>6. QED
  BY <1>1, <1>3, <1>5, QuietKeeps

LEMMA ScanJobKeeps == ASSUME IInv, RunScan \/ ScanGoesOn PROVE SupInv'
<1> DEFINE scan == "market_discovery_scan"
<1>1. /\ jobs[scan] # "none" /\ scan \notin cancelled /\ scan \in Jobs
      /\ jobs' = [jobs EXCEPT ![scan] = IF ticking' THEN "running" ELSE "timed"]
      /\ UNCHANGED <<phase, reason, infraReady, bootOk, cancelled, resuming, lowPaused, gate,
                     overloaded, links, fresh, loop>>
  BY DEF RunScan, ScanGoesOn, Jobs
<1>2. phase \in Up
  BY <1>1, RunningIsUp
<1>3. FlagsTyped'
  BY <1>1 DEF IInv, SupInv, FlagsTyped
<1>4. trigger' \in {"none", "queued", "retained"}
  BY DEF IInv, SupInv, StateTyped, RunScan, ScanGoesOn, PublishedLow
<1>5. StateTyped'
  BY <1>1, <1>4 DEF IInv, SupInv, StateTyped
<1>6. \A i \in Jobs \ {scan} : jobs'[i] = jobs[i]
  BY <1>1 DEF IInv, SupInv, StateTyped
<1>7. QED
  BY <1>1, <1>2, <1>3, <1>5, <1>6, QuietKeeps

LEMMA BootKeeps == ASSUME IInv, Boot PROVE SupInv'
<1>1. CASE InfraChecked
  <2>1. /\ phase = "config_loading" /\ phase' = "recovering_snapshot"
        /\ infraReady' \in BOOLEAN
        /\ reason' = IF infraReady' THEN reason ELSE "infra_unavailable"
        /\ UNCHANGED <<bootOk, jobs, cancelled, resuming, lowPaused, gate, overloaded, links,
                       fresh, trigger, loop>>
    BY <1>1 DEF InfraChecked
  <2>2. FlagsTyped'
    BY <2>1 DEF IInv, SupInv, FlagsTyped
  <2>3. StateTyped'
    BY <2>1 DEF IInv, SupInv, StateTyped, Phases, Reasons
  <2>4. ~gate /\ ~resuming /\ cancelled = {} /\ NoJobLeft /\ reason = NoReason
    BY <2>1 DEF IInv, SupInv, NothingBeforeStart, UnsoundKeepsReason
  <2>5. NothingBeforeStart' /\ UnsoundKeepsReason'
    BY <2>1, <2>4 DEF NothingBeforeStart, NoJobLeft, UnsoundKeepsReason, NoReason, Backpressure, Up
  <2>6. JobsOwned' /\ BackpressureOwned' /\ OpenOnlyIfSound'
    BY <2>1, <2>4
       DEF JobsOwned, GoingDown, BackpressureOwned, OpenOnlyIfSound, NoReason, Backpressure
  <2>7. QED
    BY <2>2, <2>3, <2>5, <2>6 DEF SupInv
<1>2. CASE SnapshotLoaded
  <2>1. /\ phase = "recovering_snapshot" /\ phase' = "reconciling"
        /\ UNCHANGED <<reason, infraReady, bootOk, jobs, cancelled, resuming, lowPaused, gate,
                       overloaded, links, fresh, trigger, loop>>
    BY <1>2 DEF SnapshotLoaded
  <2>2. FlagsTyped' /\ StateTyped'
    BY <2>1 DEF IInv, SupInv, FlagsTyped, StateTyped, Phases
  <2>3. ~gate /\ ~resuming /\ cancelled = {} /\ NoJobLeft
    BY <2>1 DEF IInv, SupInv, NothingBeforeStart
  <2>4. NothingBeforeStart' /\ UnsoundKeepsReason'
    BY <2>1, <2>3 DEF IInv, SupInv, NothingBeforeStart, NoJobLeft, UnsoundKeepsReason, Up
  <2>5. JobsOwned' /\ BackpressureOwned' /\ OpenOnlyIfSound'
    BY <2>1, <2>3
       DEF IInv, SupInv, UnsoundKeepsReason, JobsOwned, GoingDown, BackpressureOwned, OpenOnlyIfSound
  <2>6. QED
    BY <2>2, <2>4, <2>5 DEF SupInv
<1>3. CASE Started
  <2>1. PICK ok \in BOOLEAN :
          LET r == IF ok THEN reason ELSE "startup_reconcile_failed"
              full == IF overloaded /\ r = NoReason THEN Backpressure ELSE r
          IN  /\ bootOk' = ok
              /\ fresh' = (fresh \/ ok)
              /\ reason' = full
              /\ lowPaused' = overloaded
              /\ gate' = (ok /\ links /\ infraReady /\ full = NoReason)
              /\ phase' = IF gate' THEN "trading_enabled" ELSE "workers_started"
    BY <1>3 DEF Started
  <2>2. /\ phase = "reconciling" /\ loop' = "idle" /\ jobs' = [j \in Jobs |-> "timed"]
        /\ UNCHANGED <<infraReady, cancelled, resuming, overloaded, links, trigger>>
    BY <1>3 DEF Started, BackgroundTasksStarted, JobsRegistered
  <2>3. ~resuming /\ cancelled = {}
    BY <2>2 DEF IInv, SupInv, NothingBeforeStart
  <2>4. FlagsTyped'
    BY <2>1, <2>2, Zenon DEF IInv, SupInv, FlagsTyped
  <2>5. phase' \in Up
    BY <2>1, Zenon DEF Up
  <2>6. reason' \in Reasons
    BY <2>1 DEF IInv, SupInv, StateTyped, Reasons
  <2>7. StateTyped'
    BY <2>2, <2>5, <2>6 DEF IInv, SupInv, StateTyped, Phases
  <2>8. reason' \in {NoReason, Backpressure} => infraReady' /\ bootOk'
    BY <2>1, <2>2 DEF IInv, SupInv, UnsoundKeepsReason, NoReason, Backpressure
  <2>9. NothingBeforeStart' /\ UnsoundKeepsReason'
    BY <2>5, <2>8 DEF NothingBeforeStart, UnsoundKeepsReason, Up
  <2>10. JobsOwned'
    BY <2>2, <2>3, <2>5 DEF JobsOwned, GoingDown, Up
  <2>11. BackpressureOwned'
    BY <2>1, <2>2 DEF IInv, SupInv, UnsoundKeepsReason, BackpressureOwned, NoReason, Backpressure
  <2>12. OpenOnlyIfSound'
    BY <2>1, <2>2 DEF OpenOnlyIfSound
  <2>13. QED
    BY <2>4, <2>7, <2>9, <2>10, <2>11, <2>12 DEF SupInv
<1>4. QED
  BY <1>1, <1>2, <1>3 DEF Boot

LEMMA StopKeeps == ASSUME IInv, StopAsked \/ Shutdown PROVE SupInv'
<1>1. CASE StopAsked
  <2>1. /\ phase' = "stopping" /\ gate' = FALSE
        /\ cancelled' = {j \in Jobs : jobs[j] # "none"}
        /\ UNCHANGED <<reason, infraReady, bootOk, jobs, resuming, lowPaused, overloaded, links,
                       fresh, trigger, loop>>
        /\ phase \in Up
    BY <1>1 DEF StopAsked
  <2>2. FlagsTyped' /\ StateTyped'
    BY <2>1 DEF IInv, SupInv, FlagsTyped, StateTyped, Phases
  <2>3. NothingBeforeStart' /\ UnsoundKeepsReason'
    BY <2>1 DEF IInv, SupInv, NothingBeforeStart, UnsoundKeepsReason, Up
  <2>4. JobsOwned' /\ BackpressureOwned' /\ OpenOnlyIfSound'
    BY <2>1 DEF IInv, SupInv, JobsOwned, GoingDown, BackpressureOwned, OpenOnlyIfSound
  <2>5. QED
    BY <2>2, <2>3, <2>4 DEF SupInv
<1>2. ASSUME NEW j \in Jobs, JobEnds(j) PROVE SupInv'
  <2>1. /\ j \in cancelled /\ jobs' = [jobs EXCEPT ![j] = "none"] /\ cancelled' = cancelled \ {j}
        /\ resuming' = (resuming /\ j # "supervisor_refresh")
        /\ UNCHANGED <<phase, reason, infraReady, bootOk, lowPaused, gate, overloaded, links,
                       fresh, trigger, loop>>
    BY <1>2 DEF JobEnds
  <2>2. phase = "stopping"
    BY <2>1 DEF IInv, SupInv, JobsOwned
  <2>3. FlagsTyped' /\ StateTyped'
    BY <2>1 DEF IInv, SupInv, FlagsTyped, StateTyped
  <2>4. NothingBeforeStart' /\ UnsoundKeepsReason' /\ BackpressureOwned' /\ OpenOnlyIfSound'
    BY <2>1, <2>2
       DEF IInv, SupInv, NothingBeforeStart, UnsoundKeepsReason, BackpressureOwned, OpenOnlyIfSound
  <2>5. JobsOwned'
    <3>1. \A i \in Jobs : jobs'[i] = IF i = j THEN "none" ELSE jobs[i]
      BY <2>1 DEF IInv, SupInv, StateTyped
    <3>2. resuming' => jobs'["supervisor_refresh"] = "running"
      BY <2>1, <3>1 DEF IInv, SupInv, JobsOwned, Jobs
    <3>3. \A i \in Jobs : jobs'[i] # "none" => i \in cancelled'
      BY <2>1, <2>2, <3>1 DEF IInv, SupInv, JobsOwned, GoingDown
    <3>4. QED
      BY <2>1, <2>2, <3>2, <3>3 DEF JobsOwned
  <2>6. QED
    BY <2>3, <2>4, <2>5 DEF SupInv
<1>3. CASE Stopped
  <2>1. /\ phase = "stopping" /\ cancelled = {} /\ phase' = "stopped" /\ loop' = "none"
        /\ UNCHANGED <<reason, infraReady, bootOk, jobs, cancelled, resuming, lowPaused, gate,
                       overloaded, links, fresh, trigger>>
    BY <1>3 DEF Stopped
  <2>2. FlagsTyped' /\ StateTyped'
    BY <2>1 DEF IInv, SupInv, FlagsTyped, StateTyped, Phases
  <2>3. NothingBeforeStart' /\ UnsoundKeepsReason' /\ BackpressureOwned' /\ OpenOnlyIfSound'
    BY <2>1
       DEF IInv, SupInv, NothingBeforeStart, UnsoundKeepsReason, BackpressureOwned, OpenOnlyIfSound
  <2>4. JobsOwned'
    BY <2>1 DEF IInv, SupInv, JobsOwned, GoingDown
  <2>5. QED
    BY <2>2, <2>3, <2>4 DEF SupInv
<1>4. QED
  BY <1>1, <1>2, <1>3 DEF Shutdown

LEMMA NextKeepsIInv == IInv /\ [Next]_vars => IInv'
<1> SUFFICES ASSUME IInv, [Next]_vars PROVE IInv'
  OBVIOUS
<1>1. SupInv'
  BY RunRefreshKeeps, RefreshResumedKeeps, QuietStepsKeep, ScanJobKeeps, BootKeeps, StopKeeps
     DEF Next
<1>2. QED
  BY <1>1, ScanKept DEF IInv

--------------------------------------------------------------------------------
LEMMA IInvImplies == IInv => SupervisionSound /\ RoundsComplete
<1> SUFFICES ASSUME IInv PROVE SupervisionSound /\ RoundsComplete
  OBVIOUS
<1>1. ScanTypeOK
  BY DEF IInv, ScanInv, CursorsTyped, IndexTyped, TickTyped, CountersTyped, PagesTyped, ScanTypeOK
<1>2. {infraReady, bootOk, resuming, lowPaused, gate, overloaded, links, fresh} \subseteq BOOLEAN
  BY Zenon DEF IInv, SupInv, FlagsTyped
<1>3. TypeOK
  BY <1>1, <1>2 DEF IInv, SupInv, StateTyped, TypeOK
<1>4. QED
  BY <1>3 DEF IInv, SupInv, ScanInv, SupervisionSound

\* Whatever load, failures and cancelled jobs do, backpressure is always taken
\* back, and it never opens the gate of a process that came up unsound.
THEOREM BackpressureEnds == Spec => []SupervisionSound
<1>1. QED
  BY InitIInv, NextKeepsIInv, IInvImplies, PTL DEF Spec

\* A round of the scan that is finished has gone through every page, however
\* many queries and pages there are and wherever its ticks ended or failed.
THEOREM EveryPageRead == Spec => []RoundsComplete
<1>1. QED
  BY InitIInv, NextKeepsIInv, IInvImplies, PTL DEF Spec

\* No job or refresh that was under way brings a process back that is going
\* down, or outlives it.
THEOREM DownStaysDown == Spec => NeverRevived
<1> DEFINE Down == GoingDown => GoingDown' /\ ~gate' /\ (phase' = "stopped" => NoJobLeft')
<1>1. ASSUME IInv, IInv', [Next]_vars, GoingDown
      PROVE  GoingDown' /\ ~gate' /\ (phase' = "stopped" => NoJobLeft')
  <2>1. \A j \in Jobs : jobs[j] # "none" => j \in cancelled
    BY <1>1 DEF IInv, SupInv, JobsOwned
  <2>2. ~RunRefresh /\ ~RefreshResumed
    BY <1>1, <2>1 DEF IInv, SupInv, JobsOwned, RunRefresh, RefreshResumed, Jobs
  <2>3. GoingDown'
    BY <1>1, <2>2
       DEF GoingDown, Next, vars, supVars, Environment, Boot, InfraChecked, SnapshotLoaded, Started,
           RunPeriodicReconcile, RunScan, ScanGoesOn, BackoffPasses, Reconcile, ReconcileStarts,
           ReconcileEnds, StopAsked, Shutdown, Stopped, JobEnds
  <2>4. ~gate'
    BY <1>1, <2>3 DEF IInv, SupInv, OpenOnlyIfSound, GoingDown
  <2>5. phase' = "stopped" => NoJobLeft'
    BY <1>1, <2>3 DEF IInv, SupInv, JobsOwned, GoingDown, NoJobLeft
  <2>6. QED
    BY <2>3, <2>4, <2>5
<1>2. IInv /\ IInv' /\ [Next]_vars => [Down]_vars
  BY <1>1
<1>3. QED
  BY <1>2, InitIInv, NextKeepsIInv, PTL DEF Spec, NeverRevived
================================================================================
