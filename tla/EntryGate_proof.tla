---------------------------- MODULE EntryGate_proof ----------------------------
(***************************************************************************)
(* Proofs about EntryGate for every set of markets and of reconcile        *)
(* callers.                                                                *)
(***************************************************************************)
EXTENDS EntryGate, SequenceTheorems, TLAPS

Verdicts == Reasons \union {"resume"}

\* Plans are closed under what a run does with them.
LEMMA PlanFacts ==
  /\ <<>> \in Plans
  /\ \A S \in SUBSET Markets : [S -> Verdicts] \subseteq Plans
  /\ \A p \in Plans : \A S : S \subseteq DOMAIN p => [n \in S |-> p[n]] \in Plans
<1>1. \A S \in SUBSET Markets : [S -> Verdicts] \subseteq Plans
  BY DEF Plans, Verdicts
<1>2. <<>> \in Plans
  <2>1. <<>> \in Seq(Verdicts) /\ Len(<<>>) = 0
    BY EmptySeq
  <2>2. <<>> \in [1..0 -> Verdicts]
    BY <2>1
  <2>3. 1..0 = {}
    OBVIOUS
  <2>4. QED
    BY <1>1, <2>2, <2>3
<1>3. ASSUME NEW p \in Plans, NEW S, S \subseteq DOMAIN p
      PROVE  [n \in S |-> p[n]] \in Plans
  <2>1. PICK D \in SUBSET Markets : p \in [D -> Verdicts]
    BY <1>3 DEF Plans, Verdicts
  <2>2. [n \in S |-> p[n]] \in [S -> Verdicts] /\ S \in SUBSET Markets
    BY <1>3, <2>1
  <2>3. QED
    BY <1>1, <2>2
<1>4. QED
  BY <1>1, <1>2, <1>3

\* A plan of any scope has a verdict for each of its markets.
LEMMA PlanTyped ==
  ASSUME TypeOK, NEW scope \in SUBSET Markets
  PROVE  Plan(scope) \in Plans
<1> DEFINE D == {n \in scope : Verdict(n) # "keep"}
<1>1. ASSUME NEW m \in Markets PROVE PauseReason(m) \in Reasons
  <2>1. Sticky(pause[m]) => pause[m].reason \in Reasons
    BY <1>1 DEF TypeOK, Sticky
  <2>2. "market_not_tradable" \in Reasons
    BY DEF Reasons
  <2>3. QED
    BY <2>1, <2>2 DEF PauseReason
<1>2. ASSUME NEW m \in D PROVE Verdict(m) \in Verdicts
  BY <1>1, <1>2 DEF Verdict, Verdicts
<1>3. Plan(scope) \in [D -> Verdicts]
  <2>1. Plan(scope) = [m \in D |-> Verdict(m)]
    BY DEF Plan
  <2>2. QED
    BY <1>2, <2>1
<1>4. D \in SUBSET Markets
  OBVIOUS
<1>5. QED
  BY <1>3, <1>4, PlanFacts

GateTyped ==
  /\ wsConnected \in BOOLEAN /\ reconciled \in BOOLEAN /\ allowEntries \in BOOLEAN
  /\ allowEntries => GateCanOpen

\* What the operations of the store keep.
LEMMA GateFacts ==
  ASSUME GateTyped, MarkConnected \/ MarkDisconnected \/ MarkReconciled
                      \/ SetAllowNewEntries(TRUE) \/ SetAllowNewEntries(FALSE) \/ UNCHANGED gate
  PROVE  GateTyped'
<1>1. CASE MarkConnected
  BY <1>1, Zenon DEF GateTyped, GateCanOpen, MarkConnected
<1>2. CASE MarkDisconnected
  BY <1>2, Zenon DEF GateTyped, GateCanOpen, MarkDisconnected
<1>3. CASE MarkReconciled
  BY <1>3, Zenon DEF GateTyped, GateCanOpen, MarkReconciled
<1>4. CASE SetAllowNewEntries(TRUE)
  BY <1>4, Zenon DEF GateTyped, GateCanOpen, SetAllowNewEntries
<1>5. CASE SetAllowNewEntries(FALSE)
  BY <1>5, Zenon DEF GateTyped, GateCanOpen, SetAllowNewEntries
<1>6. CASE UNCHANGED gate
  <2>1. UNCHANGED <<wsConnected, reconciled, allowEntries>>
    BY <1>6 DEF gate
  <2>2. QED
    BY <2>1, Zenon DEF GateTyped, GateCanOpen
<1>7. QED
  BY <1>1, <1>2, <1>3, <1>4, <1>5, <1>6

PauseTyped == pause \in [Markets -> {NoPause} \union [source : Sources, reason : Reasons]]

LEMMA PauseFacts ==
  ASSUME PauseTyped, NEW m \in Markets, NEW s \in Sources, NEW reason \in Reasons,
         PauseMarket(m, s, reason) \/ ResumeMarket(m) \/ UNCHANGED pause
  PROVE  PauseTyped'
BY DEF PauseTyped, PauseMarket, ResumeMarket, MarketPause

WorkerTyped ==
  worker \in [pc : {"idle", "ordering", "cancelling", "following", "settling"},
              market : Markets, result : BuyStatuses \union {"none"}]

RunsTyped ==
  rc \in [Reconcilers -> [pc : {"idle", "refreshing", "applying", "dead"}, plan : Plans]]

LifecyclesTyped == lifecycle \in [Markets -> Lifecycles]

EntriesTyped == entries \in [Markets -> 0..MaxEntries]

\* At most one entry, and a market that was entered is not watched any more.
EnteredIsLeft ==
  \A m \in Markets : entries[m] <= 1 /\ (entries[m] >= 1 => ~Watched(m))

\* What the gate calls a reconcile is one that ended since the last disconnect.
ReconciledIsFinished == reconciled => finished

IInv ==
  /\ GateTyped /\ PauseTyped /\ RunsTyped /\ LifecyclesTyped /\ WorkerTyped /\ EntriesTyped
  /\ halted \in [Markets -> BOOLEAN]
  /\ finished \in BOOLEAN
  /\ EnteredIsLeft
  /\ ReconciledIsFinished

LEMMA IInvTypeOK == IInv => TypeOK
BY Zenon DEF IInv, TypeOK, GateTyped, PauseTyped, RunsTyped, LifecyclesTyped, WorkerTyped,
             EntriesTyped

LEMMA InitIInv == Init => IInv
<1> SUFFICES ASSUME Init PROVE IInv
  OBVIOUS
<1>1. WorkerTyped
  BY GateAssumption DEF Init, WorkerTyped, NoWork
<1>2. RunsTyped
  BY PlanFacts DEF Init, RunsTyped, NoPlan
<1>3. GateTyped /\ PauseTyped
  BY DEF Init, InitAccount, GateTyped, PauseTyped
<1>4. LifecyclesTyped /\ EntriesTyped
  BY GateAssumption DEF Init, LifecyclesTyped, Lifecycles, EntriesTyped
<1>5. halted \in [Markets -> BOOLEAN] /\ finished \in BOOLEAN
  BY DEF Init
<1>6. EnteredIsLeft /\ ReconciledIsFinished
  BY DEF Init, InitAccount, EnteredIsLeft, ReconciledIsFinished
<1>7. QED
  BY <1>1, <1>2, <1>3, <1>4, <1>5, <1>6 DEF IInv

--------------------------------------------------------------------------------

\* The websocket and the registry do not touch entries or lifecycles.
LEMMA ConnectionKeepsIInv ==
  ASSUME IInv, Connect \/ Disconnect \/ \E m \in Markets : MarketStatusChanges(m)
  PROVE  IInv'
<1>1. UNCHANGED <<pause, rc, lifecycle, worker, entries>>
  BY DEF Connect, Disconnect, MarketStatusChanges
<1>2. PauseTyped' /\ RunsTyped' /\ LifecyclesTyped' /\ WorkerTyped' /\ EntriesTyped' /\ EnteredIsLeft'
  BY <1>1 DEF IInv, PauseTyped, RunsTyped, LifecyclesTyped, WorkerTyped,
                         EntriesTyped, EnteredIsLeft, Watched
<1>3. GateTyped'
  BY GateFacts DEF IInv, Connect, Disconnect, MarketStatusChanges
<1>4. halted' \in [Markets -> BOOLEAN]
  BY DEF IInv, Connect, Disconnect, MarketStatusChanges
<1>5. finished' \in BOOLEAN /\ ReconciledIsFinished'
  <2>1. CASE Connect
    BY <2>1, Zenon DEF IInv, Connect, MarkConnected, ReconciledIsFinished
  <2>2. CASE Disconnect
    BY <2>2 DEF Disconnect, MarkDisconnected, ReconciledIsFinished
  <2>3. CASE \E m \in Markets : MarketStatusChanges(m)
    BY <2>3 DEF IInv, MarketStatusChanges, gate, ReconciledIsFinished
  <2>4. QED
    BY <2>1, <2>2, <2>3
<1>6. QED
  BY <1>2, <1>3, <1>4, <1>5 DEF IInv

\* A reconcile run moves its own record, pauses and, at its end, the gate.
LEMMA ReconcileKeepsIInv ==
  ASSUME IInv, NEW r \in Reconcilers, ReconcileStarts(r) \/ ReconcileStep(r) \/ ReconcileFails(r)
  PROVE  IInv'
<1> DEFINE Run == [pc : {"idle", "refreshing", "applying", "dead"}, plan : Plans]
<1>1. UNCHANGED <<halted, lifecycle, worker, entries>>
  BY DEF ReconcileStarts, ReconcileStep, ReconcileFails, ReconcilePlans, ReconcileApplies,
         ReconcileEnds
<1>2. LifecyclesTyped' /\ WorkerTyped' /\ EntriesTyped' /\ EnteredIsLeft' /\ halted' \in [Markets -> BOOLEAN]
  BY <1>1 DEF IInv, LifecyclesTyped, WorkerTyped, EntriesTyped, EnteredIsLeft, Watched
<1>3. ASSUME NEW o \in Run, rc' = [rc EXCEPT ![r] = o] PROVE RunsTyped'
  BY <1>3 DEF IInv, RunsTyped
<1>4. <<>> \in Plans
  BY PlanFacts
<1>5. CASE ReconcileStarts(r) \/ ReconcileFails(r) \/ \E scope \in SUBSET Markets : ReconcilePlans(r, scope)
  <2>1. UNCHANGED <<gate, pause, finished>>
    BY <1>5 DEF ReconcileStarts, ReconcileFails, ReconcilePlans
  <2>2. RunsTyped'
    <3>1. CASE ReconcileStarts(r)
      BY <1>3, <1>4, <3>1 DEF ReconcileStarts
    <3>2. CASE ReconcileFails(r)
      <4>1. \/ rc' = [rc EXCEPT ![r] = [pc |-> "dead", plan |-> <<>>]]
            \/ rc' = [rc EXCEPT ![r] = [pc |-> "idle", plan |-> <<>>]]
        BY <3>2 DEF ReconcileFails
      <4>2. QED
        BY <1>3, <1>4, <4>1
    <3>3. ASSUME NEW scope \in SUBSET Markets, ReconcilePlans(r, scope) PROVE RunsTyped'
      BY <1>3, <3>3, PlanTyped, IInvTypeOK DEF ReconcilePlans
    <3>4. QED
      BY <1>5, <3>1, <3>2, <3>3
  <2>3. GateTyped' /\ PauseTyped' /\ finished' \in BOOLEAN /\ ReconciledIsFinished'
    BY <2>1, GateFacts DEF IInv, PauseTyped, ReconciledIsFinished, gate
  <2>4. QED
    BY <1>2, <2>2, <2>3 DEF IInv
<1>6. ASSUME NEW m \in Markets, ReconcileApplies(r, m) PROVE IInv'
  <2>1. rc[r] \in Run /\ m \in DOMAIN rc[r].plan
    BY <1>6 DEF IInv, RunsTyped, ReconcileApplies
  <2>2. [n \in DOMAIN rc[r].plan \ {m} |-> rc[r].plan[n]] \in Plans
    BY <2>1, PlanFacts
  <2>3. RunsTyped'
    <3> DEFINE o == [rc[r] EXCEPT !.plan = [n \in DOMAIN rc[r].plan \ {m} |-> rc[r].plan[n]]]
    <3>1. o \in Run
      BY <2>1, <2>2
    <3>2. rc' = [rc EXCEPT ![r] = o]
      BY <1>6 DEF ReconcileApplies, Applied
    <3>3. QED
      BY <1>3, <3>1, <3>2
  <2>4. rc[r].plan[m] \in Verdicts
    BY <2>1 DEF Plans, Verdicts
  <2>5. PauseTyped'
    <3>1. "reconcile" \in Sources
      BY DEF Sources
    <3>2. CASE rc[r].plan[m] = "resume"
      <4>1. ResumeMarket(m) /\ "market_not_tradable" \in Reasons
        BY <1>6, <3>2 DEF ReconcileApplies, Reasons
      <4>2. QED
        BY <3>1, <4>1, PauseFacts DEF IInv
    <3>3. CASE rc[r].plan[m] # "resume"
      <4>1. PauseMarket(m, "reconcile", rc[r].plan[m]) /\ rc[r].plan[m] \in Reasons
        BY <1>6, <2>4, <3>3 DEF ReconcileApplies, Verdicts
      <4>2. QED
        BY <3>1, <4>1, PauseFacts DEF IInv
    <3>4. QED
      BY <3>2, <3>3
  <2>6. UNCHANGED <<gate, finished>>
    BY <1>6 DEF ReconcileApplies
  <2>7. GateTyped' /\ finished' \in BOOLEAN /\ ReconciledIsFinished'
    BY <2>6, GateFacts DEF IInv, ReconciledIsFinished, gate
  <2>8. QED
    BY <1>2, <2>3, <2>5, <2>7 DEF IInv
<1>7. CASE ReconcileEnds(r)
  <2>1. RunsTyped'
    BY <1>3, <1>4, <1>7 DEF ReconcileEnds, NoPlan
  <2>2. GateTyped' /\ PauseTyped'
    BY <1>7, GateFacts DEF ReconcileEnds, IInv, PauseTyped
  <2>3. finished' \in BOOLEAN /\ ReconciledIsFinished'
    BY <1>7 DEF ReconcileEnds, ReconciledIsFinished
  <2>4. QED
    BY <1>2, <2>1, <2>2, <2>3 DEF IInv
<1>8. QED
  BY <1>5, <1>6, <1>7 DEF ReconcileStep

\* A lifecycle that is not watched stays so, or the market has no entry.
LEMMA WatchFacts ==
  ASSUME IInv, NEW m \in Markets, NEW l \in Lifecycles,
         lifecycle' = [lifecycle EXCEPT ![m] = l],
         l \in {"none", "watching_orderbook"} => Watched(m),
         entries' = entries
  PROVE  LifecyclesTyped' /\ EntriesTyped' /\ EnteredIsLeft'
BY DEF IInv, LifecyclesTyped, EntriesTyped, EnteredIsLeft, Watched

LEMMA EntryKeepsIInv ==
  ASSUME IInv, NEW m \in Markets,
         \/ EntrySkipped(m) \/ EntryNotReady(m) \/ EntryRefused(m)
         \/ EntrySubmitted(m) \/ PositionUpdated(m)
  PROVE  IInv'
<1>1. UNCHANGED <<gate, pause, halted, rc, finished>>
  BY DEF EntrySkipped, EntryNotReady, EntryRefused, EntrySubmitted, PositionUpdated
<1>2. /\ GateTyped' /\ PauseTyped' /\ RunsTyped' /\ halted' \in [Markets -> BOOLEAN]
      /\ finished' \in BOOLEAN /\ ReconciledIsFinished'
  BY <1>1, GateFacts DEF IInv, PauseTyped, RunsTyped, ReconciledIsFinished, gate
<1>3. WorkerTyped'
  BY DEF IInv, WorkerTyped, EntrySkipped, EntryNotReady, EntryRefused, EntrySubmitted,
                   PositionUpdated, BuyStatuses
<1>4. LifecyclesTyped' /\ EntriesTyped' /\ EnteredIsLeft'
  <2>1. CASE EntrySkipped(m) \/ EntryNotReady(m) \/ EntryRefused(m) \/ PositionUpdated(m)
    BY <2>1, WatchFacts DEF EntrySkipped, EntryNotReady, EntryRefused, PositionUpdated, Lifecycles
  <2>2. CASE EntrySubmitted(m)
    <3>1. entries[m] \in 0..MaxEntries /\ ~(entries[m] >= 1) /\ entries[m] < MaxEntries
      BY <2>2 DEF EntrySubmitted, IInv, EntriesTyped, EnteredIsLeft
    <3>2. entries' = [entries EXCEPT ![m] = 1]
      <4>1. entries[m] + 1 = 1
        BY <3>1, GateAssumption
      <4>2. entries' = [entries EXCEPT ![m] = entries[m] + 1]
        BY <2>2 DEF EntrySubmitted
      <4>3. QED
        BY <4>1, <4>2
    <3>3. EntriesTyped'
      BY <3>1, <3>2, GateAssumption DEF IInv, EntriesTyped
    <3>4. lifecycle' = [lifecycle EXCEPT ![m] = "entry_submitting"]
      BY <2>2 DEF EntrySubmitted
    <3>5. LifecyclesTyped'
      BY <3>4 DEF IInv, LifecyclesTyped, Lifecycles
    <3>6. EnteredIsLeft'
      BY <3>2, <3>4 DEF IInv, EnteredIsLeft, EntriesTyped, LifecyclesTyped, Watched
    <3>7. QED
      BY <3>3, <3>5, <3>6
  <2>3. QED
    BY <2>1, <2>2
<1>5. QED
  BY <1>2, <1>3, <1>4 DEF IInv

\* The answers of the executor move the lifecycle of the worker's market, which
\* never becomes watched, and set the flags of the store.
LEMMA WorkerKeepsIInv ==
  ASSUME IInv, WorkerStep
  PROVE  IInv'
<1> DEFINE m == worker.market
           Work == [pc : {"idle", "ordering", "cancelling", "following", "settling"},
                    market : Markets, result : BuyStatuses \union {"none"}]
<1>1. m \in Markets /\ worker \in Work /\ lifecycle[m] \in Lifecycles
  BY DEF IInv, WorkerTyped, LifecyclesTyped
<1>2. UNCHANGED <<halted, rc, entries, finished>>
  BY DEF WorkerStep, EntryAnswered, CancelAnswered, CancelReturned, FollowUpAnswered, EntrySettled
<1>3. RunsTyped' /\ halted' \in [Markets -> BOOLEAN] /\ finished' \in BOOLEAN
  BY <1>2 DEF IInv, RunsTyped
<1>4. WorkerTyped'
  <2>1. ASSUME NEW status \in BuyStatuses, EntryAnswered(status) PROVE WorkerTyped'
    BY <1>1, <2>1 DEF EntryAnswered, WorkerTyped
  <2>2. CASE CancelAnswered
    BY <1>1, <2>2 DEF CancelAnswered, CancelReturned, WorkerTyped
  <2>3. ASSUME NEW status \in SellStatuses, FollowUpAnswered(status) PROVE WorkerTyped'
    BY <1>1, <2>3 DEF FollowUpAnswered, WorkerTyped
  <2>4. CASE EntrySettled
    BY <2>4, GateAssumption DEF EntrySettled, WorkerTyped, NoWork
  <2>5. QED
    BY <2>1, <2>2, <2>3, <2>4 DEF WorkerStep
<1>5. LifecyclesTyped' /\ EntriesTyped' /\ EnteredIsLeft'
  <2>1. ASSUME NEW status \in BuyStatuses, EntryAnswered(status)
        PROVE  LifecyclesTyped' /\ EntriesTyped' /\ EnteredIsLeft'
    <3> DEFINE l == AfterBuy(status, lifecycle[m])
    <3>1. lifecycle' = [lifecycle EXCEPT ![m] = l]
      BY <2>1 DEF EntryAnswered
    <3>2. l \in Lifecycles /\ (l \in {"none", "watching_orderbook"} => Watched(m))
      BY <1>1, <2>1 DEF AfterBuy, BuyStatuses, Lifecycles, Watched
    <3> HIDE DEF l, m
    <3>3. QED
      BY <1>1, <1>2, <3>1, <3>2, WatchFacts
  <2>2. CASE CancelAnswered
    <3>1. lifecycle' = [lifecycle EXCEPT ![m] = "paused"] /\ "paused" \in Lifecycles
      BY <2>2 DEF CancelAnswered, CancelReturned, Lifecycles
    <3> HIDE DEF m
    <3>2. QED
      BY <1>1, <1>2, <3>1, WatchFacts
  <2>3. ASSUME NEW status \in SellStatuses, FollowUpAnswered(status)
        PROVE  LifecyclesTyped' /\ EntriesTyped' /\ EnteredIsLeft'
    <3> DEFINE l == AfterSell(status, lifecycle[m])
    <3>1. lifecycle' = [lifecycle EXCEPT ![m] = l]
      BY <2>3 DEF FollowUpAnswered
    <3>2. l \in Lifecycles /\ (l \in {"none", "watching_orderbook"} => Watched(m))
      BY <1>1, <2>3 DEF AfterSell, SellStatuses, Lifecycles, Watched
    <3> HIDE DEF l, m
    <3>3. QED
      BY <1>1, <1>2, <3>1, <3>2, WatchFacts
  <2>4. CASE EntrySettled
    BY <1>2, <2>4 DEF EntrySettled, IInv, LifecyclesTyped, EntriesTyped, EnteredIsLeft, Watched
  <2>5. QED
    BY <2>1, <2>2, <2>3, <2>4 DEF WorkerStep
<1>6. SetAllowNewEntries(TRUE) \/ SetAllowNewEntries(FALSE) \/ UNCHANGED gate
  BY DEF WorkerStep, EntryAnswered, CancelAnswered, CancelReturned, FollowUpAnswered, EntrySettled
<1>7. GateTyped' /\ ReconciledIsFinished'
  <2>1. GateTyped'
    BY <1>6, GateFacts DEF IInv
  <2>2. reconciled' = reconciled
    BY <1>6 DEF SetAllowNewEntries, gate
  <2>3. QED
    BY <1>2, <2>1, <2>2 DEF IInv, ReconciledIsFinished
<1>8. PauseTyped'
  <2>1. UNCHANGED pause \/ PauseMarket(m, "risk", "unexpected_resting_order")
    BY DEF WorkerStep, EntryAnswered, CancelAnswered, CancelReturned, FollowUpAnswered, EntrySettled
  <2>2. "risk" \in Sources /\ "unexpected_resting_order" \in Reasons
    BY DEF Sources, Reasons
  <2> HIDE DEF m
  <2>3. QED
    BY <1>1, <2>1, <2>2, PauseFacts DEF IInv
<1>9. QED
  BY <1>3, <1>4, <1>5, <1>7, <1>8 DEF IInv

LEMMA NextKeepsIInv == IInv /\ [Next]_vars => IInv'
<1>1. ASSUME IInv, Next, ~OrderHeard PROVE IInv'
  BY <1>1, ConnectionKeepsIInv, ReconcileKeepsIInv, EntryKeepsIInv, WorkerKeepsIInv DEF Next
<1>2. ASSUME IInv, UNCHANGED vars PROVE IInv'
  <2>1. UNCHANGED <<gate, pause, halted, rc, lifecycle, worker, entries, finished>>
    BY <1>2 DEF vars
  <2>2. GateTyped' /\ ReconciledIsFinished'
    BY <1>2, <2>1, GateFacts DEF IInv, ReconciledIsFinished, gate
  <2>3. QED
    BY <1>2, <2>1, <2>2 DEF IInv, PauseTyped, RunsTyped, LifecyclesTyped, WorkerTyped,
                            EntriesTyped, EnteredIsLeft, Watched
<1>3. ASSUME IInv, OrderHeard PROVE IInv'
  <2>1. UNCHANGED <<gate, pause, halted, rc, lifecycle, entries, finished>>
    BY <1>3 DEF OrderHeard
  <2>2. GateTyped' /\ ReconciledIsFinished'
    BY <1>3, <2>1, GateFacts DEF IInv, ReconciledIsFinished, gate
  <2>3. WorkerTyped'
    BY <1>3 DEF OrderHeard, IInv, WorkerTyped, BuyStatuses
  <2>4. QED
    BY <1>3, <2>1, <2>2, <2>3 DEF IInv, PauseTyped, RunsTyped, LifecyclesTyped, EntriesTyped,
                                  EnteredIsLeft, Watched
<1>4. QED
  BY <1>1, <1>2, <1>3 DEF Next

--------------------------------------------------------------------------------

\* For any markets and any number of overlapping reconcile runs the state keeps
\* its types, the gate is open only while connected and reconciled, and no
\* market is entered twice, whatever its orders came to and however often the
\* connection, the market's status and reconcile runs come and go.
THEOREM EnteredOnce == Spec => []GateSound
<1>1. IInv => OneEntryPerMarket
  BY DEF IInv, EnteredIsLeft, OneEntryPerMarket
<1>2. IInv => GateSound
  BY <1>1, IInvTypeOK DEF GateSound
<1>3. QED
  BY <1>2, InitIInv, NextKeepsIInv, PTL DEF Spec

\* An entry order leaves only while the user websocket is up and after a
\* reconcile run that ended since it was last down.
THEOREM EntriesAreReconciled == Spec => NoEntryUnreconciled
<1>1. ASSUME IInv, [Next]_vars, entries' # entries PROVE wsConnected /\ finished
  <2>1. PICK m \in Markets : EntrySubmitted(m)
    BY <1>1 DEF Next, vars, Connect, Disconnect, MarketStatusChanges, ReconcileStarts,
                ReconcileStep, ReconcilePlans, ReconcileApplies, ReconcileEnds, ReconcileFails,
                EntrySkipped, EntryNotReady, EntryRefused, PositionUpdated, OrderHeard, WorkerStep,
                EntryAnswered, CancelAnswered, CancelReturned, FollowUpAnswered, EntrySettled
  <2>2. allowEntries
    BY <2>1 DEF EntrySubmitted, Ready
  <2>3. QED
    BY <1>1, <2>2, Zenon DEF IInv, GateTyped, GateCanOpen, ReconciledIsFinished
<1>2. IInv /\ [Next]_vars => [entries' # entries => wsConnected /\ finished]_vars
  BY <1>1
<1>3. QED
  BY <1>2, InitIInv, NextKeepsIInv, PTL DEF Spec, NoEntryUnreconciled

\* A pause of the risk kind, or any other that reconcile may not lift, is
\* replaced by a liftable one or lifted only by a run whose plan is older.
THEOREM RiskPausesKept == Spec => RiskPauseKept
<1> DEFINE Lifted(m) == Sticky(pause[m]) /\ ~Sticky(pause'[m])
           Older(m, r) == /\ m \in DOMAIN rc[r].plan
                          /\ rc[r].plan[m] # "unexpected_resting_order"
                          /\ rc'[r] # rc[r]
<1>1. ASSUME IInv, [Next]_vars, NEW m \in Markets, Lifted(m)
      PROVE  \E r \in Reconcilers : Older(m, r)
  <2>1. pause' # pause /\ DOMAIN pause = Markets
    BY <1>1 DEF IInv, PauseTyped
  <2>2. CASE \E r \in Reconcilers, n \in Markets : ReconcileApplies(r, n)
    <3>1. PICK r \in Reconcilers, n \in Markets : ReconcileApplies(r, n)
      BY <2>2
    <3>2. n = m /\ m \in DOMAIN rc[r].plan
      BY <1>1, <3>1 DEF ReconcileApplies, ResumeMarket, PauseMarket, IInv, PauseTyped
    <3>3. rc[r].plan[m] # "unexpected_resting_order"
      <4> SUFFICES ASSUME rc[r].plan[m] = "unexpected_resting_order" PROVE FALSE
        OBVIOUS
      <4>1. pause'[m] = [source |-> "reconcile", reason |-> "unexpected_resting_order"]
        <5>1. pause' = [pause EXCEPT ![m] = [source |-> "reconcile",
                                             reason |-> "unexpected_resting_order"]]
          BY <3>1, <3>2 DEF ReconcileApplies, PauseMarket, MarketPause
        <5>2. QED
          BY <2>1, <5>1
      <4>2. Sticky(pause'[m])
        BY <4>1 DEF Sticky, Recoverable, NoPause
      <4>3. QED
        BY <1>1, <4>2
    <3>4. rc'[r] # rc[r]
      <4>1. rc'[r].plan = [k \in DOMAIN rc[r].plan \ {m} |-> rc[r].plan[k]]
        <5>1. rc[r] \in [pc : {"idle", "refreshing", "applying", "dead"}, plan : Plans]
          BY <1>1 DEF IInv, RunsTyped
        <5>2. DOMAIN rc = Reconcilers
          BY <1>1 DEF IInv, RunsTyped
        <5>3. rc' = [rc EXCEPT ![r] = [@ EXCEPT !.plan = [k \in DOMAIN rc[r].plan \ {m} |-> rc[r].plan[k]]]]
          BY <3>1, <3>2 DEF ReconcileApplies, Applied
        <5>4. QED
          BY <5>1, <5>2, <5>3
      <4>2. m \notin DOMAIN rc'[r].plan
        BY <4>1
      <4>3. QED
        BY <3>2, <4>2
    <3>5. QED
      BY <3>2, <3>3, <3>4
  <2>3. CASE PauseMarket(worker.market, "risk", "unexpected_resting_order")
    <3>1. m = worker.market
      BY <1>1, <2>3 DEF PauseMarket, IInv, PauseTyped
    <3>2. pause'[m] = [source |-> "risk", reason |-> "unexpected_resting_order"]
      <4>1. pause' = [pause EXCEPT ![m] = [source |-> "risk", reason |-> "unexpected_resting_order"]]
        BY <2>3, <3>1 DEF PauseMarket, MarketPause
      <4>2. QED
        BY <2>1, <4>1
    <3>3. Sticky(pause'[m])
      BY <3>2 DEF Sticky, Recoverable, NoPause
    <3>4. QED
      BY <1>1, <3>3
  <2>4. QED
    BY <1>1, <2>1, <2>2, <2>3
       DEF Next, vars, Connect, Disconnect, MarketStatusChanges, ReconcileStarts, ReconcileStep,
           ReconcilePlans, ReconcileEnds, ReconcileFails, EntrySkipped, EntryNotReady,
           EntryRefused, EntrySubmitted, PositionUpdated, OrderHeard, WorkerStep, EntryAnswered,
           CancelAnswered, CancelReturned, FollowUpAnswered, EntrySettled
<1>2. IInv /\ [Next]_vars => [\A m \in Markets : Lifted(m) => \E r \in Reconcilers : Older(m, r)]_vars
  BY <1>1
<1>3. QED
  BY <1>2, InitIInv, NextKeepsIInv, PTL DEF Spec, RiskPauseKept

================================================================================
