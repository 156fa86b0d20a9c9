------------------------------- MODULE EntryGate -------------------------------
(***************************************************************************)
(* Who opens and closes the way to new entries: the user websocket loop,   *)
(* reconcile runs (the background loop and the admin API call the same     *)
(* worker, so runs overlap), and the trading decision worker, all on one   *)
(* event loop and over one AccountState.  A step is the code between two   *)
(* awaits.  A reconcile run decides for every market from one snapshot and *)
(* applies the decisions later, between awaits on the trading lane and on  *)
(* the order executor; the trading worker applies its flags after the      *)
(* cancel and the follow-up orders have been answered.                     *)
(***************************************************************************)
EXTENDS AccountState, Naturals

CONSTANTS
  Reconcilers,   \* callers of reconcile_once
  Loop,          \* the one of the background loop, triggered periodically
  MaxEntries     \* bound of the model: entry orders per market

ASSUME GateAssumption ==
  /\ Markets # {}
  /\ Loop \in Reconcilers
  /\ MaxEntries \in Nat

VARIABLES
  halted,      \* registry: trading_status is PAUSED, CLOSED or RESOLVED
  rc,          \* per reconcile caller: progress, decisions not yet applied
  lifecycle,   \* _market_lifecycle; "none" when the market has no entry
  worker,      \* the trading worker: progress, market, result being handled
  entries,     \* history: entry orders handed to the executor, by market
  finished     \* history: a reconcile run ended since the last disconnect

vars == <<gate, pause, halted, rc, lifecycle, worker, entries, finished>>

Lifecycles == {"none", "watching_orderbook", "entry_submitting", "entry_ready",
               "entry_rejected", "position_open", "follow_up_order_open", "paused"}

BuyStatuses == {"filled", "live", "no_fill", "rejected", "cancelled"}

SellStatuses == {"filled", "live", "rejected", "cancelled"}

NoWork == [pc |-> "idle", market |-> CHOOSE m \in Markets : TRUE, result |-> "none"]

NoPlan == [pc |-> "idle", plan |-> <<>>]

Init ==
  /\ InitAccount
  /\ halted = [m \in Markets |-> FALSE]
  /\ rc = [r \in Reconcilers |-> NoPlan]
  /\ lifecycle = [m \in Markets |-> "none"]
  /\ worker = NoWork
  /\ entries = [m \in Markets |-> 0]
  /\ finished = FALSE

--------------------------------------------------------------------------------
(* The user websocket and the registry. *)

\* on_connect of a stream.  Resubscribing replaces the stream without a
\* disconnect, so the flag may already be set.
Connect ==
  /\ MarkConnected
  /\ UNCHANGED <<pause, halted, rc, lifecycle, worker, entries, finished>>

\* on_disconnect, on_reconnect, failed authentication, nothing to subscribe.
Disconnect ==
  /\ MarkDisconnected
  /\ finished' = FALSE
  /\ UNCHANGED <<pause, halted, rc, lifecycle, worker, entries>>

\* Discovery, the market websocket or a refresh changes the trading status.
MarketStatusChanges(m) ==
  /\ halted' = [halted EXCEPT ![m] = ~@]
  /\ UNCHANGED <<gate, pause, rc, lifecycle, worker, entries, finished>>

--------------------------------------------------------------------------------
(* ReconcileWorker.reconcile_once. *)

\* Mutant: the strategy is shown the pause reconcile itself has set.
RecoverySeesAll(m) == pause[m]

\* _account_snapshot_for_recovery hides a recoverable pause from the strategy.
RecoverySees(m) == IF Recoverable(pause[m]) THEN NoPause ELSE pause[m]

\* decide_recovery of the strategy
RecoveryPauses(m) == halted[m] \/ RecoverySees(m) # NoPause

PauseTrading(m) == halted[m] \/ Sticky(pause[m]) \/ RecoveryPauses(m)

\* _resolved_pause_reason
PauseReason(m) == IF Sticky(pause[m]) THEN pause[m].reason ELSE "market_not_tradable"

\* build_market_plan: the reason to pause for, or "resume", or nothing to do.
Verdict(m) ==
  IF PauseTrading(m) THEN PauseReason(m)
  ELSE IF pause[m] # NoPause THEN "resume" ELSE "keep"

\* build_reconcile_plan for the markets of the scope
Plan(scope) == [m \in {n \in scope : Verdict(n) # "keep"} |-> Verdict(m)]

ReconcileStarts(r) ==
  /\ rc[r].pc = "idle"
  /\ rc' = [rc EXCEPT ![r] = [pc |-> "refreshing", plan |-> <<>>]]
  /\ UNCHANGED <<gate, pause, halted, lifecycle, worker, entries, finished>>

\* Every authority call has answered, failed or timed out; one snapshot of
\* the store gives the plan.  The scope is all markets for the periodic
\* trigger and the markets named by the events otherwise; it may be empty.
ReconcilePlans(r, scope) ==
  /\ rc[r].pc = "refreshing"
  /\ rc' = [rc EXCEPT ![r] = [pc |-> "applying", plan |-> Plan(scope)]]
  /\ UNCHANGED <<gate, pause, halted, lifecycle, worker, entries, finished>>

Applied(r, m) ==
  LET p == rc[r].plan
  IN  rc' = [rc EXCEPT ![r].plan = [n \in DOMAIN p \ {m} |-> p[n]]]

\* The market's pause, or its RESUME_TRADING action: both write the store as
\* it is now according to the plan as it was.
ReconcileApplies(r, m) ==
  /\ rc[r].pc = "applying"
  /\ m \in DOMAIN rc[r].plan
  /\ IF rc[r].plan[m] = "resume"
     THEN ResumeMarket(m)
     ELSE PauseMarket(m, "reconcile", rc[r].plan[m])
  /\ Applied(r, m)
  /\ UNCHANGED <<gate, halted, lifecycle, worker, entries, finished>>

ReconcileEnds(r) ==
  /\ rc[r].pc = "applying"
  /\ DOMAIN rc[r].plan = {}
  /\ MarkReconciled
  /\ rc' = [rc EXCEPT ![r] = NoPlan]
  /\ finished' = TRUE
  /\ UNCHANGED <<pause, halted, lifecycle, worker, entries>>

\* An exception outside the actions: the admin call fails, the background
\* loop ends and nobody starts it again.
ReconcileFails(r) ==
  /\ rc[r].pc \in {"refreshing", "applying"}
  /\ rc' = [rc EXCEPT ![r] = [pc |-> IF r = Loop THEN "dead" ELSE "idle", plan |-> <<>>]]
  /\ UNCHANGED <<gate, pause, halted, lifecycle, worker, entries, finished>>

--------------------------------------------------------------------------------
(* TradingDecisionWorker.process_event. *)

\* _handle_orderbook_snapshot_updated goes on only in these lifecycles.
Watched(m) == lifecycle[m] \in {"none", "watching_orderbook"}

\* The gate is closed: SKIPPED, and the market's lifecycle becomes PAUSED.
EntrySkipped(m) ==
  /\ worker.pc = "idle"
  /\ Watched(m)
  /\ ~allowEntries
  /\ lifecycle' = [lifecycle EXCEPT ![m] = "paused"]
  /\ UNCHANGED <<gate, pause, halted, rc, worker, entries, finished>>

\* The market is paused, or the strategy does not want it now.
EntryNotReady(m) ==
  /\ worker.pc = "idle"
  /\ Watched(m)
  /\ allowEntries
  /\ lifecycle' = [lifecycle EXCEPT ![m] = "watching_orderbook"]
  /\ UNCHANGED <<gate, pause, halted, rc, worker, entries, finished>>

\* build_entry_plan gives an intent, in one go with the reading of the snapshot.
Ready(m) == allowEntries /\ pause[m] = NoPause /\ ~halted[m]

\* The risk check refuses the intent: a REJECTED result without an order.
EntryRefused(m) ==
  /\ worker.pc = "idle"
  /\ Watched(m)
  /\ Ready(m)
  /\ lifecycle' = [lifecycle EXCEPT ![m] = "entry_rejected"]
  /\ worker' = [pc |-> "settling", market |-> m, result |-> "rejected"]
  /\ UNCHANGED <<gate, pause, halted, rc, entries, finished>>

EntrySubmitted(m) ==
  /\ worker.pc = "idle"
  /\ Watched(m)
  /\ Ready(m)
  /\ entries[m] < MaxEntries
  /\ entries' = [entries EXCEPT ![m] = @ + 1]
  /\ lifecycle' = [lifecycle EXCEPT ![m] = "entry_submitting"]
  /\ worker' = [pc |-> "ordering", market |-> m, result |-> "none"]
  /\ UNCHANGED <<gate, pause, halted, rc, finished>>

\* Mutant: a market goes back to watching when its order was not filled.
AfterBuyWatchAgain(status, before) ==
  CASE status = "filled"   -> "position_open"
    [] status = "live"     -> "paused"
    [] status = "no_fill"  -> "watching_orderbook"
    [] status = "rejected" -> "entry_rejected"
    [] OTHER               -> before

\* _transition_from_order_result for a BUY
AfterBuy(status, before) ==
  CASE status = "filled"   -> "position_open"
    [] status = "live"     -> "paused"
    [] status = "no_fill"  -> "entry_ready"
    [] status = "rejected" -> "entry_rejected"
    [] OTHER               -> before

\* TradingOrderResultProcessor.handle up to its next call of the executor: an
\* entry left resting is cancelled, a filled one is followed by a sell.
EntryAnswered(status) ==
  /\ worker.pc = "ordering"
  /\ lifecycle' = [lifecycle EXCEPT ![worker.market] = AfterBuy(status, @)]
  /\ worker' = [worker EXCEPT !.result = status,
                              !.pc = CASE status = "live"   -> "cancelling"
                                       [] status = "filled" -> "following"
                                       [] OTHER             -> "settling"]
  /\ UNCHANGED <<gate, pause, halted, rc, entries, finished>>

\* _cancel_unexpected_resting_order returns, whatever the exchange answered:
\* the entry was left resting, and is not looked at again.
CancelReturned ==
  /\ worker.pc = "cancelling"
  /\ worker' = [worker EXCEPT !.pc = "settling"]

\* ... and handle goes on with _pause_market.
CancelAnswered ==
  /\ CancelReturned
  /\ lifecycle' = [lifecycle EXCEPT ![worker.market] = "paused"]
  /\ PauseMarket(worker.market, "risk", "unexpected_resting_order")
  /\ UNCHANGED <<gate, halted, rc, entries, finished>>

\* _transition_from_order_result for a SELL
AfterSell(status, before) ==
  CASE status = "filled" -> "position_open"
    [] status = "live"   -> "follow_up_order_open"
    [] OTHER             -> before

\* _apply_follow_up_result: a failed sell opens the gate again if it can.
FollowUpAnswered(status) ==
  /\ worker.pc = "following"
  /\ lifecycle' = [lifecycle EXCEPT ![worker.market] = AfterSell(status, @)]
  /\ IF status = "rejected" THEN SetAllowNewEntries(TRUE) ELSE UNCHANGED gate
  /\ worker' = [worker EXCEPT !.pc = "settling"]
  /\ UNCHANGED <<pause, halted, rc, entries, finished>>

\* apply_result_flags, the last step of handle
EntrySettled ==
  /\ worker.pc = "settling"
  /\ CASE worker.result = "live" ->
            /\ SetAllowNewEntries(FALSE)
            /\ PauseMarket(worker.market, "risk", "unexpected_resting_order")
       [] worker.result = "rejected" ->
            /\ SetAllowNewEntries(TRUE)
            /\ UNCHANGED pause
       [] OTHER -> UNCHANGED <<gate, pause>>
  /\ worker' = NoWork
  /\ UNCHANGED <<halted, rc, lifecycle, entries, finished>>

\* An order or fill message of the user websocket.  Its event carries status and
\* side one level too deep for coerce_order_result_from_event, so the worker
\* handles it as a result of unknown outcome and no side: only the flags change.
OrderHeard ==
  /\ worker.pc = "idle"
  /\ worker' = [worker EXCEPT !.pc = "settling", !.result = "rejected"]
  /\ UNCHANGED <<gate, pause, halted, rc, lifecycle, entries, finished>>

\* POSITION_UPDATED for a market of the registry with a position in the snapshot
PositionUpdated(m) ==
  /\ worker.pc = "idle"
  /\ lifecycle' = [lifecycle EXCEPT ![m] = "position_open"]
  /\ UNCHANGED <<gate, pause, halted, rc, worker, entries, finished>>

--------------------------------------------------------------------------------

ReconcileStep(r) ==
  \/ \E scope \in SUBSET Markets : ReconcilePlans(r, scope)
  \/ \E m \in Markets : ReconcileApplies(r, m)
  \/ ReconcileEnds(r)

WorkerStep ==
  \/ \E status \in BuyStatuses : EntryAnswered(status)
  \/ CancelAnswered
  \/ \E status \in SellStatuses : FollowUpAnswered(status)
  \/ EntrySettled

Next ==
  \/ Connect
  \/ Disconnect
  \/ \E m \in Markets : MarketStatusChanges(m)
  \/ \E r \in Reconcilers : ReconcileStarts(r) \/ ReconcileStep(r) \/ ReconcileFails(r)
  \/ \E m \in Markets :
       \/ EntrySkipped(m)
       \/ EntryNotReady(m)
       \/ EntryRefused(m)
       \/ EntrySubmitted(m)
       \/ PositionUpdated(m)
  \/ OrderHeard
  \/ WorkerStep

Spec == Init /\ [][Next]_vars

\* Every await of a reconcile run and of the trading worker ends: authority
\* calls and the executor have timeouts.  The scheduler publishes a trigger
\* without a condition_id again and again, so the loop is always started
\* again and runs over all markets infinitely often.  Nothing is assumed of
\* the websocket, of the exchange or of order book events.
FairSpec ==
  /\ Spec
  /\ \A r \in Reconcilers : WF_vars(ReconcileStep(r))
  /\ WF_vars(ReconcileStarts(Loop))
  /\ SF_vars(ReconcilePlans(Loop, Markets))
  /\ WF_vars(WorkerStep)

--------------------------------------------------------------------------------
(* Properties. *)

Plans == UNION {[S -> Reasons \union {"resume"}] : S \in SUBSET Markets}

\* Shape of the state.  The gate is never open while the user websocket is
\* down or no reconcile run has ended since it was.
TypeOK ==
  /\ wsConnected \in BOOLEAN /\ reconciled \in BOOLEAN /\ allowEntries \in BOOLEAN
  /\ allowEntries => GateCanOpen
  /\ pause \in [Markets -> {NoPause} \union [source : Sources, reason : Reasons]]
  /\ halted \in [Markets -> BOOLEAN]
  /\ rc \in [Reconcilers -> [pc : {"idle", "refreshing", "applying", "dead"}, plan : Plans]]
  /\ lifecycle \in [Markets -> Lifecycles]
  /\ worker \in [pc : {"idle", "ordering", "cancelling", "following", "settling"},
                 market : Markets, result : BuyStatuses \union {"none"}]
  /\ entries \in [Markets -> 0..MaxEntries]
  /\ finished \in BOOLEAN

\* docs/runbook.md: after the user websocket was down new buys wait for a
\* reconcile run to be completed.  No entry order leaves, whatever reconnects,
\* reconcile runs and failed orders did in between, unless a run has ended
\* since the last disconnect and the connection is up.
NoEntryUnreconciled ==
  [][entries' # entries => wsConnected /\ finished]_vars

\* A market is entered at most once in the life of the process: not even an
\* order whose outcome is unknown is followed by another one.
OneEntryPerMarket == \A m \in Markets : entries[m] <= 1

\* The gate is open only while connected and reconciled, and no market is
\* entered twice.
GateSound == TypeOK /\ OneEntryPerMarket

\* The pause of a market whose entry was left resting is never lifted by a
\* reconcile run that knew of it, neither at once nor by way of a pause that a
\* later run may lift.  Only a decision taken before the pause was set can
\* undo it, because decisions are applied without looking again.
RiskPauseKept ==
  [][\A m \in Markets :
       Sticky(pause[m]) /\ ~Sticky(pause'[m]) =>
         \E r \in Reconcilers :
           /\ m \in DOMAIN rc[r].plan
           /\ rc[r].plan[m] # "unexpected_resting_order"
           /\ rc'[r] # rc[r]]_vars

\* While the connection stays up and the reconcile loop has not died, the gate
\* opens and stays open, also after resting orders have closed it.
GateReopens ==
  [](rc[Loop].pc # "dead") /\ <>[]wsConnected => <>[]allowEntries

\* A pause that reconcile set because the market was halted is lifted once the
\* market trades again; overlapping runs with older plans delay it only.
StalePausesLift ==
  [](rc[Loop].pc # "dead") =>
    \A m \in Markets : <>[]~halted[m] => <>[]~Recoverable(pause[m])

\* docs/runbook.md: when reconcile is complete new buys resume.  A market that
\* was skipped because the gate was closed is looked at again, unless the gate
\* closes or the market is paused meanwhile.
EntriesResume ==
  [](rc[Loop].pc # "dead") => \A m \in Markets :
    [](lifecycle[m] = "paused" /\ entries[m] = 0 =>
         <>(lifecycle[m] # "paused" \/ ~allowEntries \/ pause[m] # NoPause))

================================================================================
