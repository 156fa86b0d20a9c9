------------------------------ MODULE Supervision ------------------------------
(***************************************************************************)
(* The life of the process around its workers: the bootstrap and the       *)
(* shutdown (main.py), the three jobs of the scheduler                     *)
(* (runtime/scheduler.py), the supervisor that pauses the low lanes of the *)
(* event bus and opens the trading gate (runtime/supervisor.py), and the   *)
(* reconcile loop that the triggers reach through the maintenance lane.    *)
(*                                                                         *)
(* Operations of the supervisor and of the scheduler that nothing calls    *)
(* (manual pause, clear_degraded, trigger_now, ...) are left out.          *)
(***************************************************************************)
EXTENDS DiscoveryScan

Jobs == {"market_discovery_scan", "periodic_reconcile", "supervisor_refresh"}
NoReason == "none"
Backpressure == "p0_backpressure"

VARIABLES
  phase,        \* RuntimePhase
  reason,       \* degraded_reason
  infraReady,   \* db_ready and trading_client_ready
  bootOk,       \* history: the startup reconcile succeeded
  jobs,         \* each job: none, timed (between two runs) or running
  cancelled,    \* jobs whose task is cancelled and has not ended yet
  resuming,     \* the refresh awaits the flush of the retained events
  lowPaused,    \* low_priority_paused of the event bus
  gate,         \* trading_gate of the metrics
  overloaded,   \* the trading lane or a latency gauge is over its limit
  links,        \* both websockets up and the outbox short
  fresh,        \* the last reconcile is young enough
  trigger,      \* a reconcile trigger: none, queued in the maintenance lane or retained
  loop          \* the reconcile loop: none, idle, running or dead

supVars == <<phase, reason, infraReady, bootOk, jobs, cancelled, resuming, lowPaused, gate,
             overloaded, links, fresh, trigger, loop>>
vars == <<scanVars, supVars>>

Init ==
  /\ ScanInit
  /\ phase = "config_loading" /\ reason = NoReason
  /\ infraReady = FALSE /\ bootOk = FALSE
  /\ jobs = [j \in Jobs |-> "none"] /\ cancelled = {}
  /\ resuming = FALSE /\ lowPaused = FALSE /\ gate = FALSE
  /\ overloaded = FALSE /\ links = FALSE /\ fresh = FALSE
  /\ trigger = "none" /\ loop = "none"

--------------------------------------------------------------------------------
\* The environment: load, connections and time.
LoadChanges == overloaded' = ~overloaded /\ UNCHANGED <<links, fresh>>
LinksChange == links' = ~links /\ UNCHANGED <<overloaded, fresh>>
GrowsStale == fresh /\ fresh' = FALSE /\ UNCHANGED <<overloaded, links>>

Environment ==
  /\ LoadChanges \/ LinksChange \/ GrowsStale
  /\ UNCHANGED <<scanVars, phase, reason, infraReady, bootOk, jobs, cancelled, resuming,
                 lowPaused, gate, trigger, loop>>

--------------------------------------------------------------------------------
\* The supervisor.  Operators take the reason, the phase and whether the low
\* lanes are paused as they are in the middle of a refresh.

\* _build_readiness: no blocking reason, in a phase that allows it.
Ready(r, p) ==
  /\ infraReady /\ links /\ fresh
  /\ r = NoReason
  /\ p \in {"workers_started", "trading_enabled"}

\* The end of refresh: a ready runtime trades, and the gate is told.
Concluded(r, p) ==
  /\ reason' = r
  /\ phase' = IF Ready(r, p) THEN "trading_enabled" ELSE p
  /\ gate' = Ready(r, p)

\* Mutant: the end of backpressure forgets whatever the reason was.
ReliefOfAll(r) == NoReason

\* The end of backpressure takes back its own reason only.
Relief(r) == IF r = Backpressure THEN NoReason ELSE r

\* Mutant: the phase stays as the backpressure has left it.
PhaseKept(r, p) == p

PhaseAfter(r, p) == IF r = Backpressure THEN "workers_started" ELSE p

\* refresh, up to its await: under overload the low lanes are paused; once it
\* is over they are resumed, and what was retained flushed.  Overload is a long
\* trading lane, or a slow entry, lock or executor: the flag is free.
Refreshed ==
  IF overloaded
  THEN LET r == IF reason = NoReason THEN Backpressure ELSE reason
           p == IF phase = "trading_enabled" THEN "degraded" ELSE phase
       IN  Concluded(r, p) /\ lowPaused' = TRUE /\ UNCHANGED <<resuming, trigger>>
  ELSE IF lowPaused
  THEN /\ lowPaused' = FALSE /\ resuming' = TRUE
       /\ trigger' = IF trigger = "retained" THEN "queued" ELSE trigger
       /\ UNCHANGED <<reason, phase, gate>>
  ELSE Concluded(reason, phase) /\ UNCHANGED <<lowPaused, resuming, trigger>>

\* ... and what follows the await.
RefreshResumed ==
  /\ resuming /\ "supervisor_refresh" \notin cancelled
  /\ Concluded(Relief(reason), PhaseAfter(reason, phase))
  /\ resuming' = FALSE
  /\ jobs' = [jobs EXCEPT !["supervisor_refresh"] = "timed"]
  /\ UNCHANGED <<scanVars, infraReady, bootOk, cancelled, lowPaused, overloaded, links,
                 fresh, trigger, loop>>

--------------------------------------------------------------------------------
\* The scheduler: a job runs when its time has come, and its next time counts
\* from the end of the run.
RunRefresh ==
  /\ jobs["supervisor_refresh"] = "timed" /\ "supervisor_refresh" \notin cancelled
  /\ Refreshed
  /\ jobs' = [jobs EXCEPT !["supervisor_refresh"] = IF resuming' THEN "running" ELSE "timed"]
  /\ UNCHANGED <<scanVars, infraReady, bootOk, cancelled, overloaded, links, fresh, loop>>

\* EventBus.publish of a P2 event: retained while the low lanes are paused.
\* One that is queued already takes it in with its run.
PublishedLow ==
  trigger' = IF trigger = "queued" \/ ~lowPaused THEN "queued" ELSE "retained"

\* _publish_reconcile_trigger.
RunPeriodicReconcile ==
  /\ jobs["periodic_reconcile"] = "timed" /\ "periodic_reconcile" \notin cancelled
  /\ PublishedLow
  /\ UNCHANGED <<scanVars, phase, reason, infraReady, bootOk, jobs, cancelled, resuming,
                 lowPaused, gate, overloaded, links, fresh, loop>>

RunScan ==
  /\ jobs["market_discovery_scan"] = "timed" /\ "market_discovery_scan" \notin cancelled
  /\ TickStarts
  /\ jobs' = [jobs EXCEPT !["market_discovery_scan"] = IF ticking' THEN "running" ELSE "timed"]
  /\ UNCHANGED <<phase, reason, infraReady, bootOk, cancelled, resuming, lowPaused, gate,
                 overloaded, links, fresh, trigger, loop>>

\* A page may hold a market that is new or has changed: an event that makes the
\* reconcile loop run.
ScanGoesOn ==
  /\ jobs["market_discovery_scan"] = "running" /\ "market_discovery_scan" \notin cancelled
  /\ TickStep
  /\ jobs' = [jobs EXCEPT !["market_discovery_scan"] = IF ticking' THEN "running" ELSE "timed"]
  /\ PublishedLow \/ UNCHANGED trigger
  /\ UNCHANGED <<phase, reason, infraReady, bootOk, cancelled, resuming, lowPaused, gate,
                 overloaded, links, fresh, loop>>

BackoffPasses ==
  /\ RetryDue
  /\ UNCHANGED supVars

--------------------------------------------------------------------------------
\* _run_reconcile: the triggers that wait are one run.
ReconcileStarts ==
  /\ loop = "idle" /\ trigger = "queued"
  /\ loop' = "running"
  /\ trigger' = "none"
  /\ UNCHANGED <<scanVars, phase, reason, infraReady, bootOk, jobs, cancelled, resuming,
                 lowPaused, gate, overloaded, links, fresh>>

\* _run_supervised_loop: the error is noted and raised again, nobody starts the
\* loop anew.
LoopFails == loop' = "dead" /\ UNCHANGED fresh

\* A run ends well, or raises and takes the loop with it.
ReconcileEnds ==
  /\ loop = "running"
  /\ \/ loop' = "idle" /\ fresh' = TRUE
     \/ LoopFails
  /\ UNCHANGED <<scanVars, phase, reason, infraReady, bootOk, jobs, cancelled, resuming,
                 lowPaused, gate, overloaded, links, trigger>>

--------------------------------------------------------------------------------
\* bootstrap_runtime, up to the snapshot: the database and the trading client
\* are looked at this once.
InfraChecked ==
  /\ phase = "config_loading"
  /\ \E ready \in BOOLEAN :
       /\ infraReady' = ready
       /\ reason' = IF ready THEN reason ELSE "infra_unavailable"
  /\ phase' = "recovering_snapshot"
  /\ UNCHANGED <<scanVars, bootOk, jobs, cancelled, resuming, lowPaused, gate, overloaded, links, fresh,
                 trigger, loop>>

\* _load_reference_state, whether or not the database answers.
SnapshotLoaded ==
  /\ phase = "recovering_snapshot"
  /\ phase' = "reconciling"
  /\ UNCHANGED <<scanVars, reason, infraReady, bootOk, jobs, cancelled, resuming, lowPaused,
                 gate, overloaded, links, fresh, trigger, loop>>

\* _start_background_tasks: of the five loops the one that reconciles matters.
BackgroundTasksStarted == loop' = "idle"

\* _register_scheduler_jobs: every job is started as it is registered.
JobsRegistered == jobs' = [j \in Jobs |-> "timed"]

\* The startup reconcile, then the loops, the jobs and a first refresh.
Started ==
  /\ phase = "reconciling"
  /\ \E ok \in BOOLEAN :
       LET r == IF ok THEN reason ELSE "startup_reconcile_failed"
           full == IF overloaded /\ r = NoReason THEN Backpressure ELSE r
       IN  /\ bootOk' = ok
           /\ fresh' = (fresh \/ ok)
           /\ reason' = full
           /\ lowPaused' = overloaded
           /\ gate' = (ok /\ links /\ infraReady /\ full = NoReason)
           /\ phase' = IF gate' THEN "trading_enabled" ELSE "workers_started"
  /\ BackgroundTasksStarted /\ JobsRegistered
  /\ UNCHANGED <<scanVars, infraReady, cancelled, resuming, overloaded, links, trigger>>

Up == {"workers_started", "trading_enabled", "degraded"}

\* Mutant: the jobs are told to stop by the flag alone.
StopAskedGently ==
  /\ phase \in Up
  /\ phase' = "stopping" /\ gate' = FALSE
  /\ UNCHANGED <<scanVars, reason, infraReady, bootOk, jobs, cancelled, resuming, lowPaused,
                 overloaded, links, fresh, trigger, loop>>

\* shutdown_runtime: the gate is closed and every job cancelled.
StopAsked ==
  /\ phase \in Up
  /\ phase' = "stopping" /\ gate' = FALSE
  /\ cancelled' = {j \in Jobs : jobs[j] # "none"}
  /\ UNCHANGED <<scanVars, reason, infraReady, bootOk, jobs, resuming, lowPaused, overloaded,
                 links, fresh, trigger, loop>>

\* A cancelled job ends at the await it is in.
JobEnds(j) ==
  /\ j \in cancelled
  /\ jobs' = [jobs EXCEPT ![j] = "none"]
  /\ cancelled' = cancelled \ {j}
  /\ resuming' = (resuming /\ j # "supervisor_refresh")
  /\ IF j = "market_discovery_scan" THEN TickCancelled ELSE UNCHANGED scanVars
  /\ UNCHANGED <<phase, reason, infraReady, bootOk, lowPaused, gate, overloaded, links, fresh,
                 trigger, loop>>

\* Every job has ended; the loops are cancelled and waited for as well.
Stopped ==
  /\ phase = "stopping" /\ cancelled = {}
  /\ phase' = "stopped"
  /\ loop' = "none"
  /\ UNCHANGED <<scanVars, reason, infraReady, bootOk, jobs, cancelled, resuming, lowPaused,
                 gate, overloaded, links, fresh, trigger>>

--------------------------------------------------------------------------------
Boot == InfraChecked \/ SnapshotLoaded \/ Started
Shutdown == Stopped \/ \E j \in Jobs : JobEnds(j)
Reconcile == ReconcileStarts \/ ReconcileEnds

Next ==
  \/ Environment \/ Boot
  \/ RunRefresh \/ RefreshResumed \/ RunPeriodicReconcile \/ RunScan \/ ScanGoesOn \/ BackoffPasses
  \/ Reconcile
  \/ StopAsked \/ Shutdown

Spec == Init /\ [][Next]_vars

\* The bootstrap goes on, the jobs are run, what they await comes, the loop is
\* served, time passes.  Load and connections owe nothing.
FairSpec ==
  /\ Spec
  /\ WF_vars(Boot) /\ WF_vars(Shutdown) /\ WF_vars(Reconcile)
  /\ WF_vars(RunRefresh) /\ WF_vars(RefreshResumed) /\ WF_vars(RunPeriodicReconcile)
  /\ WF_vars(RunScan) /\ WF_vars(ScanGoesOn) /\ WF_vars(BackoffPasses)
--------------------------------------------------------------------------------
Phases == {"config_loading", "recovering_snapshot", "reconciling", "stopping", "stopped"} \union Up
Reasons == {NoReason, Backpressure, "infra_unavailable", "startup_reconcile_failed"}

\* The type invariant.
TypeOK ==
  /\ ScanTypeOK
  /\ phase \in Phases /\ reason \in Reasons
  /\ {infraReady, bootOk, resuming, lowPaused, gate, overloaded, links, fresh} \subseteq BOOLEAN
  /\ trigger \in {"none", "queued", "retained"}
  /\ jobs \in [Jobs -> {"none", "timed", "running"}] /\ cancelled \subseteq Jobs
  /\ loop \in {"none", "idle", "running", "dead"}

\* Backpressure can always be taken back: while it is the reason the low lanes
\* are still paused, which the next refresh looks at, or the refresh that will
\* clear it is under way, or the process is going down.
BackpressureOwned ==
  reason = Backpressure => lowPaused \/ resuming \/ phase \in {"stopping", "stopped"}

\* The gate is never open in a process that came up without its database, its
\* client or its first reconcile, whatever backpressure came and went since.
OpenOnlyIfSound == gate => infraReady /\ bootOk /\ phase = "trading_enabled"

\* The state of the supervisor hangs together: types, backpressure and gate.
SupervisionSound == TypeOK /\ BackpressureOwned /\ OpenOnlyIfSound

GoingDown == phase \in {"stopping", "stopped"}
NoJobLeft == \A j \in Jobs : jobs[j] = "none"

\* A process that is going down stays down: no refresh that was under way
\* brings its phase or its gate back, and no job outlives it.
NeverRevived ==
  [][GoingDown => GoingDown' /\ ~gate' /\ (phase' = "stopped" => NoJobLeft')]_vars

\* Everything the gate depends on stays good.
Good == infraReady /\ bootOk /\ links /\ fresh /\ ~overloaded /\ phase \in Up

\* A process that came up sound, and has got rid of its load, trades.
GateOpens == <>[]Good => <>[]gate

\* A trigger is not left lying, retained or not, by a loop that is alive.
TriggersServed ==
  <>[](~overloaded /\ loop # "dead" /\ phase \in Up) => []<>(trigger = "none")

\* A sound process gets over what has stopped it for a while.
Recovers == GateOpens /\ TriggersServed

\* Rounds go on in a process that stays up.
ScanGoesRound == <>[](phase \in Up) => RoundsGoOn
================================================================================
