------------------------------ MODULE AccountState ------------------------------
(***************************************************************************)
(* The entry gate and the market pauses of runtime/account_state.py, the   *)
(* copy-on-write store that every worker reads through snapshot().  Every  *)
(* call runs under the store's lock and publishes one snapshot, so each is *)
(* one step.  Balances, positions and orders are not part of this module.  *)
(***************************************************************************)

CONSTANTS
  Markets

VARIABLES
  wsConnected,   \* _user_ws_connected
  reconciled,    \* _last_reconcile_at is not None
  allowEntries,  \* _allow_new_entries
  pause          \* _market_pauses, by market

gate == <<wsConnected, reconciled, allowEntries>>

Sources == {"reconcile", "risk"}

Reasons == {"market_not_tradable", "unexpected_resting_order"}

NoPause == [source |-> "none", reason |-> "none"]

\* MarketPause.build without an explicit recoverable flag.  With the current
\* strategy reconcile gives "market_not_tradable" as the reason of its own
\* pauses.
MarketPause(source, reason) == [source |-> source, reason |-> reason]

\* Mutant: recoverability judged by the source alone.
RecoverableBySource(p) == p.source = "reconcile"

\* MarketPause.recoverable
Recoverable(p) == p.source = "reconcile" /\ p.reason = "market_not_tradable"

Sticky(p) == p # NoPause /\ ~Recoverable(p)

InitAccount ==
  /\ wsConnected = FALSE
  /\ reconciled = FALSE
  /\ allowEntries = FALSE
  /\ pause = [m \in Markets |-> NoPause]

\* _entry_gate_can_open_locked
GateCanOpen == wsConnected /\ reconciled

\* set_allow_new_entries
SetAllowNewEntries(allowed) ==
  /\ allowEntries' = (allowed /\ GateCanOpen)
  /\ UNCHANGED <<wsConnected, reconciled>>

\* mark_user_ws_connected(True)
MarkConnected ==
  /\ wsConnected' = TRUE
  /\ allowEntries' = reconciled
  /\ UNCHANGED reconciled

\* Mutant: the last reconcile survives a disconnect.
MarkDisconnectedKeepsReconcile ==
  /\ wsConnected' = FALSE
  /\ allowEntries' = FALSE
  /\ UNCHANGED reconciled

\* mark_user_ws_connected(False)
MarkDisconnected ==
  /\ wsConnected' = FALSE
  /\ reconciled' = FALSE
  /\ allowEntries' = FALSE

\* Mutant: mark_reconciled only takes the time.
MarkReconciledTimeOnly ==
  /\ reconciled' = TRUE
  /\ UNCHANGED <<wsConnected, allowEntries>>

\* mark_reconciled
MarkReconciled ==
  /\ reconciled' = TRUE
  /\ allowEntries' = wsConnected
  /\ UNCHANGED wsConnected

\* pause_market replaces whatever pause the market had.
PauseMarket(m, source, reason) ==
  pause' = [pause EXCEPT ![m] = MarketPause(source, reason)]

\* resume_market
ResumeMarket(m) == pause' = [pause EXCEPT ![m] = NoPause]

================================================================================
