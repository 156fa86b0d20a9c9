------------------------------ MODULE ExitCoverage ------------------------------
(***************************************************************************)
(* The exits of one token of one market.  The account store is written by  *)
(* three sources that do not know of each other: the answers of the order  *)
(* executor, the user websocket, and the authority calls of a reconcile    *)
(* run.  The trading worker sells what its entry filled; every reconcile   *)
(* run sells what it finds held and not covered by open sells.  All share  *)
(* one event loop: a step is the code between two awaits.  Shares come in  *)
(* lots that are worth one unit of money and are never below the minimum   *)
(* order size; the market is eligible throughout.                          *)
(***************************************************************************)
EXTENDS Sequences, Sums

CONSTANTS
  Reconcilers,   \* callers of reconcile_once
  Loop,          \* the one of the background loop, triggered periodically
  Cash,          \* USDC of the wallet at the start
  MaxHeld,       \* bound of the model: shares held at the start
  MaxEntry,      \* bound of the model: shares of the one entry
  MaxOrders,     \* bound of the model: sells that reach the exchange
  MaxReports,    \* bound of the model: how often one trade is reported
  MaxInbox       \* bound of the model: websocket messages under way

ASSUME CoverageAssumption ==
  /\ Loop \in Reconcilers /\ "worker" \notin Reconcilers
  /\ {Cash, MaxHeld, MaxEntry, MaxInbox} \subseteq Nat
  /\ MaxReports \in Nat \ {0}
  /\ MaxOrders \in Nat /\ MaxOrders >= MaxHeld + MaxEntry

VARIABLES
  held, cash,    \* exchange: shares and USDC of the wallet
  book,          \* exchange: shares still resting, by sell order
  placed,        \* exchange: sell orders it has taken
  inbox,         \* messages of the user channel not yet processed
  position,      \* store: shares of the position, Absent without one
  orders,        \* store: open shares of the sells in _open_orders
  residue,       \* store: the entry's own order is in _open_orders as MATCHED
  worker,        \* the trading worker and its one entry
  rc,            \* per reconcile caller: authority answers, decisions
  raced          \* history: the exchange moved since this actor looked

exchange == <<held, cash, book, placed>>
store == <<position, orders, residue>>
vars == <<exchange, inbox, store, worker, rc, raced>>

Ids == 1..MaxOrders

\* An order is stored under the id of the exchange, or under the idempotency
\* key of the intent when reconcile submitted it: the same order may be twice
\* in the store.
Keys == {"exchange", "intent"} \X Ids

Absent == -1

Shares(p) == IF p = Absent THEN 0 ELSE p

Calls == {"positions", "orders"}

Actors == Reconcilers \union {"worker"}

Exits == Sum(book)

Surplus == IF Exits > held THEN Exits - held ELSE 0

NoEntry == [pc |-> "idle", size |-> 0, id |-> 0, told |-> "none",
            position |-> Absent]

NoRun == [pc |-> "idle", left |-> {}, failed |-> {}, positions |-> 0,
          orders |-> [i \in Ids |-> 0], sell |-> 0, id |-> 0, seen |-> Absent]

\* The actor has looked at the account and may still sell on what it saw.
Looking(a) == IF a = "worker" THEN worker.pc \in {"entered", "selling"}
              ELSE rc[a].pc \in {"refreshing", "cancelling", "selling"}

Init ==
  /\ held \in 0..MaxHeld
  /\ cash = Cash
  /\ book = [i \in Ids |-> 0]
  /\ placed = 0
  /\ inbox = <<>>
  /\ position = Absent
  /\ orders = [k \in Keys |-> 0]
  /\ residue = FALSE
  /\ worker = NoEntry
  /\ rc = [r \in Reconcilers |-> NoRun]
  /\ raced = [a \in Actors |-> FALSE]

--------------------------------------------------------------------------------
(* The exchange. *)

Trade(side, id, size) ==
  [kind |-> "trade", side |-> side, id |-> id, size |-> size, times |-> MaxReports]

OrderUpdate(id, size) ==
  [kind |-> "order", side |-> "sell", id |-> id, size |-> size, times |-> 1]

\* The user channel delivers in order, but any message may be lost.
Report(messages) ==
  \E kept \in {<<>>, messages} \union {<<messages[i]>> : i \in DOMAIN messages} :
    /\ Len(inbox) + Len(kept) <= MaxInbox
    /\ inbox' = inbox \o kept

ReportFill(id, size, rest) ==
  \/ Report(<<Trade("sell", id, size), OrderUpdate(id, rest)>>)
  \/ Report(<<OrderUpdate(id, rest), Trade("sell", id, size)>>)

\* A resting sell is filled, in full or in part.
SellFills(id) ==
  \E n \in 1..book[id] :
    /\ n <= held
    /\ held' = held - n
    /\ cash' = cash + n
    /\ book' = [book EXCEPT ![id] = @ - n]
    /\ ReportFill(id, n, book[id] - n)
    /\ raced' = [a \in Actors |->
                   raced[a] \/ (a \in Reconcilers /\ rc[a].pc = "refreshing")]
    /\ UNCHANGED <<placed, store, worker, rc>>

\* The stream ends or is replaced: what was under way is gone.
StreamLost ==
  /\ inbox # <<>>
  /\ inbox' = <<>>
  /\ UNCHANGED <<exchange, store, worker, rc, raced>>

\* A sell of the actor reaches the exchange: it rests, fills at once, or is
\* refused.  told is what the exchange answers.
SellReaches(actor, size, told) ==
  /\ told # "refused" => placed < MaxOrders /\ size <= held
  /\ placed' = IF told = "refused" THEN placed ELSE placed + 1
  /\ CASE told = "live" ->
            /\ book' = [book EXCEPT ![placed + 1] = size]
            /\ Report(<<OrderUpdate(placed + 1, size)>>)
            /\ UNCHANGED <<held, cash>>
       [] told = "filled" ->
            /\ held' = held - size
            /\ cash' = cash + size
            /\ ReportFill(placed + 1, size, 0)
            /\ UNCHANGED book
       [] told = "refused" -> UNCHANGED <<held, cash, book, inbox>>
  /\ raced' = [a \in Actors |->
                 a # actor /\ Looking(a) /\ (raced[a] \/ told # "refused")]

--------------------------------------------------------------------------------
(* UserWsWorker.process_message. *)

\* handle_order: upserted under the exchange's id.  Without open shares left
\* it counts for nothing.
OrderSeen(m) ==
  /\ orders' = [orders EXCEPT ![<<"exchange", m.id>>] = m.size]
  /\ UNCHANGED <<position, residue>>

\* handle_fill: the position moves by the size of the trade each time the trade
\* is reported, matched, mined or confirmed, and its order is upserted as a
\* MATCHED one of the size of the trade, which counts as open.
TradeSeen(m) ==
  IF m.side = "buy"
  THEN /\ position' = Shares(position) + m.size
       /\ residue' = TRUE
       /\ UNCHANGED orders
  ELSE /\ position' = IF Shares(position) > m.size THEN Shares(position) - m.size ELSE 0
       /\ orders' = [orders EXCEPT ![<<"exchange", m.id>>] = m.size]
       /\ UNCHANGED residue

MessageProcessed ==
  /\ inbox # <<>>
  /\ LET m == Head(inbox)
     IN  /\ IF m.kind = "order" THEN OrderSeen(m) ELSE TradeSeen(m)
         /\ inbox' = IF m.times = 1 THEN Tail(inbox)
                     ELSE <<[m EXCEPT !.times = @ - 1]>> \o Tail(inbox)
  /\ UNCHANGED <<exchange, worker, rc, raced>>

--------------------------------------------------------------------------------
(* TradingDecisionWorker and its order result processor, for one entry. *)

\* The gate of the risk check that matters here: no order, a sell included, may
\* be worth more than the balance, which the model takes to be up to date.
RiskPasses(size) == size <= cash

\* _execute_entry_plan: the snapshot taken now goes with the result.
EntrySent(n) ==
  /\ worker.pc = "idle"
  /\ RiskPasses(n)
  /\ worker' = [worker EXCEPT !.pc = "entering", !.size = n, !.position = position]
  /\ UNCHANGED <<exchange, inbox, store, rc, raced>>

EntryFills(n) ==
  /\ worker.pc = "entering"
  /\ n <= worker.size /\ n <= cash
  /\ held' = held + n
  /\ cash' = cash - n
  /\ IF n = 0 THEN UNCHANGED inbox ELSE Report(<<Trade("buy", 0, n)>>)
  /\ worker' = [worker EXCEPT !.pc = "entered", !.size = n]
  /\ raced' = [raced EXCEPT !["worker"] = Surplus > 0]
  /\ UNCHANGED <<book, placed, store, rc>>

\* The outcome of the entry is unknown: the projection leaves it alone.
EntryUnknown ==
  /\ worker.pc = "entered"
  /\ worker' = [NoEntry EXCEPT !.pc = "done"]
  /\ UNCHANGED <<exchange, inbox, store, rc, raced>>

\* apply_buy_result: the position of the snapshot and what was filled, whatever
\* the store holds by now.
Bought(n) ==
  IF n = 0 /\ worker.position = Absent THEN UNCHANGED position
  ELSE position' = Shares(worker.position) + n

\* handle: the result of the entry, then the sell for what it filled.
EntryAnswered ==
  /\ worker.pc = "entered"
  /\ Bought(worker.size)
  /\ worker' = IF worker.size > 0 /\ RiskPasses(worker.size)
               THEN [worker EXCEPT !.pc = "selling"]
               ELSE [NoEntry EXCEPT !.pc = "done"]
  /\ UNCHANGED <<exchange, inbox, orders, residue, rc, raced>>

\* The executor sends the sell.  Refused or of unknown outcome, it changes
\* nothing in the store.
FollowUpSent(told, heard) ==
  /\ worker.pc = "selling"
  /\ SellReaches("worker", worker.size, told)
  /\ worker' = IF heard /\ told # "refused"
               THEN [worker EXCEPT !.pc = "sold", !.told = told, !.id = placed']
               ELSE [NoEntry EXCEPT !.pc = "done"]
  /\ UNCHANGED <<store, rc>>

\* _apply_follow_up_result, apply_sell_result on the store as it is now; a
\* missing position is taken from the snapshot after the entry.
FollowUpAnswered ==
  /\ worker.pc = "sold"
  /\ orders' = [orders EXCEPT ![<<"exchange", worker.id>>] =
                  IF worker.told = "live" THEN worker.size ELSE 0]
  /\ position' = IF position = Absent THEN Shares(worker.position) + worker.size
                 ELSE position
  /\ worker' = [NoEntry EXCEPT !.pc = "done"]
  /\ UNCHANGED <<exchange, inbox, residue, rc, raced>>

--------------------------------------------------------------------------------
(* ReconcileWorker.reconcile_once, for the market of the token. *)

ReconcileStarts(r) ==
  /\ rc[r].pc = "idle"
  /\ rc' = [rc EXCEPT ![r] = [NoRun EXCEPT !.pc = "refreshing", !.left = Calls]]
  /\ UNCHANGED <<exchange, inbox, store, worker, raced>>

\* refresh_account asks for everything at once; each answer is what the
\* exchange holds at a moment of its own.
AuthorityAnswers(r, call) ==
  /\ rc[r].pc = "refreshing" /\ call \in rc[r].left
  /\ rc' = [rc EXCEPT ![r].left = @ \ {call},
                      ![r].positions = IF call = "positions" THEN held ELSE @,
                      ![r].orders = IF call = "orders" THEN book ELSE @]
  /\ UNCHANGED <<exchange, inbox, store, worker, raced>>

\* A call that fails or times out is only counted.
AuthorityFails(r, call) ==
  /\ rc[r].pc = "refreshing" /\ call \in rc[r].left
  /\ rc' = [rc EXCEPT ![r].left = @ \ {call}, ![r].failed = @ \union {call}]
  /\ raced' = [raced EXCEPT ![r] = TRUE]
  /\ UNCHANGED <<exchange, inbox, store, worker>>

\* Mutant: an answer changes only a position that is already known.
RefreshedIfKnown(run) ==
  /\ position' = IF "positions" \in run.failed \/ position = Absent
                 THEN position ELSE run.positions
  /\ orders' = IF "orders" \in run.failed THEN orders
               ELSE [k \in Keys |-> IF k[1] = "exchange" THEN run.orders[k[2]] ELSE 0]
  /\ residue' = (residue /\ "orders" \in run.failed)

\* Mutant: the open orders are left to the websocket.
RefreshedPositions(run) ==
  /\ position' = CASE "positions" \in run.failed -> position
                   [] run.positions = 0          -> Absent
                   [] OTHER                      -> run.positions
  /\ UNCHANGED <<orders, residue>>

\* replace_positions and replace_open_orders with what was answered.  The
\* exchange lists no empty position.
Refreshed(run) ==
  /\ position' = CASE "positions" \in run.failed -> position
                   [] run.positions = 0          -> Absent
                   [] OTHER                      -> run.positions
  /\ orders' = IF "orders" \in run.failed THEN orders
               ELSE [k \in Keys |-> IF k[1] = "exchange" THEN run.orders[k[2]] ELSE 0]
  /\ residue' = (residue /\ "orders" \in run.failed)

\* Mutant: the open sells are not looked at.
UncoveredInFull(p, o) == Shares(p)

\* decide_recovery: what is held and not covered by the open sells.
Uncovered(p, o) == Shares(p) - Sum(o)

Ended(r) ==
  /\ rc' = [rc EXCEPT ![r] = NoRun]
  /\ raced' = [raced EXCEPT ![r] = FALSE]

\* The answers are applied and one snapshot gives the plan, without an await
\* between.  An open entry order is cancelled before the sell.
RunPlans(r) ==
  LET run == rc[r]
      missing == Uncovered(position', orders')
      sell == IF missing > 0 THEN missing ELSE 0
  IN  /\ run.pc = "refreshing" /\ run.left = {}
      /\ Refreshed(run)
      /\ IF sell = 0 /\ ~residue' THEN Ended(r)
         ELSE /\ rc' = [rc EXCEPT ![r] = [NoRun EXCEPT
                          !.pc = IF residue' THEN "cancelling" ELSE "selling",
                          !.sell = sell, !.seen = position']]
              /\ UNCHANGED raced
      /\ UNCHANGED <<exchange, inbox, worker>>

\* _apply_cancel: on success the position of the working snapshot is written
\* back, and the next action gets a new snapshot.
CancelAnswered(r, cancelled) ==
  LET run == rc[r]
  IN  /\ run.pc = "cancelling"
      /\ residue' = (residue /\ ~cancelled)
      /\ position' = IF cancelled /\ run.seen # Absent THEN run.seen ELSE position
      /\ IF run.sell = 0 THEN Ended(r)
         ELSE /\ rc' = [rc EXCEPT ![r].pc = "selling", ![r].seen = position']
              /\ UNCHANGED raced
      /\ UNCHANGED <<exchange, inbox, orders, worker>>

\* _apply_submit_order: the risk check refuses, or the order goes out.
SellRefused(r) ==
  /\ rc[r].pc = "selling"
  /\ ~RiskPasses(rc[r].sell)
  /\ Ended(r)
  /\ UNCHANGED <<exchange, inbox, store, worker>>

SellSent(r, told, heard) ==
  /\ rc[r].pc = "selling"
  /\ RiskPasses(rc[r].sell)
  /\ SellReaches(r, rc[r].sell, told)
  /\ rc' = [rc EXCEPT ![r] = IF heard /\ told # "refused"
                             THEN [@ EXCEPT !.pc = "sent", !.id = placed']
                             ELSE NoRun]
  /\ UNCHANGED <<store, worker>>

\* apply_submitted_intent when the answer is heard: the order goes under the
\* key of its intent with its full size, and the position of the working
\* snapshot is written back.
SellAnswered(r) ==
  LET run == rc[r]
  IN  /\ run.pc = "sent"
      /\ orders' = [orders EXCEPT ![<<"intent", run.id>>] = run.sell]
      /\ position' = Shares(run.seen)
      /\ Ended(r)
      /\ UNCHANGED <<exchange, inbox, residue, worker>>

--------------------------------------------------------------------------------

Told == {"live", "filled", "refused"}

RunStep(r) ==
  \/ \E call \in Calls : AuthorityAnswers(r, call) \/ AuthorityFails(r, call)
  \/ RunPlans(r)
  \/ \E cancelled \in BOOLEAN : CancelAnswered(r, cancelled)
  \/ SellRefused(r)
  \/ \E told \in Told, heard \in BOOLEAN : SellSent(r, told, heard)
  \/ SellAnswered(r)

WorkerStep ==
  \/ \E n \in 0..MaxEntry : EntryFills(n)
  \/ EntryUnknown
  \/ EntryAnswered
  \/ \E told \in Told, heard \in BOOLEAN : FollowUpSent(told, heard)
  \/ FollowUpAnswered

Next ==
  \/ \E id \in Ids : SellFills(id)
  \/ StreamLost
  \/ MessageProcessed
  \/ \E n \in 1..MaxEntry : EntrySent(n)
  \/ WorkerStep
  \/ \E r \in Reconcilers : ReconcileStarts(r) \/ RunStep(r)

Spec == Init /\ [][Next]_vars

\* Every await of the worker and of a run ends, and the loop is triggered
\* again and again (see EntryGate).  Of the outside: each authority call of the
\* loop is answered again and again, and so is a sell of the loop taken that
\* the wallet can deliver, though its answer may be lost.  What the user
\* channel has is processed or lost.
FairSpec ==
  /\ Spec
  /\ \A r \in Reconcilers : WF_vars(RunStep(r))
  /\ WF_vars(ReconcileStarts(Loop))
  /\ \A call \in Calls : SF_vars(AuthorityAnswers(Loop, call))
  /\ SF_vars(rc[Loop].sell <= held - Exits /\ \E heard \in BOOLEAN : SellSent(Loop, "live", heard))
  /\ WF_vars(WorkerStep)
  /\ WF_vars(MessageProcessed)

--------------------------------------------------------------------------------
(* Properties. *)

Lots == 0..(MaxHeld + MaxEntry)

\* Shape of the state.
TypeOK ==
  /\ held \in Lots /\ cash \in 0..(Cash + MaxHeld + MaxEntry)
  /\ book \in [Ids -> Nat] /\ placed \in 0..MaxOrders
  /\ \A i \in Ids : i > placed => book[i] = 0
  /\ Len(inbox) <= MaxInbox
  /\ position \in {Absent} \union Nat
  /\ orders \in [Keys -> Nat] /\ residue \in BOOLEAN
  /\ worker.pc \in {"idle", "entering", "entered", "selling", "sold", "done"}
  /\ \A r \in Reconcilers :
       /\ rc[r].pc \in {"idle", "refreshing", "cancelling", "selling", "sent"}
       /\ rc[r].left \subseteq Calls /\ rc[r].sell \in Nat
  /\ raced \in [Actors -> BOOLEAN]

\* docs/runbook.md: a sell is made for the difference between the position and
\* the open sells.  No sell raises the open sells over the shares held, unless
\* another sell was taken, a sell was filled while the authority was asked, or
\* a call of it failed, since its sender looked: whatever the store was told
\* twice, out of order or not at all.
SurplusNeedsRace ==
  [][\A a \in Actors :
       Surplus' > Surplus =>
         \/ raced[a]
         \/ IF a = "worker" THEN worker'.pc = worker.pc ELSE rc'[a] = rc[a]]_vars

\* The store and the runs keep their types, and no sell is placed in surplus
\* but by a race.
ExitsSound == []TypeOK /\ SurplusNeedsRace

\* docs/runbook.md: when the position is larger than the open sells a GTC sell
\* is made for the difference.  In the end every share held is covered by an
\* order resting at the exchange, lost answers and lost messages included.
ExitsCovered == <>[](Exits >= held)

\* The store ends up with what the exchange holds: a trade that was counted
\* twice, a stale write, or an order stored under two names does not stay.
AccountConverges ==
  <>[](Shares(position) = held /\ Sum(orders) = Exits)

================================================================================
