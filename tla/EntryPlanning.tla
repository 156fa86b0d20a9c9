----------------------------- MODULE EntryPlanning -----------------------------
(***************************************************************************)
(* Entries from the order book to the position: the candidates of a plan,  *)
(* the budget the strategy gives them, the gates of the risk manager that  *)
(* the planned order has to pass, and what the order does to the account.  *)
(* Between two entries the books, the markets and the account move.        *)
(*                                                                         *)
(* The price of an order is the strategy's limit; what is held is counted  *)
(* by its cost.  The trading worker handles one entry at a time.           *)
(***************************************************************************)
EXTENDS EntryAllocation

CONSTANTS
  MinLiquidity,  \* min_liquidity_usdc of the strategy
  MaxOpen,       \* max_open_orders
  Deposit,       \* the balance at the start
  Allowance,     \* allowance_usdc
  Depths,        \* bound of the model: depths of a book within the price limit
  MaxMoves       \* bound of the model: moves of books, markets and the account

ASSUME PlanningAssumption ==
  /\ {MinLiquidity, MaxOpen, Deposit, Allowance, MaxMoves} \subseteq Nat
  /\ Depths \subseteq Nat

VARIABLES
  offer,      \* the best ask of each market, and the depth of the asks within the limit
  status,     \* eligible, paused, or outside: not of the universe
  cost,       \* cost_usdc of the position
  covered,    \* a resting sell for all that is held
  resting,    \* amount of a resting GTC buy that somebody else placed
  balance,    \* balance_usdc
  stage,      \* lifecycle: watching, submitting or over
  order,      \* the entry under way
  moves       \* bound of the model

planningVars == <<offer, status, cost, covered, resting, balance, stage, order, moves>>

NoOrder == [market |-> "none", amount |-> 0]
\* No ask, one above the limit, a wide spread, or asks to take.
Offers == [ask : {"none", "dear"}, depth : {0}] \union [ask : {"wide", "fair"}, depth : Depths]

PlanningInit ==
  /\ offer \in [Markets -> {o \in Offers : o.ask \in {"none", "fair"}}]
  /\ status = [m \in Markets |-> "eligible"]
  /\ cost = [m \in Markets |-> 0] /\ covered = [m \in Markets |-> FALSE]
  /\ resting = [m \in Markets |-> 0]
  /\ balance = Deposit
  /\ stage = [m \in Markets |-> "watching"]
  /\ order = NoOrder
  /\ moves = 0

--------------------------------------------------------------------------------
\* current_exposure_usdc: shares in a resting sell count a second time.
Exposure(m) == cost[m] + (IF covered[m] THEN cost[m] ELSE 0) + resting[m]

\* build_entry_candidates and the strategy's reasons to skip one: outside of
\* its universe, not tradable, no ask, one above the limit, a wide spread, too
\* little to buy within the limit.
Eligible ==
  {m \in Markets :
     status[m] = "eligible" /\ offer[m].ask = "fair" /\ offer[m].depth >= MinLiquidity}

\* _entry_candidate_to_snapshot.
CandidateSnapshot(m) == [exposure |-> Exposure(m), depth |-> offer[m].depth]

Candidates == [m \in Eligible |-> CandidateSnapshot(m)]

\* _sizing_context: what is available is the balance, whatever the allowance.
Available == balance

\* size_entry.
Plan == EqualWeightPlan(Candidates, Available)

\* decide_entry: what to spend on the focus, 0 to skip it.
Decided(m) == IF m \in Eligible THEN Plan[m] ELSE 0

\* decision_to_trade_intent: no intent without an amount.
Intended(m) == Decided(m) > 0
Intent(m) == [market |-> m, amount |-> Decided(m)]

\* build_entry_plan and the entry guard of the worker.
EntryDue(m) == order = NoOrder /\ stage[m] = "watching" /\ Intended(m)

--------------------------------------------------------------------------------
\* The gates of the risk manager.  Each passes an intent or gives its reason;
\* that the price fits the tick is taken for granted.
Passed == "passed"

OrderSizeGate(i) == IF i.amount > 0 THEN Passed ELSE "missing_order_size"

MarketStateGate(i) ==
  IF status[i.market] = "eligible" THEN Passed ELSE "market_not_active"

MinOrderGate(i) ==
  IF i.amount >= MinOrder[i.market] THEN Passed ELSE "min_order_not_met"

\* _normalize_portfolio_total: without a figure of its own, the gate takes
\* what the plan gives to the other markets.
Invested(amount) == AtLeast0(Spent(Plan) - amount)

ExposureGate(i) ==
  CASE i.amount > MaxOrder                       -> "single_order_limit_reached"
    [] Exposure(i.market) + i.amount > MaxMarket -> "market_limit_reached"
    [] Invested(i.amount) + i.amount > MaxTotal  -> "total_limit_reached"
    [] OTHER                                     -> Passed

\* The open orders of the token: those of other markets are not counted.
OpenOrders(m) == (IF covered[m] THEN 1 ELSE 0) + (IF resting[m] > 0 THEN 1 ELSE 0)

OperationalGate(i) ==
  IF OpenOrders(i.market) < MaxOpen THEN Passed ELSE "open_orders_limit_reached"

AccountGate(i) ==
  CASE i.amount > balance   -> "balance_insufficient"
    [] i.amount > Allowance -> "allowance_insufficient"
    [] OTHER                -> Passed

LiquidityGate(i) ==
  IF offer[i.market].depth >= i.amount THEN Passed ELSE "liquidity_insufficient"

OpenBuyGate(i) == IF resting[i.market] = 0 THEN Passed ELSE "open_buy_detected"

\* check_order_intent: the first gate that refuses decides.
Verdict(i) ==
  LET gates == <<OrderSizeGate(i), MarketStateGate(i), MinOrderGate(i), ExposureGate(i),
                 OperationalGate(i), AccountGate(i), LiquidityGate(i), OpenBuyGate(i)>>
      refusing == {n \in DOMAIN gates : gates[n] # Passed}
  IN  IF refusing = {} THEN Passed ELSE gates[Min(refusing)]

--------------------------------------------------------------------------------
\* The order book of a watched market is updated.  A plan without an intent
\* leaves it watched; an intent is sent, or refused, which is the end of it.
OrderSent(m) ==
  /\ EntryDue(m) /\ Verdict(Intent(m)) = Passed
  /\ order' = Intent(m)
  /\ stage' = [stage EXCEPT ![m] = "submitting"]
  /\ UNCHANGED <<offer, status, cost, covered, resting, balance, moves>>

OrderRefused(m) ==
  /\ EntryDue(m) /\ Verdict(Intent(m)) # Passed
  /\ stage' = [stage EXCEPT ![m] = "over"]
  /\ UNCHANGED <<offer, status, cost, covered, resting, balance, order, moves>>

\* The answer to a fill-and-kill order: filled in part, in full, or not at all.
\* What is bought on top of a covered position is not covered.
OrderAnswered(spent) ==
  /\ order # NoOrder /\ spent <= order.amount
  /\ cost' = [cost EXCEPT ![order.market] = @ + spent]
  /\ balance' = AtLeast0(balance - spent)
  /\ stage' = [stage EXCEPT ![order.market] = "over"]
  /\ order' = NoOrder
  /\ covered' = [covered EXCEPT ![order.market] = @ /\ spent = 0]
  /\ UNCHANGED <<offer, status, resting, moves>>

\* The process starts again: every market is watched as if for the first time.
Restart ==
  /\ order = NoOrder /\ \E m \in Markets : stage[m] = "over"
  /\ stage' = [m \in Markets |-> "watching"]
  /\ UNCHANGED <<offer, status, cost, covered, resting, balance, order, moves>>

--------------------------------------------------------------------------------
\* What else moves.
Move == moves < MaxMoves /\ moves' = moves + 1

BookMoves(m) ==
  /\ Move
  /\ \E o \in Offers : offer' = [offer EXCEPT ![m] = o]
  /\ UNCHANGED <<status, cost, covered, resting, balance, stage, order>>

StatusMoves(m) ==
  /\ Move
  /\ \E s \in {"eligible", "paused", "outside"} : status' = [status EXCEPT ![m] = s]
  /\ UNCHANGED <<offer, cost, covered, resting, balance, stage, order>>

\* The follow-up sell, or one of the reconcile.
ExitPlaced(m) ==
  /\ cost[m] > 0 /\ ~covered[m]
  /\ covered' = [covered EXCEPT ![m] = TRUE]
  /\ UNCHANGED <<offer, status, cost, resting, balance, stage, order, moves>>

ExitFills(m) ==
  /\ Move
  /\ covered[m]
  /\ balance' = balance + cost[m]
  /\ cost' = [cost EXCEPT ![m] = 0]
  /\ covered' = [covered EXCEPT ![m] = FALSE]
  /\ UNCHANGED <<offer, status, resting, stage, order>>

\* An order placed by hand is seen, and cancelled some day.
HandBuys(m) ==
  /\ Move
  /\ resting' = [resting EXCEPT ![m] = IF @ = 0 THEN 1 ELSE 0]
  /\ UNCHANGED <<offer, status, cost, covered, balance, stage, order>>

--------------------------------------------------------------------------------
PlanningNext ==
  \/ \E m \in Markets :
       \/ OrderSent(m) \/ OrderRefused(m) \/ ExitPlaced(m)
       \/ BookMoves(m) \/ StatusMoves(m) \/ ExitFills(m) \/ HandBuys(m)
  \/ \E spent \in 0 .. MaxOrder : OrderAnswered(spent)
  \/ Restart

PlanningSpec == PlanningInit /\ [][PlanningNext]_planningVars
--------------------------------------------------------------------------------
\* The type invariant.
PlanningTyped ==
  /\ offer \in [Markets -> Offers]
  /\ status \in [Markets -> {"eligible", "paused", "outside"}]
  /\ cost \in [Markets -> Nat] /\ covered \in [Markets -> BOOLEAN]
  /\ resting \in [Markets -> 0 .. 1] /\ balance \in Nat
  /\ Candidates \in [Eligible -> Candidate]
  /\ stage \in [Markets -> {"watching", "submitting", "over"}]
  /\ order.amount \in 0 .. MaxOrder /\ moves \in 0 .. MaxMoves

\* Whatever the account holds and the books offer, a plan keeps to the limits
\* of each market, of the balance and of the total of its candidates, divides
\* the budget into equal weights, and what one market leaves goes to others.
PlanSound ==
  /\ PlanningTyped
  /\ WithinLimits(Candidates, balance, Plan)
  /\ EqualWeight(Candidates, balance, Plan)
  /\ Redistributed(Candidates, balance, Plan)

\* The strategy's sizing and the risk manager agree: an order as planned is
\* refused for what sizing does not look at, the allowance and open orders, or
\* because the quotients were rounded up past the total limit, and never for a
\* limit that sizing has taken into account.
PlanPassesReview ==
  \A m \in Markets : Intended(m) =>
    \/ Verdict(Intent(m)) \in {Passed, "open_orders_limit_reached",
                               "allowance_insufficient", "open_buy_detected"}
    \/ /\ Verdict(Intent(m)) = "total_limit_reached"
       /\ 2 * (Spent(Plan) - MaxTotal) <= Cardinality(Buyers(Plan))
================================================================================
