---------------------------- MODULE EntryAllocation ----------------------------
(***************************************************************************)
(* How the strategy divides the budget among the markets it may buy        *)
(* (strategies/current/allocation.py and trading.py).  Amounts are USDC in *)
(* units of the last place that a quotient keeps: a division rounds, as a  *)
(* Decimal of 28 digits does.                                              *)
(*                                                                         *)
(* A candidate is an eligible market with its exposure and the depth of    *)
(* the asks within the price limit; the reasons that go with an allocation *)
(* are left out.                                                           *)
(***************************************************************************)
EXTENDS Sums, FiniteSetsExt

CONSTANTS
  Markets,
  Budget,      \* portfolio_budget_usdc
  MaxOrder,    \* max_order_usdc
  MaxMarket,   \* max_market_usdc
  MaxTotal,    \* max_total_usdc
  MinOrder     \* min_order_size of each market

ASSUME AllocationAssumption ==
  /\ IsFiniteSet(Markets)
  /\ {Budget, MaxOrder, MaxMarket, MaxTotal} \subseteq Nat
  /\ MinOrder \in [Markets -> Nat \ {0}]

Candidate == [exposure : Nat, depth : Nat]

Smaller(a, b) == IF a <= b THEN a ELSE b
AtLeast0(a) == IF a < 0 THEN 0 ELSE a

\* equal_weight_budget.  A half is rounded to the even neighbour.  Decimal
\* rounds at 28 significant digits: one unit here is the last of them, the same
\* place for all quotients of one magnitude.
Share(p, n) ==
  LET q == p \div n
      twice == 2 * (p % n)
  IN  IF twice > n \/ (twice = n /\ q % 2 = 1) THEN q + 1 ELSE q

\* Mutant: what a market already holds is left out of its limit.
CapacityIgnoringExposure(c, available) ==
  Smaller(Smaller(MaxMarket, MaxOrder), Smaller(available, c.depth))

\* _market_hard_capacity_usdc.
Capacity(c, available) ==
  AtLeast0(Smaller(Smaller(AtLeast0(MaxMarket - c.exposure), MaxOrder),
                   Smaller(available, c.depth)))

\* What the candidates C have taken up before.
Exposed(C) == Sum([m \in DOMAIN C |-> C[m].exposure])

\* What may be spent on the candidates C together.
Pool(C, available) ==
  AtLeast0(Smaller(Smaller(Budget, available), MaxTotal - Exposed(C)))

LeastOrder(A) == Min({MinOrder[m] : m \in A})

\* The candidates of A that may take another order, whether they got one or not.
StillOpen(A, cap, buy) == {m \in A : cap[m] - buy[m] >= MinOrder[m]}

\* A share that is too small for any of the candidates A.
TooSmall(share, A) == share < LeastOrder(A)

\* What each candidate takes of an equal share of the pool: what its capacity
\* allows, and nothing below its smallest order.
Taken(s, cap) ==
  LET t == Share(s.pool, Cardinality(s.active))
      offered == [m \in s.active |-> Smaller(t, cap[m] - s.buy[m])]
  IN  [m \in DOMAIN cap |->
         IF m \in s.active /\ offered[m] >= MinOrder[m] THEN offered[m] ELSE 0]

\* Mutant: the money that is left after a round is not divided again.
RoundOnce(s, cap) == [pool |-> s.pool, active |-> {}, buy |-> Taken(s, cap)]

\* One pass of the while loop over the active candidates.
Round(s, cap) ==
  LET taken == Taken(s, cap)
      buy == [m \in DOMAIN cap |-> s.buy[m] + taken[m]]
      spent == Sum(taken)
      pool == AtLeast0(s.pool - spent)
      open == StillOpen(s.active, cap, buy)
      over == \/ spent = 0
              \/ open # {} /\ TooSmall(Share(pool, Cardinality(open)), open)
  IN  [pool |-> pool, active |-> IF over THEN {} ELSE open, buy |-> buy]

First(cap, pool) ==
  LET buy == [m \in DOMAIN cap |-> 0]
      able == StillOpen(DOMAIN cap, cap, buy)
  IN  [pool |-> pool, buy |-> buy,
       active |-> IF able = {} \/ TooSmall(pool, able) THEN {} ELSE able]

\* The loop ends without an active candidate or without money.  A round that
\* does not end it spends something, so that Budget rounds are enough.
Divided(cap, pool) ==
  LET after[k \in 0 .. Budget] ==
        IF k = 0 THEN First(cap, pool)
        ELSE LET s == after[k - 1]
             IN  IF s.active = {} \/ s.pool = 0 THEN s ELSE Round(s, cap)
  IN  after[Budget].buy

Capacities(C, available) == [m \in DOMAIN C |-> Capacity(C[m], available)]

\* equal_weight_plan: what each candidate may be bought for.
EqualWeightPlan(C, available) ==
  Divided(Capacities(C, available), Pool(C, available))

--------------------------------------------------------------------------------
(* What the strategy promises of a plan p for the candidates C. *)

Spent(p) == Sum(p)
Buyers(p) == {m \in DOMAIN p : p[m] > 0}

\* No market gets more than its limits allow or less than its smallest order,
\* and together they get no more than the budget, what is available, and what
\* their exposure leaves of the total, but for half a unit of the last place
\* for each, the rounding of the quotients.
WithinLimits(C, available, p) ==
  /\ \A m \in Buyers(p) :
       /\ MinOrder[m] <= p[m] /\ p[m] <= MaxOrder /\ p[m] <= C[m].depth
       /\ p[m] <= available
       /\ C[m].exposure + p[m] <= MaxMarket
  /\ \A limit \in {Budget, available, MaxTotal - Exposed(C)} :
       Buyers(p) # {} => 2 * (Spent(p) - limit) <= Cardinality(Buyers(p))

\* Equal weight: markets that can take the same get the same, and one that can
\* take more never gets less, in whatever order they are listed.
EqualWeight(C, available, p) ==
  \A m, n \in DOMAIN C :
    /\ MinOrder[m] = MinOrder[n]
    /\ Capacity(C[m], available) <= Capacity(C[n], available)
    => p[m] <= p[n]

\* What one market leaves is divided again: while a market can take another
\* order, an equal share of what is left is too small for any of them.
Redistributed(C, available, p) ==
  LET left == AtLeast0(Pool(C, available) - Spent(p))
      open == StillOpen(DOMAIN C, Capacities(C, available), p)
  IN  open # {} => TooSmall(Share(left, Cardinality(open)), open)
================================================================================
