------------------------------ MODULE UserMessages ------------------------------
(***************************************************************************)
(* What a message of the user channel says and becomes: how user_ws_       *)
(* adapter.py reads orders and trades from it, and which domain events     *)
(* user_ws_projection.py makes of it, with the payload the outbox sink and *)
(* the record builder keep of each.  Every message is about one order, one *)
(* trade, the balance or the position of one token; identifiers are model  *)
(* values and texts are lower case.                                        *)
(***************************************************************************)
EXTENDS Integers, Sequences

\* The values of OrderStatus.
OrderStatuses ==
  {"created", "signed", "submitted", "cancel_requested", "matched",
   "partially_filled", "no_fill", "live", "cancelled", "rejected", "failed"}

ClosedStatuses == {"cancelled", "rejected", "failed", "no_fill"}

\* Other texts the two tables of statuses know.
Aliases ==
  [new |-> "created", signing |-> "signed", open |-> "submitted",
   match |-> "matched", partial_fill |-> "partially_filled",
   unfilled |-> "no_fill", resting |-> "live", canceled |-> "cancelled",
   reject |-> "rejected", error |-> "failed"]

NormalizeOrderStatus(text) ==
  IF text \in OrderStatuses THEN text
  ELSE IF text \in DOMAIN Aliases THEN Aliases[text] ELSE "created"

NoText == "none"

\* normalize_user_order_status: the status the message names, or else what
\* its kind and sizes imply.
UserOrderStatus(m) ==
  IF m.status # NoText THEN NormalizeOrderStatus(m.status)
  ELSE IF m.kind = "cancellation" THEN "cancelled"
  ELSE IF m.matched >= m.original THEN "matched"
  ELSE IF m.matched > 0 THEN "partially_filled"
  ELSE IF m.kind \in {"placement", "update"} THEN "live" ELSE "created"

\* The message of an order, and the order iter_order_snapshots reads from it.
OrderMessage(o, kind, status, matched, original) ==
  [order |-> o, kind |-> kind, status |-> status,
   matched |-> matched, original |-> original]

OrderSnapshot(m) == [order |-> m.order, status |-> UserOrderStatus(m)]

\* The message of a trade, as iter_fill_snapshots reads it.  The order is
\* NoText when the message names none.
FillSnapshot(t, o, side, status) ==
  [trade |-> t, order |-> o, side |-> side, status |-> status]

\* order_from_fill: the whole order counts as matched whatever the trade's size.
OrderFromFill(f) ==
  [order |-> f.order,
   status |-> IF f.status \in {"partial", "partially_filled", "partial_fill"}
              THEN "partially_filled"
              ELSE IF f.status = "failed" THEN "failed" ELSE "matched"]

Least0(n) == IF n < 0 THEN 0 ELSE n

\* apply_fill_to_position, for a trade of one share: each message of a trade
\* counts, whatever its status.
ApplyFill(shares, f) ==
  IF f.side = "buy" THEN shares + 1 ELSE Least0(shares - 1)

--------------------------------------------------------------------------------
(* The account store.  A missing order is Absent. *)

Absent == "absent"

\* upsert_order and remove_order, by order id.
StoreOrder(orders, snapshot) ==
  [orders EXCEPT ![snapshot.order] =
     IF snapshot.status \in ClosedStatuses THEN Absent ELSE snapshot.status]

--------------------------------------------------------------------------------
(* The events, with what _project_payload leaves of their payloads. *)

DomainEvent(typ, subject, value) == [typ |-> typ, subject |-> subject, value |-> value]

OrderEvent(snapshot) == DomainEvent("order", snapshot.order, snapshot.status)

FillEvent(f) == DomainEvent("fill", f.trade, f.status)

PositionEvent(shares) == DomainEvent("position", "token", shares)

BalanceEvent == DomainEvent("balance", "account", 0)

\* handle_order: one event.
HandleOrder(account, m) ==
  [account |-> [account EXCEPT !.orders = StoreOrder(@, OrderSnapshot(m))],
   events  |-> <<OrderEvent(OrderSnapshot(m))>>]

\* handle_fill: the position and, when the trade names it, the order; an event
\* for the order, the fill and the position.
HandleFill(account, f) ==
  LET shares == ApplyFill(account.shares, f)
      named == f.order # NoText
  IN  [account |->
         [account EXCEPT !.shares = shares,
            !.orders = IF named THEN StoreOrder(@, OrderFromFill(f)) ELSE @],
       events |->
         (IF named THEN <<OrderEvent(OrderFromFill(f))>> ELSE <<>>)
         \o <<FillEvent(f), PositionEvent(shares)>>]

\* handle_position, for a snapshot of the one token.
HandlePosition(account, shares) ==
  [account |-> [account EXCEPT !.shares = shares],
   events  |-> <<PositionEvent(shares)>>]

\* handle_balance.
HandleBalance(account) ==
  [account |-> account, events |-> <<BalanceEvent>>]
================================================================================
