--------------------------- MODULE ShopProperties ---------------------------
(***************************************************************************)
(* What the order core promises beyond CoffeeShop's own invariants.  The   *)
(* first half holds when transactions do not overlap (one session); the    *)
(* second half is what the product design document says of the program.    *)
(***************************************************************************)
EXTENDS CoffeeShop, FiniteSetsExt

Live(o) == orders[o].status \notin {"none", "CANCELLED"}

\* Cancelled because its payment failed, not by a person.
FailedByPayment(o) ==
  /\ orders[o].status = "CANCELLED" /\ orders[o].cancelled_by = "nobody"
  /\ payments[o].status = "PAYMENT_FAILED"

Entries(o, type) ==
  {i \in DOMAIN ledger : ledger[i].order = o /\ ledger[i].type = type}

LedgerSum == MapThenSumSet(LAMBDA i : ledger[i].amount, DOMAIN ledger)
UnitsHeld == MapThenSumSet(LAMBDA o : req[o].qty, {o \in Orders : Live(o)})
PointsAdrift == MapThenSumSet(LAMBDA o : orders[o].points_used,
                              {o \in Orders : FailedByPayment(o)})

-----------------------------------------------------------------------------
(* One session at a time                                                   *)

LegalSteps(o) ==
  {<<"none", "CREATED">>, <<"none", "PAID">>,
   <<"CREATED", "PAID">>, <<"CREATED", "CANCELLED">>,
   <<"PAID", "PREPARING">>, <<"PAID", "CANCELLED">>,
   <<"PREPARING", "READY">>, <<"PREPARING", "CANCELLED">>,
   <<"READY", "CANCELLED">>, <<"IN_DELIVERY", "COMPLETED">>,
   <<"READY", IF req[o].type = "DELIVERY" THEN "IN_DELIVERY"
              ELSE "COMPLETED">>}

LegalPayments ==
  {<<"none", "PENDING">>, <<"none", "SUCCEEDED">>,
   <<"PENDING", "AWAITING_CONFIRMATION">>, <<"PENDING", "PAYMENT_FAILED">>,
   <<"AWAITING_CONFIRMATION", "SUCCEEDED">>,
   <<"AWAITING_CONFIRMATION", "PAYMENT_FAILED">>,
   <<"SUCCEEDED", "REFUND_PENDING">>, <<"REFUND_PENDING", "REFUNDED">>,
   <<"REFUND_PENDING", "REFUND_FAILED">>, <<"REFUND_FAILED", "REFUND_PENDING">>}

\* The statuses that may follow each other, over every handler that writes
\* them: checkout, cancel, staff, couriers, auto-close, compensation and
\* webhook for orders; the tasks and the webhook for payments, whose late
\* writes and late events never take a payment back.
LegalStatusSteps ==
  [][\A o \in Orders :
       /\ orders'[o].status # orders[o].status =>
            <<orders[o].status, orders'[o].status>> \in LegalSteps(o)
       /\ payments'[o].status # payments[o].status =>
            <<payments[o].status, payments'[o].status>> \in LegalPayments]_vars

\* Units are given back at most once, by whichever of the cancellation
\* chain, the compensation and the webhook gets there first.
NoPhantomStock == stock + UnitsHeld <= InitialStock

\* Points are given back at most once and only for a cancelled order, and
\* earned at most once and only by a completed one: staff, the courier and
\* the auto-close job all accrue, cancel and both payment paths all reverse.
PointsMovedOnce ==
  \A o \in Orders :
    /\ Cardinality(Entries(o, "REVERSAL")) <= 1
    /\ Cardinality(Entries(o, "ACCRUAL")) <= 1
    /\ Entries(o, "REVERSAL") # {} => orders[o].status = "CANCELLED"
    /\ Entries(o, "ACCRUAL") # {} => orders[o].status = "COMPLETED"

\* The account is the sum of the ledger, short of exactly the points of the
\* orders that a failed payment cancelled: no other path creates or loses
\* points.
LedgerExplainsBalance == LedgerSum = balance + PointsAdrift

\* current_uses counts the usage rows, short of exactly those of orders that
\* a failed payment cancelled.
UsagesExplainUses ==
  uses = Cardinality({o \in usages : ~FailedByPayment(o)})

\* At most one refund of a payment is open, however often the task was sent.
OneOpenRefund ==
  \A o \in Orders :
    Cardinality({i \in DOMAIN refunds[o] : refunds[o][i].status = "PENDING"})
      <= 1

\* Where the delivery of an order may be while the order is where it is: a
\* pickup order has none, and a delivery has one from the kitchen on.  PATCH
\* moves the order and leaves the delivery as it was, so an order on its way or
\* completed may have a delivery that waits for a courier, and one cancelled
\* by PATCH (cancelled_by "nobody", which a failed payment leaves too) keeps
\* the delivery it had.
DeliveryStates(o) ==
  LET at == orders[o].status
      waiting == {"AWAITING_COURIER", "COURIER_ASSIGNED"}
  IN CASE req[o].type # "DELIVERY" \/ at \in {"none", "CREATED", "PAID"} ->
            {"none"}
       [] req[o].type = "DELIVERY" /\ at = "PREPARING" -> {"AWAITING_COURIER"}
       [] req[o].type = "DELIVERY" /\ at = "READY" -> waiting
       [] req[o].type = "DELIVERY" /\ at = "IN_DELIVERY" ->
            waiting \cup {"PICKED_UP"}
       [] req[o].type = "DELIVERY" /\ at = "COMPLETED" ->
            waiting \cup {"PICKED_UP", "DELIVERED"}
       [] OTHER -> IF orders[o].cancelled_by = "nobody"
                   THEN {"none"} \cup waiting ELSE {"none", "CANCELLED"}

\* A delivery is nowhere but where its order lets it be.
AssignmentFollowsOrder ==
  \A o \in Orders : assignments[o].status \in DeliveryStates(o)

-----------------------------------------------------------------------------
(* Liveness                                                                *)

\* Captured money takes the order out of CREATED, through lost deliveries
\* and a crash of the webhook between its commit and its mark.
CaptureAdvancesOrder ==
  \A o \in Orders :
    charge[o] = "succeeded" /\ orders[o].status = "CREATED"
      ~> orders[o].status # "CREATED"

OwesRefund(o) ==
  /\ orders[o].status = "CANCELLED" /\ orders[o].cancelled_by # "nobody"
  /\ payments[o].status = "SUCCEEDED" /\ orders[o].total > 0

\* PDD 7.6 step 4: a cancelled order whose payment was received is refunded
\* at YuKassa, or the refund is on record as failed for the admin.  (A
\* worker that dies may leave a refund open for a person to look at.)
RefundIsAskedFor ==
  \A o \in Orders :
    OwesRefund(o) ~>
      \/ \E key \in Keys : returned[o][key] # "none"
      \/ \E i \in DOMAIN refunds[o] : refunds[o][i].status = "FAILED"
      \/ crashes > 0

-----------------------------------------------------------------------------
(* What the product design document says, and the code does otherwise      *)

\* PDD 6.1: CANCELLED and COMPLETED have no way out.
TerminalIsFinal ==
  [][\A o \in Orders :
       orders[o].status \in {"CANCELLED", "COMPLETED"} =>
         orders'[o].status = orders[o].status]_vars

\* PDD 4: the account is a denormalised sum of the ledger.
BalanceIsLedgerSum == LedgerSum = balance

=============================================================================
