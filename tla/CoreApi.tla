------------------------------ MODULE CoreApi ------------------------------
(***************************************************************************)
(* The request handlers of core-api that change orders: checkout, the      *)
(* cancellation chain, staff status changes, couriers, the pickup          *)
(* auto-close job and the admin's refund retry.                            *)
(***************************************************************************)
EXTENDS ShopTables

\* What only the payment worker and YuKassa change.
PaymentSide == <<refunds, handled, charge, returned>>

-----------------------------------------------------------------------------
(* POST /orders: services/checkout.py                                      *)

PromocodeValid == uses < MaxUses /\ Cardinality(usages) < MaxUsesPerUser

\* create_order up to the writes: the cart is read, the promocode validated
\* and the loyalty account loaded.
CheckoutQuote(s, o) ==
  /\ orders[o].status = "none"
  /\ \A t \in Sessions : txs[t].op = "checkout" => txs[t].order # o
  /\ cart
  /\ req[o].promo => PromocodeValid
  /\ Open(s, [IdleTx EXCEPT !.op = "checkout", !.phase = "read", !.order = o,
                            !.bal = balance])
  /\ UNCHANGED <<req, tables, cart, handled, tasks, sends, yukassa, crashes>>

\* Mutants of CheckoutGranted: one of the two checks under the lock is
\* missing, that of the quote being thought enough.
GrantedWithoutStock(o) == req[o].promo => uses < MaxUses
GrantedWithoutPromocode(o) == req[o].qty <= stock

\* The locked inventory row and the conditional UPDATE of the promocode.
CheckoutGranted(o) ==
  /\ req[o].qty <= stock
  /\ req[o].promo => uses < MaxUses

\* The writes and the commit.  The new balance is the quote's balance less
\* the points: account was loaded before any lock.
CheckoutCommit(s) ==
  LET o == txs[s].order
      points == AppliedPoints(o, txs[s].bal)
      total == OrderTotal(o, txs[s].bal)
  IN
  /\ Running(s, "checkout", "read") /\ RowsUnlocked(s)
  /\ orders[o].status = "none"
  /\ CheckoutGranted(o)
  /\ stock' = stock - req[o].qty
  /\ orders' = [orders EXCEPT ![o] =
       [status |-> IF total = 0 THEN "PAID" ELSE "CREATED",
        cancelled_by |-> "nobody", points_used |-> points, total |-> total]]
  /\ payments' = [payments EXCEPT ![o] =
       [status |-> IF total = 0 THEN "SUCCEEDED" ELSE "PENDING",
        linked |-> FALSE]]
  /\ IF points > 0
     THEN /\ balance' = txs[s].bal - points
          /\ ledger' = Append(ledger, LedgerEntry(o,
               IF total = 0 THEN "REDEMPTION" ELSE "RESERVATION",
               -points, txs[s].bal - points))
     ELSE UNCHANGED <<balance, ledger>>
  /\ uses' = IF req[o].promo THEN uses + 1 ELSE uses
  /\ usages' = IF req[o].promo THEN usages \cup {o} ELSE usages
  /\ txs' = [txs EXCEPT ![s].phase = IF total = 0 THEN "clear" ELSE "enqueue"]
  /\ UNCHANGED <<req, assignments, notes, cart, tasks, sends, crashes,
                 PaymentSide>>

\* InventoryInsufficientError or PromocodeValidationError: rolled back.
CheckoutReject(s) ==
  /\ Running(s, "checkout", "read") /\ RowsUnlocked(s)
  /\ ~CheckoutGranted(txs[s].order)
  /\ Close(s)
  /\ UNCHANGED <<req, tables, cart, handled, tasks, sends, yukassa, crashes>>

CreateTask(o) ==
  [kind |-> "create", order |-> o, queue |-> "payments", send |-> 0,
   key |-> 0, phase |-> "queued", try |-> 0, row |-> 0]

\* enqueue_payment_task, after the commit.
CheckoutEnqueue(s) ==
  /\ Running(s, "checkout", "enqueue")
  /\ tasks' = tasks \cup {CreateTask(txs[s].order)}
  /\ Close(s)
  /\ UNCHANGED <<req, tables, cart, handled, sends, yukassa, crashes>>

\* A zero total: the cart goes at once.
CheckoutClearCart(s) ==
  /\ Running(s, "checkout", "clear")
  /\ cart' = FALSE
  /\ Close(s)
  /\ UNCHANGED <<req, tables, handled, tasks, sends, yukassa, crashes>>

\* The customer puts something into the cart.
FillCart ==
  /\ ~cart /\ cart' = TRUE
  /\ UNCHANGED <<req, tables, handled, tasks, sends, yukassa, txs, crashes>>

-----------------------------------------------------------------------------
(* POST /orders/{id}/cancel: services/order_cancel.py                      *)

MayCancel(o, by) ==
  IF by = "customer" THEN orders[o].status = "PAID"
  ELSE orders[o].status \notin AdminForbidden \cup {"none"}

\* MaxSends bounds the refund tasks of an order, those about to be sent too.
SendsLeft(o) ==
  sends[o] + Cardinality({t \in Sessions : /\ Running(t, "cancel", "read")
                                           /\ txs[t].order = o}) < MaxSends

CancelRead(s, o, by) ==
  /\ MayCancel(o, by)
  /\ SendsLeft(o)
  /\ Open(s, [IdleTx EXCEPT !.op = "cancel", !.phase = "read", !.order = o,
                            !.ost = orders[o].status, !.by = by,
                            !.bal = balance])
  /\ UNCHANGED <<req, tables, cart, handled, tasks, sends, yukassa, crashes>>

\* Mutant of RefundTask: the default queue of the application.
RefundTaskUnrouted(o, key) ==
  [kind |-> "refund", order |-> o, queue |-> "celery",
   send |-> sends[o], key |-> key, phase |-> "queued", try |-> 0, row |-> 0]

RefundTask(o, key) ==
  [kind |-> "refund", order |-> o, queue |-> RefundQueue,
   send |-> sends[o], key |-> key, phase |-> "queued", try |-> 0, row |-> 0]

SendRefund(o, key) ==
  /\ tasks' = tasks \cup {RefundTask(o, key)}
  /\ sends' = [sends EXCEPT ![o] = @ + 1]

\* The flushes take their row locks, then the refund task is sent: before
\* the commit.
CancelFlush(s) ==
  LET o == txs[s].order IN
  /\ Running(s, "cancel", "read") /\ RowsUnlocked(s)
  /\ \E bal \in BalanceReads(s) :
       txs' = [txs EXCEPT ![s].phase = "locked", ![s].bal = bal]
  /\ IF orders[o].total > 0 THEN SendRefund(o, 0)
     ELSE UNCHANGED <<tasks, sends>>
  /\ UNCHANGED <<req, tables, cart, handled, yukassa, crashes>>

\* delivery_assignment.cancel_assignment_for_order
CancelAssignment(o) ==
  assignments' =
    IF assignments[o].status \in {"AWAITING_COURIER", "COURIER_ASSIGNED"}
    THEN [assignments EXCEPT ![o].status = "CANCELLED"] ELSE assignments

CancelCommit(s) ==
  LET o == txs[s].order IN
  /\ Running(s, "cancel", "locked")
  /\ IF txs[s].ost \in InventoryRestoreStatuses THEN RestoreInventory(o)
     ELSE UNCHANGED stock
  /\ ReturnPromocode(o)
  /\ ReversePoints(o, txs[s].bal)
  /\ orders' = [orders EXCEPT ![o].status = "CANCELLED",
                              ![o].cancelled_by = txs[s].by]
  /\ CancelAssignment(o)
  /\ Notify(o, "CANCELLED")
  /\ Close(s)
  /\ UNCHANGED <<req, payments, cart, tasks, sends, crashes, PaymentSide>>

-----------------------------------------------------------------------------
(* PATCH /orders/{id}/status: services/order_lifecycle.py                  *)

TypeAllows(o, from, to) ==
  /\ <<from, to>> = <<"READY", "IN_DELIVERY">> => req[o].type = "DELIVERY"
  /\ <<from, to>> = <<"READY", "COMPLETED">> => req[o].type = "PICKUP"

TransitionRead(s, o, to) ==
  /\ <<orders[o].status, to>> \in AllowedTransitions
  /\ TypeAllows(o, orders[o].status, to)
  /\ Open(s, [IdleTx EXCEPT !.op = "transition", !.phase = "read",
                            !.order = o, !.ost = orders[o].status,
                            !.to = to, !.bal = balance])
  /\ UNCHANGED <<req, tables, cart, handled, tasks, sends, yukassa, crashes>>

TransitionCommit(s) ==
  LET o == txs[s].order IN
  /\ Running(s, "transition", "read") /\ RowsUnlocked(s)
  /\ ~ViolatesUnique(s)
  /\ SetOrder(o, txs[s].to)
  /\ IF StartsDelivery(s)
     THEN assignments' = [assignments EXCEPT ![o] =
            [status |-> "AWAITING_COURIER", courier |-> NoCourier]]
     ELSE UNCHANGED assignments
  /\ IF txs[s].to = "COMPLETED" THEN AccrueLoyalty(o, BalanceReads(s))
     ELSE UNCHANGED <<balance, ledger>>
  /\ Notify(o, txs[s].to)
  /\ Close(s)
  /\ UNCHANGED <<req, payments, stock, uses, usages, cart, tasks, sends,
                 crashes, PaymentSide>>

\* services/pickup_autoclose.py: the row is locked (SKIP LOCKED) and read
\* under the lock; whether it is stale is the clock's choice.
AutoClose(o) ==
  /\ SessionFree
  /\ req[o].type = "PICKUP" /\ orders[o].status = "READY"
  /\ \A s \in Sessions : txs[s].phase # "locked"
  /\ SetOrder(o, "COMPLETED")
  /\ AccrueLoyalty(o, {balance})
  /\ UNCHANGED <<req, payments, assignments, stock, uses, usages, notes, cart,
                 tasks, sends, txs, crashes, PaymentSide>>

-----------------------------------------------------------------------------
(* The courier's endpoints: services/delivery_assignment.py                *)

\* One conditional UPDATE, so there is no stale read.
TakeAssignment(o, c) ==
  /\ SessionFree
  /\ assignments[o].status = "AWAITING_COURIER"
  /\ orders[o].status = "READY"
  /\ \A s \in Sessions : txs[s].phase # "locked"
  /\ assignments' = [assignments EXCEPT ![o] =
       [status |-> "COURIER_ASSIGNED", courier |-> c]]
  /\ UNCHANGED <<req, orders, payments, stock, balance, ledger, uses, usages,
                 notes, cart, tasks, sends, txs, crashes, PaymentSide>>

CourierRead(s, o, c, from, ofOrder, to) ==
  /\ assignments[o] = [status |-> from, courier |-> c]
  /\ orders[o].status = ofOrder
  /\ Open(s, [IdleTx EXCEPT !.op = "courier", !.phase = "read", !.order = o,
                            !.ost = ofOrder, !.to = to, !.bal = balance])
  /\ UNCHANGED <<req, tables, cart, handled, tasks, sends, yukassa, crashes>>

PickupRead(s, o, c) ==
  CourierRead(s, o, c, "COURIER_ASSIGNED", "READY", "IN_DELIVERY")
DeliverRead(s, o, c) ==
  CourierRead(s, o, c, "PICKED_UP", "IN_DELIVERY", "COMPLETED")

\* The notification rows are added after the commit, in a transaction that
\* nobody commits, so they are not among the effects.
PickupCommit(s) ==
  LET o == txs[s].order IN
  /\ Running(s, "courier", "read") /\ txs[s].to = "IN_DELIVERY"
  /\ RowsUnlocked(s)
  /\ SetOrder(o, "IN_DELIVERY")
  /\ assignments' = [assignments EXCEPT ![o].status = "PICKED_UP"]
  /\ Close(s)
  /\ UNCHANGED <<req, payments, stock, balance, ledger, uses, usages, notes,
                 cart, tasks, sends, crashes, PaymentSide>>

DeliverCommit(s) ==
  LET o == txs[s].order IN
  /\ Running(s, "courier", "read") /\ txs[s].to = "COMPLETED"
  /\ RowsUnlocked(s)
  /\ SetOrder(o, "COMPLETED")
  /\ assignments' = [assignments EXCEPT ![o].status = "DELIVERED"]
  /\ AccrueLoyalty(o, BalanceReads(s))
  /\ Close(s)
  /\ UNCHANGED <<req, payments, stock, uses, usages, notes, cart, tasks,
                 sends, crashes, PaymentSide>>

-----------------------------------------------------------------------------
(* POST /admin/orders/{id}/refund/retry: services/refund_retry.py          *)

RetryRefund(o) ==
  /\ SessionFree
  /\ payments[o].status = "REFUND_FAILED" /\ orders[o].total > 0
  /\ SendsLeft(o)
  /\ sends[o] \in Keys
  /\ SendRefund(o, sends[o])
  /\ UNCHANGED <<req, tables, cart, handled, yukassa, txs, crashes>>

-----------------------------------------------------------------------------

CoreApiBegin(s) ==
  \E o \in Orders :
    \/ CheckoutQuote(s, o)
    \/ \E by \in {"customer", "admin"} : CancelRead(s, o, by)
    \/ \E to \in OrderStatus : TransitionRead(s, o, to)
    \/ \E c \in Couriers : PickupRead(s, o, c) \/ DeliverRead(s, o, c)

\* What a request that has begun does next.
CoreApiStep(s) ==
  \/ CheckoutCommit(s) \/ CheckoutReject(s)
  \/ CheckoutEnqueue(s) \/ CheckoutClearCart(s)
  \/ CancelFlush(s) \/ CancelCommit(s)
  \/ TransitionCommit(s) \/ PickupCommit(s) \/ DeliverCommit(s)

CoreApiAtomic ==
  \/ FillCart
  \/ \E o \in Orders : AutoClose(o) \/ RetryRefund(o)
  \/ \E o \in Orders, c \in Couriers : TakeAssignment(o, c)

=============================================================================
