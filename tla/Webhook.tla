------------------------------ MODULE Webhook ------------------------------
(***************************************************************************)
(* The YuKassa webhook of payment-worker (webhook.py) and the YuKassa      *)
(* events that reach it.                                                   *)
(*                                                                         *)
(* YuKassa repeats an event until it is answered with 200, so an event     *)
(* stays deliverable; the key in `handled` makes later deliveries no-ops.  *)
(* The endpoint is one asyncio process whose handler never awaits after    *)
(* it has read the body, so calls run one at a time.                       *)
(***************************************************************************)
EXTENDS ShopTables

ApiAndTasks == <<req, assignments, tasks, sends, yukassa, crashes>>

\* The provider has this to say.
Announced(e) ==
  CASE e.type = "payment.succeeded" ->
         e.key = 0 /\ charge[e.order] = "succeeded"
    [] e.type = "payment.canceled" ->
         e.key = 0 /\ charge[e.order] = "canceled"
    [] e.type = "refund.succeeded" -> returned[e.order][e.key] = "succeeded"
    [] e.type = "refund.canceled" -> returned[e.order][e.key] = "canceled"

\* The payment is looked up by yukassa_payment_id.
Known(o) == payments[o].linked

\* The refund with the event's id, else the payment's latest; 0 is none.
RefundOf(o, key) ==
  LET found == {i \in DOMAIN refunds[o] : refunds[o][i].key = key}
  IN  IF found # {} THEN CHOOSE i \in found : TRUE ELSE Len(refunds[o])

RefundSeen(o, row) == IF row = 0 THEN "none" ELSE refunds[o][row].status

\* Mutant of HookRead: the event is marked before it is handled.
HookReadAndMark(s, e) ==
  LET o == e.order
      row == RefundOf(o, e.key)
      refundEvent == e.type \in {"refund.succeeded", "refund.canceled"}
  IN
  /\ \A t \in Sessions : txs[t].op # "hook"
  /\ Announced(e) /\ e \notin handled
  /\ handled' = handled \cup {e}
  /\ Open(s, [IdleTx EXCEPT
       !.op = "hook", !.phase = "read", !.order = o, !.event = e.type,
       !.key = e.key, !.ost = orders[o].status, !.bal = balance,
       !.uses = uses,
       !.pst = IF Known(o) THEN payments[o].status ELSE "none",
       !.row = IF refundEvent THEN row ELSE 0,
       !.rst = IF refundEvent THEN RefundSeen(o, row) ELSE "none"])
  /\ UNCHANGED <<ApiAndTasks, tables, cart>>

\* Not handled yet: a transaction begins and reads.
HookRead(s, e) ==
  LET o == e.order
      row == RefundOf(o, e.key)
      refundEvent == e.type \in {"refund.succeeded", "refund.canceled"}
  IN
  /\ \A t \in Sessions : txs[t].op # "hook"
  /\ Announced(e) /\ e \notin handled
  /\ Open(s, [IdleTx EXCEPT
       !.op = "hook", !.phase = "read", !.order = o, !.event = e.type,
       !.key = e.key, !.ost = orders[o].status, !.bal = balance,
       !.uses = uses,
       !.pst = IF Known(o) THEN payments[o].status ELSE "none",
       !.row = IF refundEvent THEN row ELSE 0,
       !.rst = IF refundEvent THEN RefundSeen(o, row) ELSE "none"])
  /\ UNCHANGED <<ApiAndTasks, tables, cart, handled>>

Saw(s, event) == Running(s, "hook", "read") /\ txs[s].event = event

\* _handle_payment_succeeded
SeesOpenPayment(s) ==
  txs[s].pst = "AWAITING_CONFIRMATION" /\ txs[s].ost = "CREATED"

\* Mutant of HookPaid: the order is not told.
HookPaidPaymentOnly(s) ==
  LET o == txs[s].order IN
  /\ Saw(s, "payment.succeeded") /\ SeesOpenPayment(s) /\ RowsUnlocked(s)
  /\ SetPayment(o, "SUCCEEDED")
  /\ ConfirmReservation(o)
  /\ Notify(o, "PAID")
  /\ txs' = [txs EXCEPT ![s].phase = "clear"]
  /\ UNCHANGED <<ApiAndTasks, orders, refunds, stock, balance, uses, usages,
                 cart, handled>>

HookPaid(s) ==
  LET o == txs[s].order IN
  /\ Saw(s, "payment.succeeded") /\ SeesOpenPayment(s) /\ RowsUnlocked(s)
  /\ SetPayment(o, "SUCCEEDED")
  /\ SetOrder(o, "PAID")
  /\ ConfirmReservation(o)
  /\ Notify(o, "PAID")
  /\ txs' = [txs EXCEPT ![s].phase = "clear"]
  /\ UNCHANGED <<ApiAndTasks, refunds, stock, balance, uses, usages, cart,
                 handled>>

\* _handle_payment_canceled: the whole unwind, or the payment alone when the
\* order is cancelled already.
HookUnpaid(s) ==
  LET o == txs[s].order IN
  /\ Saw(s, "payment.canceled") /\ SeesOpenPayment(s) /\ RowsUnlocked(s)
  /\ SetPayment(o, "PAYMENT_FAILED")
  /\ SetOrder(o, "CANCELLED")
  /\ RestoreInventory(o)
  /\ ReverseInLedger(o)
  /\ DecrementPromocode(s, o)
  /\ Notify(o, "CANCELLED")
  /\ txs' = [txs EXCEPT ![s].phase = "mark"]
  /\ UNCHANGED <<ApiAndTasks, refunds, cart, handled>>

SeesCancelledOrder(s) ==
  txs[s].pst = "AWAITING_CONFIRMATION" /\ txs[s].ost = "CANCELLED"

HookUnpaidCancelled(s) ==
  /\ Saw(s, "payment.canceled") /\ SeesCancelledOrder(s)
  /\ SetPayment(txs[s].order, "PAYMENT_FAILED")
  /\ txs' = [txs EXCEPT ![s].phase = "mark"]
  /\ UNCHANGED <<ApiAndTasks, orders, refunds, stock, balance, ledger, uses,
                 usages, notes, cart, handled>>

\* Mutant of SeesPendingRefund: the refund's own row is enough.
SeesPendingRow(s) == txs[s].pst # "none" /\ txs[s].rst = "PENDING"

SeesPendingRefund(s) ==
  txs[s].pst = "REFUND_PENDING" /\ txs[s].rst = "PENDING"

SettleRefund(s, refund, payment) ==
  LET o == txs[s].order IN
  /\ ~ViolatesUnique(s)
  /\ refunds' = [refunds EXCEPT ![o][txs[s].row] =
                   [status |-> refund, key |-> txs[s].key]]
  /\ SetPayment(o, payment)
  /\ txs' = [txs EXCEPT ![s].phase = "mark"]
  /\ UNCHANGED <<ApiAndTasks, orders, stock, balance, ledger, uses, usages,
                 cart, handled>>

HookRefunded(s) ==
  /\ Saw(s, "refund.succeeded") /\ SeesPendingRefund(s)
  /\ SettleRefund(s, "SUCCEEDED", "REFUNDED")
  /\ UNCHANGED notes

HookRefundCanceled(s) ==
  /\ Saw(s, "refund.canceled") /\ SeesPendingRefund(s)
  /\ SettleRefund(s, "FAILED", "REFUND_FAILED")
  /\ Notify(txs[s].order, "REFUND_FAILED")

\* idempotent_terminal, forbidden_source_state, unknown payment: no write,
\* and still a 200.
Ignores(s) ==
  CASE txs[s].event = "payment.succeeded" -> ~SeesOpenPayment(s)
    [] txs[s].event = "payment.canceled" ->
         ~SeesOpenPayment(s) /\ ~SeesCancelledOrder(s)
    [] OTHER -> ~SeesPendingRefund(s)

HookIgnored(s) ==
  /\ Running(s, "hook", "read") /\ Ignores(s)
  /\ txs' = [txs EXCEPT ![s].phase = "mark"]
  /\ UNCHANGED <<ApiAndTasks, tables, cart, handled>>

HookClearCart(s) ==
  /\ Running(s, "hook", "clear")
  /\ cart' = FALSE
  /\ txs' = [txs EXCEPT ![s].phase = "mark"]
  /\ UNCHANGED <<ApiAndTasks, tables, handled>>

\* mark_event_processed, after the commit.
HookMark(s) ==
  /\ Running(s, "hook", "mark")
  /\ handled' = handled \cup {[type |-> txs[s].event, order |-> txs[s].order,
                               key |-> txs[s].key]}
  /\ Close(s)
  /\ UNCHANGED <<ApiAndTasks, tables, cart>>

HookBegin(s) == \E e \in Event : HookRead(s, e)

HookStep(s) ==
  \/ HookPaid(s) \/ HookUnpaid(s) \/ HookUnpaidCancelled(s)
  \/ HookRefunded(s) \/ HookRefundCanceled(s) \/ HookIgnored(s)
  \/ HookClearCart(s) \/ HookMark(s)

-----------------------------------------------------------------------------
(* YuKassa.  A customer can pay once the confirmation_url is on the order. *)

Around == <<req, tables, cart, handled, tasks, sends, txs, crashes>>

ChargePaid(o) ==
  /\ charge[o] = "pending" /\ payments[o].linked
  /\ charge' = [charge EXCEPT ![o] = "succeeded"]
  /\ UNCHANGED <<Around, returned>>

\* Declined, or expired unpaid.
ChargeCanceled(o) ==
  /\ charge[o] = "pending"
  /\ charge' = [charge EXCEPT ![o] = "canceled"]
  /\ UNCHANGED <<Around, returned>>

RefundResolved(o, key) ==
  /\ returned[o][key] = "pending"
  /\ \E result \in {"succeeded", "canceled"} :
       returned' = [returned EXCEPT ![o][key] = result]
  /\ UNCHANGED <<Around, charge>>

YuKassaStep ==
  \E o \in Orders : \/ ChargePaid(o) \/ ChargeCanceled(o)
                    \/ \E key \in Keys : RefundResolved(o, key)

=============================================================================
