--------------------------- MODULE PaymentWorker ---------------------------
(***************************************************************************)
(* The Celery tasks of payment-worker, create_payment and initiate_refund, *)
(* with what YuKassa's API does when they call it.                         *)
(*                                                                         *)
(* A task is acknowledged when a worker receives it, so a worker that dies *)
(* loses it.  Tasks run concurrently (prefork).                            *)
(***************************************************************************)
EXTENDS ShopTables

\* main.py: the worker consumes this queue and no other.
WorkerQueues == {"payments"}

\* What this component never writes.
ApiSide == <<req, assignments, sends>>

ReplaceTask(k, new) == tasks' = (tasks \ {k}) \cup {new}
DropTask(k) == tasks' = tasks \ {k}
Received(k) == k.queue \in WorkerQueues

-----------------------------------------------------------------------------
(* create_payment                                                          *)

\* YuKassa creates at most one payment per idempotency key.
ChargeCreated(o) ==
  charge' = IF charge[o] = "none" THEN [charge EXCEPT ![o] = "pending"]
            ELSE charge

CreateAccepted(k) ==
  /\ k.kind = "create" /\ k.phase = "queued" /\ Received(k)
  /\ ChargeCreated(k.order)
  /\ ReplaceTask(k, [k EXCEPT !.phase = "accepted"])
  /\ UNCHANGED <<ApiSide, tables, cart, handled, returned, txs, crashes>>

\* httpx.RequestError: the request or its answer is lost.  Retried, then
\* compensated.
CreateUnreachable(k) ==
  /\ k.kind = "create" /\ k.phase = "queued" /\ Received(k)
  /\ ChargeCreated(k.order) \/ UNCHANGED charge
  /\ ReplaceTask(k, IF k.try < MaxRetries THEN [k EXCEPT !.try = @ + 1]
                    ELSE [k EXCEPT !.phase = "failed"])
  /\ UNCHANGED <<ApiSide, tables, cart, handled, returned, txs, crashes>>

\* httpx.HTTPStatusError is neither retried nor compensated.
CreateRefused(k) ==
  /\ k.kind = "create" /\ k.phase = "queued" /\ Received(k)
  /\ DropTask(k)
  /\ UNCHANGED <<ApiSide, tables, cart, handled, yukassa, txs, crashes>>

\* The second transaction writes what it wants whatever the row holds.
CreateSave(k) ==
  /\ k.kind = "create" /\ k.phase = "accepted" /\ SessionFree
  /\ payments' = [payments EXCEPT ![k.order] =
       [status |-> "AWAITING_CONFIRMATION", linked |-> TRUE]]
  /\ DropTask(k)
  /\ UNCHANGED <<ApiSide, orders, refunds, stock, balance, ledger, uses,
                 usages, notes, cart, handled, yukassa, txs, crashes>>

\* _fail_payment_and_cancel_order
CompensateRead(s, k) ==
  /\ k.kind = "create" /\ k.phase = "failed"
  /\ payments[k.order].status # "PAYMENT_FAILED"
  /\ Open(s, [IdleTx EXCEPT !.op = "compensate", !.phase = "read",
                            !.order = k.order, !.ost = orders[k.order].status,
                            !.pst = payments[k.order].status,
                            !.bal = balance, !.uses = uses])
  /\ DropTask(k)
  /\ UNCHANGED <<ApiSide, tables, cart, handled, yukassa, crashes>>

CompensateSkip(k) ==
  /\ k.kind = "create" /\ k.phase = "failed"
  /\ payments[k.order].status = "PAYMENT_FAILED"
  /\ DropTask(k)
  /\ UNCHANGED <<ApiSide, tables, cart, handled, yukassa, txs, crashes>>

\* What a failed payment does to an order that is not cancelled yet.
FailOrder(s, o) ==
  /\ SetOrder(o, "CANCELLED")
  /\ RestoreInventory(o)
  /\ ReverseInLedger(o)
  /\ DecrementPromocode(s, o)

\* Mutant of CompensateCommit: an order that is cancelled is cancelled again.
CompensateAnyway(s) ==
  LET o == txs[s].order IN
  /\ Running(s, "compensate", "read") /\ RowsUnlocked(s)
  /\ SetPayment(o, "PAYMENT_FAILED")
  /\ FailOrder(s, o)
  /\ Close(s)
  /\ UNCHANGED <<ApiSide, refunds, notes, cart, handled, tasks, yukassa,
                 crashes>>

CompensateCommit(s) ==
  LET o == txs[s].order IN
  /\ Running(s, "compensate", "read") /\ RowsUnlocked(s)
  /\ SetPayment(o, "PAYMENT_FAILED")
  /\ IF txs[s].ost = "CANCELLED"
     THEN UNCHANGED <<orders, stock, balance, ledger, uses, usages>>
     ELSE FailOrder(s, o)
  /\ Close(s)
  /\ UNCHANGED <<ApiSide, refunds, notes, cart, handled, tasks, yukassa,
                 crashes>>

-----------------------------------------------------------------------------
(* initiate_refund                                                         *)

\* Mutant of RefundAllowed: a refund that is under way is no obstacle.
RefundAllowedAgain(o) ==
  payments[o].linked /\ payments[o].status \in RefundSources

RefundAllowed(o) ==
  /\ payments[o].linked
  /\ payments[o].status \in RefundSources
  /\ \A i \in DOMAIN refunds[o] : refunds[o][i].status # "PENDING"

\* First transaction: guards, then the new refunds row.
RefundOpenRead(s, k) ==
  /\ k.kind = "refund" /\ k.phase = "queued" /\ Received(k)
  /\ RefundAllowed(k.order)
  /\ Open(s, [IdleTx EXCEPT !.op = "refundOpen", !.phase = "read",
                            !.order = k.order, !.send = k.send,
                            !.key = k.key])
  /\ DropTask(k)
  /\ UNCHANGED <<ApiSide, tables, cart, handled, yukassa, crashes>>

RefundSkip(k) ==
  /\ k.kind = "refund" /\ k.phase = "queued" /\ Received(k)
  /\ ~RefundAllowed(k.order)
  /\ DropTask(k)
  /\ UNCHANGED <<ApiSide, tables, cart, handled, yukassa, txs, crashes>>

RefundOpenCommit(s) ==
  LET o == txs[s].order IN
  /\ Running(s, "refundOpen", "read")
  /\ refunds' = [refunds EXCEPT ![o] =
                   Append(@, [status |-> "PENDING", key |-> NoKey])]
  /\ tasks' = tasks \cup
       {[kind |-> "refund", order |-> o, queue |-> RefundQueue,
         send |-> txs[s].send, key |-> txs[s].key, phase |-> "calling",
         try |-> 0, row |-> Len(refunds[o]) + 1]}
  /\ Close(s)
  /\ UNCHANGED <<ApiSide, orders, payments, stock, balance, ledger, uses,
                 usages, notes, cart, handled, yukassa, crashes>>

\* YuKassa makes at most one refund per idempotency key.
RefundMade(k) ==
  returned' = IF returned[k.order][k.key] = "none"
              THEN [returned EXCEPT ![k.order][k.key] = "pending"]
              ELSE returned

RefundAccepted(k) ==
  /\ k.kind = "refund" /\ k.phase = "calling"
  /\ RefundMade(k)
  /\ ReplaceTask(k, [k EXCEPT !.phase = "accepted"])
  /\ UNCHANGED <<ApiSide, tables, cart, handled, charge, txs, crashes>>

\* Any exception: the call was refused, or its answer was lost.
RefundUnreachable(k) ==
  /\ k.kind = "refund" /\ k.phase = "calling"
  /\ RefundMade(k) \/ UNCHANGED returned
  /\ ReplaceTask(k, [k EXCEPT !.phase = "failed"])
  /\ UNCHANGED <<ApiSide, tables, cart, handled, charge, txs, crashes>>

RefundFail(k) ==
  /\ k.kind = "refund" /\ k.phase = "failed" /\ SessionFree
  /\ refunds' = [refunds EXCEPT ![k.order][k.row].status = "FAILED"]
  /\ DropTask(k)
  /\ UNCHANGED <<ApiSide, orders, payments, stock, balance, ledger, uses,
                 usages, notes, cart, handled, yukassa, txs, crashes>>

\* Last transaction, in a session of its own.
RefundSaveRead(s, k) ==
  /\ k.kind = "refund" /\ k.phase = "accepted"
  /\ Open(s, [IdleTx EXCEPT !.op = "refundSave", !.phase = "read",
                            !.order = k.order, !.key = k.key, !.row = k.row,
                            !.pst = payments[k.order].status])
  /\ DropTask(k)
  /\ UNCHANGED <<ApiSide, tables, cart, handled, yukassa, crashes>>

\* Mutant of RefundSaveCommit: a refund that YuKassa accepted is a refund.
RefundSaveDone(s) ==
  LET o == txs[s].order IN
  /\ Running(s, "refundSave", "read")
  /\ ~ViolatesUnique(s)
  /\ refunds' = [refunds EXCEPT ![o][txs[s].row].key = txs[s].key]
  /\ IF txs[s].pst \in RefundSources THEN SetPayment(o, "REFUNDED")
     ELSE UNCHANGED payments
  /\ Close(s)
  /\ UNCHANGED <<ApiSide, orders, stock, balance, ledger, uses, usages, notes,
                 cart, handled, tasks, yukassa, crashes>>

\* A status that was read as REFUND_PENDING is not written again.
RefundSaveCommit(s) ==
  LET o == txs[s].order IN
  /\ Running(s, "refundSave", "read")
  /\ ~ViolatesUnique(s)
  /\ refunds' = [refunds EXCEPT ![o][txs[s].row].key = txs[s].key]
  /\ IF txs[s].pst \in RefundSources THEN SetPayment(o, "REFUND_PENDING")
     ELSE UNCHANGED payments
  /\ Close(s)
  /\ UNCHANGED <<ApiSide, orders, stock, balance, ledger, uses, usages, notes,
                 cart, handled, tasks, yukassa, crashes>>

-----------------------------------------------------------------------------

WorkerBegin(s) ==
  \E k \in tasks : CompensateRead(s, k) \/ RefundOpenRead(s, k)
                    \/ RefundSaveRead(s, k)

WorkerStep(s) ==
  CompensateCommit(s) \/ RefundOpenCommit(s) \/ RefundSaveCommit(s)

\* A task between two of its transactions.
TaskStep ==
  \E k \in tasks :
    \/ CreateAccepted(k) \/ CreateUnreachable(k) \/ CreateRefused(k)
    \/ CreateSave(k) \/ CompensateSkip(k)
    \/ RefundSkip(k) \/ RefundAccepted(k) \/ RefundUnreachable(k)
    \/ RefundFail(k)

\* The worker process dies while it executes task k.
TaskLost(k) ==
  /\ crashes < MaxCrashes /\ crashes' = crashes + 1
  /\ k.phase # "queued"
  /\ DropTask(k)
  /\ UNCHANGED <<ApiSide, tables, cart, handled, yukassa, txs>>

=============================================================================
