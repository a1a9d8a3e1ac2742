--------------------------- MODULE ContractProofs ---------------------------
(***************************************************************************)
(* The shop implements MoneyContract: every step of every handler, worker  *)
(* and webhook, under the mapping of CoffeeShop, is a step of the contract *)
(* or leaves all that the contract speaks of alone.  Then what the         *)
(* contract leaves open: a captured payment is not forgotten.              *)
(***************************************************************************)
EXTENDS BookProofs

-----------------------------------------------------------------------------
(* Steps the contract does not see, and steps of its Keep                  *)

ContractStep == [Contract!ContractNext]_(Contract!contractVars)

LEMMA Unseen ==
  ASSUME UNCHANGED <<orders, payments, charge, returned>>
  PROVE  ContractStep
BY DEF ContractStep, Contract!contractVars

\* One order moves on, or its payment, or both: to a state that what
\* YuKassa has done justifies.
OrderMoves(o) ==
  LET stage == StageOf(orders[o].status)
      next  == StageOf(orders'[o].status) IN
  /\ orders'[o].total = orders[o].total
  /\ next = stage \/ next = "cancelled" \/ (next = "served" /\ Captured(o))

PaymentMoves(o) ==
  LET book == BookOf(payments[o].status)
      next == BookOf(payments'[o].status) IN
  \/ next = book
  \/ next = "received" /\ Captured(o)
  \/ /\ book = "received" /\ next = "returned"
     /\ \E key \in Keys : returned[o][key] = "succeeded"
  \/ /\ book = "received" /\ next = "refused"
     /\ \E key \in Keys : returned[o][key] = "canceled"

LEMMA Kept ==
  ASSUME NEW o \in Orders, orders[o].status # "none",
         \A p \in Orders \ {o} : orders'[p] = orders[p] /\ payments'[p] = payments[p],
         OrderMoves(o), PaymentMoves(o), UNCHANGED <<charge, returned>>
  PROVE  ContractStep
<1> DEFINE stage == [p \in Orders |-> StageOf(orders[p].status)]
           due == [p \in Orders |-> orders[p].total > 0]
           book == [p \in Orders |-> BookOf(payments[p].status)]
           s == StageOf(orders'[o].status)
           b == BookOf(payments'[o].status)
<1>1. /\ s \in {"waiting", "served", "cancelled"} /\ stage[o] # "none"
      /\ b \in {"open", "received", "returned", "refused"}
  BY DEF StageOf, BookOf, OrderMoves
<1>2. stage' = [stage EXCEPT ![o] = s] /\ book' = [book EXCEPT ![o] = b]
  OBVIOUS
<1>3. due' = due
  BY DEF OrderMoves
<1>4. Contract!Paid(o) <=> (orders[o].total > 0 => charge[o] = "succeeded")
  BY DEF Contract!Paid
<1>5. Contract!MayStand(o, s)
  BY <1>4 DEF Contract!MayStand, OrderMoves, Captured
<1>6. Contract!MayBook(o, b)
  BY <1>4 DEF Contract!MayBook, Contract!Outcome, PaymentMoves, Captured
<1>7. Contract!Keep(o)
  BY <1>1, <1>2, <1>3, <1>5, <1>6 DEF Contract!Keep
<1>8. QED
  BY <1>7 DEF ContractStep, Contract!ContractNext

-----------------------------------------------------------------------------
(* core-api                                                                *)

\* A new order waits for its payment, or costs nothing and is paid.
LEMMA CheckoutPlaces ==
  ASSUME TypeInv, BookInv, NEW s \in Sessions, CheckoutCommit(s)
  PROVE  ContractStep
<1>1. PICK o \in Orders : o = txs[s].order
  BY SessionOrder DEF CheckoutCommit, Running
<1> DEFINE total == OrderTotal(o, txs[s].bal)
           points == AppliedPoints(o, txs[s].bal)
<1>2. /\ orders[o].status = "none"
      /\ orders' = [orders EXCEPT ![o] =
           [status |-> IF total = 0 THEN "PAID" ELSE "CREATED",
            cancelled_by |-> "nobody", points_used |-> points,
            total |-> total]]
      /\ payments' = [payments EXCEPT ![o] =
           [status |-> IF total = 0 THEN "SUCCEEDED" ELSE "PENDING",
            linked |-> FALSE]]
      /\ UNCHANGED <<charge, returned>>
  BY <1>1 DEF CheckoutCommit, PaymentSide, yukassa
<1>3. orders[o].total = 0 /\ payments[o].status = "none"
  BY <1>2, UnplacedIsFree
<1> HIDE DEF total, points
<1>4. /\ orders'[o].status = IF total = 0 THEN "PAID" ELSE "CREATED"
      /\ orders'[o].total = total
      /\ payments'[o].status = IF total = 0 THEN "SUCCEEDED" ELSE "PENDING"
      /\ \A p \in Orders \ {o} : orders'[p] = orders[p] /\ payments'[p] = payments[p]
  BY <1>2 DEF TypeInv, TypeOK
<1>5. total \in Nat
  <2>1. orders'[o].total \in Nat
    BY CheckoutCommitTyped DEF TypeInv, TypeOK, OrderRow
  <2>2. QED
    BY <1>4, <2>1
<1> DEFINE stage == [p \in Orders |-> StageOf(orders[p].status)]
           due == [p \in Orders |-> orders[p].total > 0]
           book == [p \in Orders |-> BookOf(payments[p].status)]
<1>6. stage[o] = "none" /\ book[o] = "open" /\ ~due[o]
  <2>1. orders[o].status = "none"
    BY <1>2
  <2>2. StageOf(orders[o].status) = "none" /\ BookOf(payments[o].status) = "open"
    BY <1>3, <2>1 DEF StageOf, BookOf
  <2>3. ~(orders[o].total > 0)
    BY <1>3
  <2>4. QED
    BY <2>2, <2>3
<1>7. CASE total = 0
  <2>1. StageOf(orders'[o].status) = "served" /\ BookOf(payments'[o].status) = "received"
    BY <1>4, <1>7 DEF StageOf, BookOf
  <2>2. /\ stage' = [stage EXCEPT ![o] = "served"]
        /\ due' = due
        /\ book' = [book EXCEPT ![o] = "received"]
    BY <1>3, <1>4, <1>7, <2>1
  <2>3. Contract!Place(o)
    BY <1>2, <1>6, <2>2 DEF Contract!Place
  <2>4. QED
    BY <2>3 DEF ContractStep, Contract!ContractNext
<1>8. CASE total # 0
  <2>1. StageOf(orders'[o].status) = "waiting" /\ BookOf(payments'[o].status) = "open"
    BY <1>4, <1>8 DEF StageOf, BookOf
  <2>2. /\ stage' = [stage EXCEPT ![o] = "waiting"]
        /\ due' = [due EXCEPT ![o] = TRUE]
        /\ book' = book
    <3>1. stage' = [stage EXCEPT ![o] = "waiting"]
      BY <1>4, <2>1
    <3>2. orders'[o].total > 0
      BY <1>4, <1>5, <1>8
    <3>3. due' = [due EXCEPT ![o] = TRUE]
      BY <1>4, <3>2
    <3>4. book' = book
      BY <1>4, <1>6, <2>1
    <3>5. QED
      BY <3>1, <3>3, <3>4
  <2>3. Contract!Place(o)
    BY <1>2, <1>6, <2>2 DEF Contract!Place
  <2>4. QED
    BY <2>3 DEF ContractStep, Contract!ContractNext
<1>9. QED
  BY <1>7, <1>8

\* A session or a timer that moves an order on and leaves payments alone.
LEMMA OrderKept ==
  ASSUME TypeInv, NEW o \in Orders, NEW status \in OrderStatus, SetOrder(o, status),
         orders[o].status # "none", status = "CANCELLED" \/ Captured(o),
         status # "CREATED", UNCHANGED <<payments, charge, returned>>
  PROVE  ContractStep
<1>1. /\ orders'[o].status = status /\ orders'[o].total = orders[o].total
      /\ \A p \in Orders \ {o} : orders'[p] = orders[p]
  BY SetOrderStays
<1>2. OrderMoves(o)
  BY <1>1 DEF OrderMoves, StageOf, OrderStatus
<1>3. QED
  BY <1>1, <1>2, Kept DEF PaymentMoves

LEMMA CancelKept ==
  ASSUME TypeInv, BookInv, NEW s \in Sessions, CancelCommit(s)
  PROVE  ContractStep
<1>1. PICK o \in Orders : o = txs[s].order
  BY SessionOrder DEF CancelCommit, Running
<1>2. /\ orders' = [orders EXCEPT ![o].status = "CANCELLED",
                                  ![o].cancelled_by = txs[s].by]
      /\ UNCHANGED <<payments, charge, returned>>
  BY <1>1 DEF CancelCommit, PaymentSide, yukassa
<1>3. /\ orders'[o].status = "CANCELLED" /\ orders'[o].total = orders[o].total
      /\ \A p \in Orders \ {o} : orders'[p] = orders[p]
  BY <1>1, <1>2 DEF TypeInv, TypeOK, OrderRow
<1>4. orders[o].status # "none"
  BY <1>1 DEF BookInv, SessionBook, CancelCommit, Running
<1>5. OrderMoves(o)
  BY <1>3 DEF OrderMoves, StageOf
<1>6. QED
  BY <1>2, <1>3, <1>4, <1>5, Kept DEF PaymentMoves

\* Staff and couriers move what the money was there for when they read it.
LEMMA StaffKept ==
  ASSUME TypeInv, MoneyInv, NEW s \in Sessions,
         TransitionCommit(s) \/ PickupCommit(s) \/ DeliverCommit(s)
  PROVE  ContractStep
<1>1. PICK o \in Orders : o = txs[s].order
  BY SessionOrder DEF TransitionCommit, PickupCommit, DeliverCommit, Running
<1>2. txs[s].op \in {"transition", "courier"} /\ UNCHANGED <<payments, charge, returned>>
  BY DEF TransitionCommit, PickupCommit, DeliverCommit, Running, PaymentSide, yukassa
<1>3. Captured(o) /\ orders[o].status # "none"
  BY <1>1, <1>2 DEF MoneyInv, SessionKnows, Captured
<1>4. PICK status \in OrderStatus \ {"CREATED"} : SetOrder(o, status)
  <2>1. CASE TransitionCommit(s)
    <3>1. <<txs[s].ost, txs[s].to>> \in AllowedTransitions
      BY <2>1 DEF MoneyInv, SessionKnows, TransitionCommit, Running
    <3>2. txs[s].to \in OrderStatus \ {"CREATED"}
      BY <3>1 DEF AllowedTransitions, OrderStatus
    <3>3. QED
      BY <1>1, <2>1, <3>2 DEF TransitionCommit
  <2>2. CASE PickupCommit(s) \/ DeliverCommit(s)
    BY <1>1, <2>2 DEF PickupCommit, DeliverCommit, OrderStatus
  <2>3. QED
    BY <2>1, <2>2
<1>5. QED
  BY <1>2, <1>3, <1>4, OrderKept

LEMMA AtomicKept ==
  ASSUME TypeInv, MoneyInv, CoreApiAtomic
  PROVE  ContractStep
<1>1. ASSUME NEW o \in Orders, AutoClose(o)
      PROVE  ContractStep
  <2>1. /\ SetOrder(o, "COMPLETED") /\ orders[o].status = "READY"
        /\ UNCHANGED <<payments, charge, returned>>
    BY <1>1 DEF AutoClose, PaymentSide, yukassa
  <2>2. Captured(o)
    BY <2>1, ServedIsCaptured DEF Served
  <2>3. QED
    BY <2>1, <2>2, OrderKept DEF OrderStatus
<1>2. CASE \/ FillCart \/ \E o \in Orders : RetryRefund(o)
           \/ \E o \in Orders, c \in Couriers : TakeAssignment(o, c)
  BY <1>2, Unseen DEF FillCart, RetryRefund, TakeAssignment, tables, yukassa,
                      PaymentSide
<1>3. QED
  BY <1>1, <1>2 DEF CoreApiAtomic

\* Requests that begin, wait, or end without a commit to these tables.
LEMMA CoreApiUnseen ==
  ASSUME NEW s \in Sessions,
         \/ CoreApiBegin(s) \/ CheckoutReject(s) \/ CheckoutEnqueue(s)
         \/ CheckoutClearCart(s) \/ CancelFlush(s) \/ SessionLost(s)
         \/ IntegrityError(s)
  PROVE  ContractStep
<1>1. UNCHANGED <<orders, payments, charge, returned>>
  <2>1. CASE CoreApiBegin(s)
    BY <2>1 DEF CoreApiBegin, CheckoutQuote, CancelRead, TransitionRead, PickupRead,
                DeliverRead, CourierRead, tables, yukassa
  <2>2. CASE ~CoreApiBegin(s)
    BY <2>2 DEF CheckoutReject, CheckoutEnqueue, CheckoutClearCart, CancelFlush,
                SessionLost, IntegrityError, tables, yukassa, PaymentSide
  <2>3. QED
    BY <2>1, <2>2
<1>2. QED
  BY <1>1, Unseen

-----------------------------------------------------------------------------
(* The payment worker                                                      *)

\* The creator writes: nothing was booked before, and nothing is now.
LEMMA CreateSaveKept ==
  ASSUME TypeInv, BookInv, NEW k \in tasks, CreateSave(k)
  PROVE  ContractStep
<1> DEFINE o == k.order
<1>1. /\ k.kind = "create" /\ UNCHANGED <<orders, charge, returned>>
      /\ payments' = [payments EXCEPT ![o] =
           [status |-> "AWAITING_CONFIRMATION", linked |-> TRUE]]
  BY DEF CreateSave, yukassa
<1>2. o \in Orders /\ Unasked(o)
  BY <1>1, CreateTaskKnows
<1>3. orders[o].status # "none"
  BY <1>2 DEF BookInv, Unplaced, Unasked
<1>4. /\ payments'[o].status = "AWAITING_CONFIRMATION" /\ payments[o].status = "PENDING"
      /\ \A p \in Orders \ {o} : payments'[p] = payments[p]
  BY <1>1, <1>2 DEF Unasked, TypeInv, TypeOK
<1>5. OrderMoves(o) /\ PaymentMoves(o)
  BY <1>1, <1>4 DEF OrderMoves, PaymentMoves, BookOf
<1> HIDE DEF o
<1>6. QED
  BY <1>1, <1>2, <1>3, <1>4, <1>5, Kept

LEMMA CompensateKept ==
  ASSUME TypeInv, BookInv, NEW s \in Sessions, CompensateCommit(s)
  PROVE  ContractStep
<1>1. PICK o \in Orders : o = txs[s].order
  BY SessionOrder DEF CompensateCommit, Running
<1>2. /\ SetPayment(o, "PAYMENT_FAILED") /\ UNCHANGED <<charge, returned>>
      /\ SetOrder(o, "CANCELLED") \/ UNCHANGED orders
      /\ CreatesNow(s, o)
  BY <1>1 DEF CompensateCommit, FailOrder, CreatesNow, Running, yukassa
<1>3. Unasked(o)
  BY <1>2 DEF BookInv, SessionBook, CreatesNow
<1>4. /\ payments'[o].status = "PAYMENT_FAILED" /\ payments[o].status = "PENDING"
      /\ \A p \in Orders \ {o} : payments'[p] = payments[p]
  BY <1>2, <1>3, SetPaymentEffect DEF Unasked
<1>5. /\ orders'[o].status = "CANCELLED" \/ orders'[o] = orders[o]
      /\ orders'[o].total = orders[o].total
      /\ \A p \in Orders \ {o} : orders'[p] = orders[p]
  BY <1>2, SetOrderStays DEF OrderStatus
<1>6. orders[o].status # "none"
  BY <1>3 DEF BookInv, Unplaced, Unasked
<1>7. OrderMoves(o) /\ PaymentMoves(o)
  BY <1>4, <1>5 DEF OrderMoves, PaymentMoves, StageOf, BookOf
<1>8. QED
  BY <1>2, <1>4, <1>5, <1>6, <1>7, Kept

\* A late write of REFUND_PENDING books the payment as received again, which
\* it was: the money was captured.
LEMMA RefundSaveKept ==
  ASSUME TypeInv, MoneyInv, BookInv, NEW s \in Sessions, RefundSaveCommit(s)
  PROVE  ContractStep
<1>1. PICK o \in Orders : o = txs[s].order
  BY SessionOrder DEF RefundSaveCommit, Running
<1>2. /\ txs[s].op = "refundSave" /\ UNCHANGED <<orders, charge, returned>>
      /\ SetPayment(o, "REFUND_PENDING") \/ UNCHANGED payments
  BY <1>1 DEF RefundSaveCommit, Running, yukassa
<1>3. CASE UNCHANGED payments
  BY <1>2, <1>3, Unseen
<1>4. CASE SetPayment(o, "REFUND_PENDING")
  <2>1. Captured(o)
    BY <1>1, <1>2, ServedIsCaptured DEF BookInv, SessionBook, Booked
  <2>2. /\ payments'[o].status = "REFUND_PENDING"
        /\ \A p \in Orders \ {o} : payments'[p] = payments[p]
    BY <1>4, SetPaymentEffect
  <2>3. OrderMoves(o) /\ PaymentMoves(o)
    BY <1>2, <2>1, <2>2 DEF OrderMoves, PaymentMoves, BookOf
  <2>4. QED
    BY <1>2, <2>1, <2>2, <2>3, Kept DEF Captured
<1>5. QED
  BY <1>2, <1>3, <1>4

\* What YuKassa does when a task calls it.
LEMMA CreateCallKept ==
  ASSUME TypeInv, NEW k \in tasks, CreateAccepted(k) \/ CreateUnreachable(k)
  PROVE  ContractStep
<1> DEFINE o == k.order
<1>1. /\ UNCHANGED <<orders, payments, returned>> /\ o \in Orders
      /\ ChargeCreated(o) \/ UNCHANGED charge
  BY TaskTyped DEF CreateAccepted, CreateUnreachable, tables
<1>2. CASE charge[o] = "none" /\ charge' = [charge EXCEPT ![o] = "pending"]
  <2>1. Contract!Charge(o)
    BY <1>1, <1>2 DEF Contract!Charge, Contract!ProviderSteps
  <2>2. QED
    BY <1>1, <2>1 DEF ContractStep, Contract!ContractNext
<1>3. CASE UNCHANGED charge
  BY <1>1, <1>3, Unseen
<1>4. QED
  BY <1>1, <1>2, <1>3 DEF ChargeCreated

LEMMA RefundCallKept ==
  ASSUME TypeInv, NEW k \in tasks, RefundAccepted(k) \/ RefundUnreachable(k)
  PROVE  ContractStep
<1> DEFINE o == k.order
           key == k.key
<1>1. /\ UNCHANGED <<orders, payments, charge>> /\ o \in Orders /\ key \in Keys
      /\ RefundMade(k) \/ UNCHANGED returned
  BY TaskTyped DEF RefundAccepted, RefundUnreachable, tables
<1>2. CASE returned[o][key] = "none" /\ returned' = [returned EXCEPT ![o][key] = "pending"]
  <2>1. Contract!Return(o, key)
    BY <1>1, <1>2 DEF Contract!Return, Contract!ProviderSteps
  <2>2. QED
    BY <1>1, <2>1 DEF ContractStep, Contract!ContractNext
<1>3. CASE UNCHANGED returned
  BY <1>1, <1>3, Unseen
<1>4. QED
  BY <1>1, <1>2, <1>3 DEF RefundMade

LEMMA WorkerUnseen ==
  ASSUME \/ \E s \in Sessions : WorkerBegin(s) \/ RefundOpenCommit(s)
         \/ \E k \in tasks : \/ CreateRefused(k) \/ CompensateSkip(k)
                             \/ RefundSkip(k) \/ RefundFail(k) \/ TaskLost(k)
  PROVE  ContractStep
<1>1. UNCHANGED <<orders, payments, charge, returned>>
  BY DEF WorkerBegin, CompensateRead, RefundOpenRead, RefundSaveRead, RefundOpenCommit,
         CreateRefused, CompensateSkip, RefundSkip, RefundFail, TaskLost, tables, yukassa
<1>2. QED
  BY <1>1, Unseen

-----------------------------------------------------------------------------
(* The webhook and YuKassa                                                 *)

\* What a webhook call commits, given what it knows of the row and of YuKassa.
LEMMA HookKept ==
  ASSUME TypeInv, BookInv, NEW s \in Sessions, NEW o \in Orders, o = txs[s].order,
         Running(s, "hook", "read"), NEW status, SetPayment(o, status),
         txs[s].pst \in {"AWAITING_CONFIRMATION", "REFUND_PENDING"},
         \A p \in Orders \ {o} : orders'[p] = orders[p], OrderMoves(o),
         payments[o].status = txs[s].pst /\ payments'[o].status = status
           => PaymentMoves(o),
         UNCHANGED <<charge, returned>>
  PROVE  ContractStep
<1>1. payments[o].linked /\ payments[o].status = txs[s].pst
  BY DEF BookInv, SessionBook
<1>2. orders[o].status # "none"
  BY <1>1 DEF BookInv, Unplaced
<1>3. /\ payments'[o].status = status
      /\ \A p \in Orders \ {o} : payments'[p] = payments[p]
  BY SetPaymentEffect
<1>4. QED
  BY <1>1, <1>2, <1>3, Kept

LEMMA HookPaidKept ==
  ASSUME TypeInv, MoneyInv, BookInv, NEW s \in Sessions, HookPaid(s)
  PROVE  ContractStep
<1>1. PICK o \in Orders : o = txs[s].order
  BY SessionOrder DEF HookPaid, Saw, Running
<1>2. /\ Running(s, "hook", "read") /\ txs[s].event = "payment.succeeded"
      /\ SetPayment(o, "SUCCEEDED") /\ SetOrder(o, "PAID")
      /\ txs[s].pst = "AWAITING_CONFIRMATION" /\ UNCHANGED <<charge, returned>>
  BY <1>1 DEF HookPaid, Saw, SeesOpenPayment, ApiAndTasks, yukassa
<1>3. charge[o] = "succeeded" /\ orders[o].status # "none"
  <2>1. payments[o].linked
    BY <1>1, <1>2 DEF BookInv, SessionBook
  <2>2. orders[o].status # "none"
    BY <2>1 DEF BookInv, Unplaced
  <2>3. QED
    BY <1>1, <1>2, <2>2 DEF MoneyInv, SessionKnows, Running
<1>4. Captured(o)
  BY <1>3 DEF Captured
<1>5. /\ orders'[o].status = "PAID" /\ orders'[o].total = orders[o].total
      /\ \A p \in Orders \ {o} : orders'[p] = orders[p]
  BY <1>2, SetOrderStays DEF OrderStatus
<1>6. OrderMoves(o)
  BY <1>4, <1>5 DEF OrderMoves, StageOf
<1>7. ASSUME payments'[o].status = "SUCCEEDED" PROVE PaymentMoves(o)
  BY <1>4, <1>7 DEF PaymentMoves, BookOf
<1>8. QED
  BY <1>1, <1>2, <1>5, <1>6, <1>7, HookKept

LEMMA HookUnpaidKept ==
  ASSUME TypeInv, BookInv, NEW s \in Sessions, HookUnpaid(s) \/ HookUnpaidCancelled(s)
  PROVE  ContractStep
<1>1. PICK o \in Orders : o = txs[s].order
  BY SessionOrder DEF HookUnpaid, HookUnpaidCancelled, Saw, Running
<1>2. /\ Running(s, "hook", "read") /\ SetPayment(o, "PAYMENT_FAILED")
      /\ txs[s].pst = "AWAITING_CONFIRMATION" /\ UNCHANGED <<charge, returned>>
      /\ SetOrder(o, "CANCELLED") \/ UNCHANGED orders
  BY <1>1 DEF HookUnpaid, HookUnpaidCancelled, Saw, SeesOpenPayment,
              SeesCancelledOrder, ApiAndTasks, yukassa
<1>3. /\ orders'[o].status = "CANCELLED" \/ orders'[o] = orders[o]
      /\ orders'[o].total = orders[o].total
      /\ \A p \in Orders \ {o} : orders'[p] = orders[p]
  BY <1>2, SetOrderStays DEF OrderStatus
<1>4. OrderMoves(o)
  BY <1>3 DEF OrderMoves, StageOf
<1>5. ASSUME payments[o].status = "AWAITING_CONFIRMATION",
             payments'[o].status = "PAYMENT_FAILED"
      PROVE  PaymentMoves(o)
  BY <1>5 DEF PaymentMoves, BookOf
<1>6. QED
  BY <1>1, <1>2, <1>3, <1>4, <1>5, HookKept

LEMMA HookRefundKept ==
  ASSUME TypeInv, MoneyInv, BookInv, NEW s \in Sessions,
         HookRefunded(s) \/ HookRefundCanceled(s)
  PROVE  ContractStep
<1>1. PICK o \in Orders : o = txs[s].order
  BY SessionOrder DEF HookRefunded, HookRefundCanceled, Saw, Running
<1>2. PICK status :
        /\ SetPayment(o, status)
        /\ \/ status = "REFUNDED" /\ txs[s].event = "refund.succeeded"
           \/ status = "REFUND_FAILED" /\ txs[s].event = "refund.canceled"
  BY <1>1 DEF HookRefunded, HookRefundCanceled, SettleRefund, Saw
<1>3. /\ Running(s, "hook", "read") /\ txs[s].pst = "REFUND_PENDING"
      /\ UNCHANGED <<orders, charge, returned>>
  BY DEF HookRefunded, HookRefundCanceled, SettleRefund, Saw, SeesPendingRefund,
         ApiAndTasks, yukassa
<1>4. /\ txs[s].key \in Keys
      /\ status = "REFUNDED" => returned[o][txs[s].key] = "succeeded"
      /\ status = "REFUND_FAILED" => returned[o][txs[s].key] = "canceled"
  BY <1>1, <1>2, <1>3 DEF MoneyInv, SessionKnows, Running, TypeInv, TypeOK, Tx
<1>5. OrderMoves(o)
  BY <1>3 DEF OrderMoves
<1>6. ASSUME payments[o].status = "REFUND_PENDING", payments'[o].status = status
      PROVE  PaymentMoves(o)
  BY <1>2, <1>4, <1>6 DEF PaymentMoves, BookOf
<1>7. QED
  BY <1>1, <1>2, <1>3, <1>5, <1>6, HookKept

LEMMA HookUnseen ==
  ASSUME NEW s \in Sessions,
         HookBegin(s) \/ HookIgnored(s) \/ HookClearCart(s) \/ HookMark(s)
  PROVE  ContractStep
<1>1. UNCHANGED <<orders, payments, charge, returned>>
  BY DEF HookBegin, HookRead, HookIgnored, HookClearCart, HookMark, ApiAndTasks,
         tables, yukassa
<1>2. QED
  BY <1>1, Unseen

LEMMA YuKassaKept ==
  ASSUME TypeInv, YuKassaStep
  PROVE  ContractStep
<1>1. ASSUME NEW o \in Orders, ChargePaid(o) \/ ChargeCanceled(o)
      PROVE  ContractStep
  <2>1. UNCHANGED <<orders, payments, returned>>
    BY <1>1 DEF ChargePaid, ChargeCanceled, Around, tables
  <2>2. Contract!Charge(o)
    BY <1>1, <2>1 DEF ChargePaid, ChargeCanceled, Contract!Charge, Contract!ProviderSteps
  <2>3. QED
    BY <2>2 DEF ContractStep, Contract!ContractNext
<1>2. ASSUME NEW o \in Orders, NEW key \in Keys, RefundResolved(o, key)
      PROVE  ContractStep
  <2>1. UNCHANGED <<orders, payments, charge>>
    BY <1>2 DEF RefundResolved, Around, tables
  <2>2. Contract!Return(o, key)
    BY <1>2, <2>1 DEF RefundResolved, Contract!Return, Contract!ProviderSteps
  <2>3. QED
    BY <2>2 DEF ContractStep, Contract!ContractNext
<1>3. QED
  BY <1>1, <1>2 DEF YuKassaStep

-----------------------------------------------------------------------------
(* The refinement                                                          *)

LEMMA InitContract == Init => Contract!ContractInit
<1> SUFFICES ASSUME Init PROVE Contract!ContractInit
  OBVIOUS
<1>1. \A o \in Orders : /\ orders[o].status = "none" /\ orders[o].total = 0
                        /\ payments[o].status = "none"
  BY DEF Init
<1>2. StageOf("none") = "none" /\ BookOf("none") = "open"
  BY DEF StageOf, BookOf
<1>3. /\ charge = [o \in Orders |-> "none"]
      /\ returned = [o \in Orders |-> [k \in Keys |-> "none"]]
  BY DEF Init
<1>4. /\ [o \in Orders |-> StageOf(orders[o].status)] = [o \in Orders |-> "none"]
      /\ [o \in Orders |-> BookOf(payments[o].status)] = [o \in Orders |-> "open"]
  BY <1>1, <1>2
<1>5. \A o \in Orders : (orders[o].total > 0) = FALSE
  BY <1>1
<1>6. [o \in Orders |-> orders[o].total > 0] = [o \in Orders |-> FALSE]
  BY <1>5, Zenon
<1>7. QED
  BY <1>3, <1>4, <1>6, Zenon DEF Contract!ContractInit

LEMMA NextContract == TypeInv /\ MoneyInv /\ BookInv /\ [Next]_vars => ContractStep
<1> SUFFICES ASSUME TypeInv, MoneyInv, BookInv, [Next]_vars PROVE ContractStep
  OBVIOUS
<1>1. ASSUME NEW s \in Sessions, Begin(s) \/ SessionLost(s)
      PROVE  ContractStep
  BY <1>1, CoreApiUnseen, WorkerUnseen, HookUnseen DEF Begin
<1>2. ASSUME NEW s \in Sessions, Step(s)
      PROVE  ContractStep
  <2>1. CASE CoreApiStep(s) \/ IntegrityError(s)
    BY <2>1, CheckoutPlaces, CancelKept, StaffKept, CoreApiUnseen DEF CoreApiStep
  <2>2. CASE WorkerStep(s)
    BY <2>2, CompensateKept, RefundSaveKept, WorkerUnseen DEF WorkerStep
  <2>3. CASE HookStep(s)
    BY <2>3, HookPaidKept, HookUnpaidKept, HookRefundKept, HookUnseen DEF HookStep
  <2>4. QED
    BY <1>2, <2>1, <2>2, <2>3 DEF Step
<1>3. CASE CoreApiAtomic
  BY <1>3, AtomicKept
<1>4. CASE TaskStep \/ \E k \in tasks : TaskLost(k)
  BY <1>4, CreateSaveKept, CreateCallKept, RefundCallKept, WorkerUnseen DEF TaskStep
<1>5. CASE YuKassaStep
  BY <1>5, YuKassaKept
<1>6. CASE UNCHANGED vars
  BY <1>6, Unseen DEF vars, tables, yukassa
<1>7. QED
  BY <1>1, <1>2, <1>3, <1>4, <1>5, <1>6 DEF Next

\* However the requests, the tasks and the webhook interleave, and wherever
\* one of them dies, the shop keeps its contract about its customers' money:
\* the detailed specification implements the abstract one.
THEOREM ContractHolds == Spec => ContractKept
<1>1. TypeInv /\ MoneyInv /\ BookInv /\ [Next]_vars
        => [Contract!ContractNext]_(Contract!contractVars)
  BY NextContract DEF ContractStep
<1>2. Spec => [](TypeInv /\ MoneyInv /\ BookInv)
  BY InitTyped, NextTyped, InitKnows, NextKnows, InitBook, NextBook, PTL DEF Spec
<1>3. Spec => Contract!ContractInit /\ [][Contract!ContractNext]_(Contract!contractVars)
  BY <1>1, <1>2, InitContract, PTL DEF Spec
<1>4. QED
  BY <1>3 DEF ContractKept, Contract!ContractSpec

-----------------------------------------------------------------------------
(* Why a capture is not forgotten                                          *)

\* The webhook has nothing left to do for the captured payment of order o,
\* and never will have: a linked payment waits for its confirmation once, an
\* order is CREATED once.
CaptureBehind(o) ==
  /\ payments[o].linked
  /\ payments[o].status # "AWAITING_CONFIRMATION" \/ orders[o].status # "CREATED"

\* A call for payment.succeeded has found both rows open, or is late.
SessionCapture(s) ==
  txs[s].op = "hook" /\ txs[s].event = "payment.succeeded" =>
    \/ txs[s].phase = "read" /\ SeesOpenPayment(s)
    \/ CaptureBehind(txs[s].order)

CaptureInv ==
  /\ \A o \in Orders : charge[o] = "succeeded" => payments[o].linked
  /\ \A s \in Sessions : SessionCapture(s)
  /\ \A e \in handled : e.type = "payment.succeeded" => CaptureBehind(e.order)

\* Who writes payments, and what.
LEMMA PaymentWriters ==
  ASSUME TypeInv, [Next]_vars
  PROVE  \/ UNCHANGED payments
         \/ \E s \in Sessions : CheckoutCommit(s)
         \/ \E k \in tasks : CreateSave(k)
         \/ \E o \in Orders, status \in PaymentStatus :
              status # "AWAITING_CONFIRMATION" /\ SetPayment(o, status)
<1> USE DEF PaymentStatus
<1>1. ASSUME NEW s \in Sessions, CoreApiBegin(s) \/ WorkerBegin(s) \/ HookBegin(s)
      PROVE  UNCHANGED payments
  BY <1>1 DEF CoreApiBegin, CheckoutQuote, CancelRead, TransitionRead, PickupRead,
              DeliverRead, CourierRead, WorkerBegin, CompensateRead, RefundOpenRead,
              RefundSaveRead, HookBegin, HookRead, tables
<1>2. ASSUME NEW s \in Sessions, CoreApiStep(s) \/ IntegrityError(s) \/ SessionLost(s)
      PROVE  UNCHANGED payments \/ CheckoutCommit(s)
  BY <1>2 DEF CoreApiStep, CheckoutReject, CheckoutEnqueue, CheckoutClearCart,
              CancelFlush, CancelCommit, TransitionCommit, PickupCommit, DeliverCommit,
              IntegrityError, SessionLost, tables
<1>3. ASSUME NEW s \in Sessions, WorkerStep(s) \/ HookStep(s)
      PROVE  \/ UNCHANGED payments
             \/ \E o \in Orders, status \in PaymentStatus :
                  status # "AWAITING_CONFIRMATION" /\ SetPayment(o, status)
  <2>1. CASE \/ RefundOpenCommit(s) \/ HookIgnored(s) \/ HookClearCart(s)
             \/ HookMark(s)
    BY <2>1 DEF RefundOpenCommit, HookIgnored, HookClearCart, HookMark, tables
  <2>2. CASE \/ CompensateCommit(s) \/ RefundSaveCommit(s) \/ HookPaid(s)
             \/ HookUnpaid(s) \/ HookUnpaidCancelled(s) \/ HookRefunded(s)
             \/ HookRefundCanceled(s)
    <3>1. txs[s].order \in Orders
      BY <2>2, SessionOrder
         DEF CompensateCommit, RefundSaveCommit, HookPaid, HookUnpaid,
             HookUnpaidCancelled, HookRefunded, HookRefundCanceled, Saw, Running
    <3>2. \/ UNCHANGED payments
          \/ \E status \in {"PAYMENT_FAILED", "REFUND_PENDING", "SUCCEEDED",
                            "REFUNDED", "REFUND_FAILED"} :
               SetPayment(txs[s].order, status)
      BY <2>2 DEF CompensateCommit, RefundSaveCommit, HookPaid, HookUnpaid,
                  HookUnpaidCancelled, HookRefunded, HookRefundCanceled, SettleRefund
    <3>3. QED
      BY <3>1, <3>2
  <2>3. QED
    BY <1>3, <2>1, <2>2 DEF WorkerStep, HookStep
<1>4. CASE CoreApiAtomic \/ YuKassaStep \/ UNCHANGED vars
  BY <1>4 DEF CoreApiAtomic, FillCart, AutoClose, RetryRefund, TakeAssignment,
              YuKassaStep, ChargePaid, ChargeCanceled, RefundResolved, Around, vars,
              tables
<1>5. ASSUME NEW k \in tasks, TaskLost(k) \/ ~CreateSave(k),
             \/ CreateAccepted(k) \/ CreateUnreachable(k) \/ CreateRefused(k)
             \/ CompensateSkip(k) \/ RefundSkip(k) \/ RefundAccepted(k)
             \/ RefundUnreachable(k) \/ RefundFail(k) \/ TaskLost(k)
      PROVE  UNCHANGED payments
  BY <1>5 DEF CreateAccepted, CreateUnreachable, CreateRefused, CompensateSkip,
              RefundSkip, RefundAccepted, RefundUnreachable, RefundFail, TaskLost, tables
<1>6. QED
  BY <1>1, <1>2, <1>3, <1>4, <1>5 DEF Next, Begin, Step, TaskStep

LEMMA LinkedStays ==
  ASSUME TypeInv, BookInv, [Next]_vars, NEW o \in Orders, payments[o].linked
  PROVE  /\ payments'[o].linked
         /\ payments'[o].status = "AWAITING_CONFIRMATION" =>
              payments[o].status = "AWAITING_CONFIRMATION"
<1>1. ASSUME NEW s \in Sessions, CheckoutCommit(s)
      PROVE  payments'[o] = payments[o]
  <2>1. PICK p \in Orders : p = txs[s].order
    BY <1>1, SessionOrder DEF CheckoutCommit, Running
  <2>2. orders[p].status = "none" /\ \E row : payments' = [payments EXCEPT ![p] = row]
    BY <1>1, <2>1 DEF CheckoutCommit
  <2>3. p # o
    BY <2>2 DEF BookInv, Unplaced
  <2>4. QED
    BY <2>2, <2>3 DEF TypeInv, TypeOK
<1>2. ASSUME NEW k \in tasks, CreateSave(k)
      PROVE  payments'[o] = payments[o]
  <2>1. k.order # o
    BY <1>2, CreateTaskKnows DEF CreateSave, Unasked
  <2>2. QED
    BY <1>2, <2>1 DEF CreateSave, TypeInv, TypeOK
<1>3. ASSUME NEW p \in Orders, NEW status \in PaymentStatus,
             status # "AWAITING_CONFIRMATION", SetPayment(p, status)
      PROVE  /\ payments'[o].linked
             /\ payments'[o].status = "AWAITING_CONFIRMATION" =>
                  payments[o].status = "AWAITING_CONFIRMATION"
  BY <1>3, PaymentWritten
<1>4. QED
  BY <1>1, <1>2, <1>3, PaymentWriters

LEMMA CreatedIsNew ==
  ASSUME TypeInv, MoneyInv, BookInv, [Next]_vars, NEW o \in Orders,
         orders[o].status \notin {"none", "CREATED"}
  PROVE  orders'[o].status # "CREATED"
<1> DEFINE stage == [p \in Orders |-> StageOf(orders[p].status)]
<1>1. stage[o] \notin {"none", "waiting"}
  BY DEF StageOf
<1>2. stage'[o] \notin {"none", "waiting"}
  <2>1. ContractStep
    BY NextContract
  <2>2. stage' = stage \/ \E p \in Orders : \/ Contract!Place(p) \/ Contract!Keep(p)
    BY <2>1 DEF ContractStep, Contract!ContractNext, Contract!contractVars,
                Contract!Charge, Contract!Return
  <2>3. ASSUME NEW p \in Orders, Contract!Place(p)
        PROVE  stage'[o] = stage[o]
    BY <1>1, <2>3 DEF Contract!Place
  <2>4. ASSUME NEW p \in Orders, Contract!Keep(p)
        PROVE  stage'[o] \in {stage[o], "served", "cancelled"}
    BY <2>4 DEF Contract!Keep, Contract!MayStand
  <2>5. QED
    BY <1>1, <2>2, <2>3, <2>4
<1>3. QED
  BY <1>2 DEF StageOf

LEMMA CaptureStays ==
  ASSUME TypeInv, MoneyInv, BookInv, [Next]_vars, NEW o \in Orders, CaptureBehind(o)
  PROVE  CaptureBehind(o)'
<1>1. orders[o].status # "none"
  BY DEF CaptureBehind, BookInv, Unplaced
<1>2. QED
  BY <1>1, LinkedStays, CreatedIsNew DEF CaptureBehind

\* Money is captured only after the payment was linked.
LEMMA CapturedIsLinked ==
  ASSUME TypeInv, BookInv, CaptureInv, [Next]_vars, NEW o \in Orders,
         charge'[o] = "succeeded"
  PROVE  payments'[o].linked
<1>1. CASE charge[o] = "succeeded"
  BY <1>1, LinkedStays DEF CaptureInv
<1>2. CASE charge[o] # "succeeded"
  <2>1. charge' # charge
    BY <1>2
  <2>2. ASSUME NEW k \in tasks, CreateAccepted(k) \/ CreateUnreachable(k)
        PROVE  FALSE
    BY <1>2, <2>2, TaskTyped DEF CreateAccepted, CreateUnreachable, ChargeCreated,
                                 TypeInv, TypeOK
  <2>3. YuKassaStep
    <3>1. ASSUME NEW s \in Sessions PROVE ~Begin(s) /\ ~SessionLost(s)
      BY <2>1 DEF Begin, CoreApiBegin, CheckoutQuote, CancelRead, TransitionRead,
           PickupRead, DeliverRead, CourierRead, WorkerBegin, CompensateRead,
           RefundOpenRead, RefundSaveRead, HookBegin, HookRead, SessionLost, yukassa,
           ApiAndTasks
    <3>2. ASSUME NEW s \in Sessions PROVE ~Step(s)
      BY <2>1 DEF Step, CoreApiStep, CheckoutCommit, CheckoutReject, CheckoutEnqueue,
           CheckoutClearCart, CancelFlush, CancelCommit, TransitionCommit, PickupCommit,
           DeliverCommit, IntegrityError, WorkerStep, CompensateCommit, RefundOpenCommit,
           RefundSaveCommit, HookStep, HookPaid, HookUnpaid, HookUnpaidCancelled,
           HookRefunded, HookRefundCanceled, SettleRefund, HookIgnored, HookClearCart,
           HookMark, PaymentSide, ApiAndTasks, yukassa
    <3>3. ~CoreApiAtomic /\ ~UNCHANGED vars
      BY <2>1 DEF CoreApiAtomic, FillCart, AutoClose, RetryRefund, TakeAssignment,
           PaymentSide, yukassa, vars
    <3>4. ~TaskStep /\ \A k \in tasks : ~TaskLost(k)
      BY <2>1, <2>2 DEF TaskStep, CreateRefused, CreateSave, CompensateSkip, RefundSkip,
           RefundAccepted, RefundUnreachable, RefundFail, TaskLost, yukassa
    <3>5. QED
      BY <3>1, <3>2, <3>3, <3>4 DEF Next
  <2>4. PICK p \in Orders : ChargePaid(p) \/ ChargeCanceled(p)
    BY <2>1, <2>3 DEF YuKassaStep, RefundResolved
  <2>5. ChargePaid(o)
    BY <1>2, <2>4 DEF ChargePaid, ChargeCanceled, TypeInv, TypeOK
  <2>6. QED
    BY <2>5 DEF ChargePaid, Around, tables
<1>3. QED
  BY <1>1, <1>2

\* No session but the webhook's has an event in hand.
LEMMA Elsewhere ==
  ASSUME TypeInv, [Next]_vars, \A s \in Sessions : ~HookBegin(s) /\ ~HookStep(s)
  PROVE  /\ UNCHANGED handled
         /\ \A t \in Sessions : txs'[t] = txs[t] \/ txs'[t].op # "hook"
<1> DEFINE Quiet == UNCHANGED handled /\
                    \A t \in Sessions : txs'[t] = txs[t] \/ txs'[t].op # "hook"
<1>1. ASSUME NEW s \in Sessions, CoreApiBegin(s) \/ WorkerBegin(s)
      PROVE  Quiet
  <2>1. UNCHANGED handled
    BY <1>1 DEF CoreApiBegin, CheckoutQuote, CancelRead, TransitionRead, PickupRead,
         DeliverRead, CourierRead, WorkerBegin, CompensateRead, RefundOpenRead,
         RefundSaveRead
  <2>2. \E tx : tx.op # "hook" /\ Open(s, tx)
    <3>1. CASE CoreApiBegin(s)
      BY <3>1 DEF CoreApiBegin, CheckoutQuote, CancelRead, TransitionRead, PickupRead,
                  DeliverRead, CourierRead, IdleTx
    <3>2. CASE WorkerBegin(s)
      BY <3>2 DEF WorkerBegin, CompensateRead, RefundOpenRead, RefundSaveRead, IdleTx
    <3>3. QED
      BY <1>1, <3>1, <3>2
  <2>3. QED
    BY <2>1, <2>2 DEF Open, TypeInv, TypeOK
<1>2. ASSUME NEW s \in Sessions, Close(s), UNCHANGED handled
      PROVE  Quiet
  BY <1>2 DEF Close, IdleTx, TypeInv, TypeOK
<1>3. ASSUME NEW s \in Sessions, CheckoutCommit(s) \/ CancelFlush(s)
      PROVE  Quiet
  <2>1. txs[s].op # "hook" /\ UNCHANGED handled
    BY <1>3 DEF CheckoutCommit, CancelFlush, Running, PaymentSide
  <2>2. PICK phase, bal : \/ txs' = [txs EXCEPT ![s].phase = phase]
                          \/ txs' = [txs EXCEPT ![s].phase = phase, ![s].bal = bal]
    BY <1>3 DEF CheckoutCommit, CancelFlush
  <2>3. QED
    BY <2>1, <2>2 DEF TypeInv, TypeOK, Tx
<1>4. ASSUME NEW s \in Sessions, CoreApiStep(s) \/ WorkerStep(s) \/ IntegrityError(s)
                                  \/ SessionLost(s)
      PROVE  Quiet
  <2>1. \/ CheckoutCommit(s) \/ CancelFlush(s) \/ (Close(s) /\ UNCHANGED handled)
    BY <1>4 DEF CoreApiStep, CheckoutReject, CheckoutEnqueue, CheckoutClearCart,
         CancelCommit, TransitionCommit, PickupCommit, DeliverCommit, IntegrityError,
         WorkerStep, CompensateCommit, RefundOpenCommit, RefundSaveCommit, SessionLost,
         PaymentSide
  <2>2. QED
    BY <1>2, <1>3, <2>1
<1>5. ASSUME \/ CoreApiAtomic \/ YuKassaStep \/ UNCHANGED vars \/ TaskStep
             \/ \E k \in tasks : TaskLost(k)
      PROVE  Quiet
  <2>1. UNCHANGED <<txs, handled>>
    BY <1>5 DEF CoreApiAtomic, FillCart, AutoClose, RetryRefund, TakeAssignment,
         YuKassaStep, ChargePaid, ChargeCanceled, RefundResolved, Around, vars,
         PaymentSide, TaskStep, CreateAccepted, CreateUnreachable, CreateRefused,
         CreateSave, CompensateSkip, RefundSkip, RefundAccepted, RefundUnreachable,
         RefundFail, TaskLost
  <2>2. QED
    BY <2>1
<1> HIDE DEF Quiet
<1>6. Quiet
  <2>1. CASE \E s \in Sessions : Begin(s) \/ Step(s) \/ SessionLost(s)
    BY <1>1, <1>4, <2>1 DEF Begin, Step
  <2>2. QED
    BY <1>5, <2>1 DEF Next
<1>7. QED
  BY <1>6 DEF Quiet

\* One call of the webhook, from its read to its mark.
LEMMA HookCapture ==
  ASSUME TypeInv, MoneyInv, BookInv, CaptureInv, [Next]_vars,
         NEW s \in Sessions, HookBegin(s) \/ HookStep(s)
  PROVE  /\ \A t \in Sessions : SessionCapture(t)'
         /\ \A e \in handled' : e.type = "payment.succeeded" => CaptureBehind(e.order)'
<1>1. \A o \in Orders : CaptureBehind(o) => CaptureBehind(o)'
  BY CaptureStays
<1>2. \A e \in handled : e.order \in Orders
  BY DEF TypeInv, TypeOK, Event
<1>3. ASSUME NEW t \in Sessions, txs'[t] = txs[t]
      PROVE  SessionCapture(t)'
  <2>1. txs[t].op = "hook" => txs[t].order \in Orders
    BY SessionOrder
  <2>2. QED
    BY <1>1, <1>3, <2>1 DEF CaptureInv, SessionCapture, SeesOpenPayment
<1>4. CASE HookBegin(s)
  <2>1. PICK e \in Event : HookRead(s, e)
    BY <1>4 DEF HookBegin
  <2> DEFINE o == e.order
             row == RefundOf(o, e.key)
             refundEvent == e.type \in {"refund.succeeded", "refund.canceled"}
             tx == [IdleTx EXCEPT
               !.op = "hook", !.phase = "read", !.order = o, !.event = e.type,
               !.key = e.key, !.ost = orders[o].status, !.bal = balance,
               !.uses = uses,
               !.pst = IF Known(o) THEN payments[o].status ELSE "none",
               !.row = IF refundEvent THEN row ELSE 0,
               !.rst = IF refundEvent THEN RefundSeen(o, row) ELSE "none"]
  <2>2. /\ tx.phase = "read" /\ tx.order = o /\ tx.event = e.type
        /\ tx.ost = orders[o].status
        /\ tx.pst = IF Known(o) THEN payments[o].status ELSE "none"
    BY DEF IdleTx
  <2>3. Open(s, tx) /\ UNCHANGED <<handled, orders, payments>> /\ o \in Orders
    BY <2>1 DEF HookRead, tables, Event
  <2> HIDE DEF tx
  <2>4. txs'[s] = tx /\ \A t \in Sessions \ {s} : txs'[t] = txs[t]
    BY <2>3 DEF Open, TypeInv, TypeOK
  <2>5. e.type = "payment.succeeded" => payments[o].linked
    BY <2>1, <2>3 DEF HookRead, Announced, CaptureInv
  <2>6. SessionCapture(s)'
    BY <2>2, <2>3, <2>4, <2>5 DEF SessionCapture, SeesOpenPayment, CaptureBehind, Known
  <2>7. QED
    BY <1>1, <1>2, <1>3, <2>3, <2>4, <2>6 DEF CaptureInv
<1>5. CASE \/ HookPaid(s) \/ HookUnpaid(s) \/ HookUnpaidCancelled(s)
           \/ HookRefunded(s) \/ HookRefundCanceled(s) \/ HookIgnored(s)
           \/ HookClearCart(s)
  <2>1. /\ txs[s].op = "hook" /\ UNCHANGED handled
        /\ \E phase \in {"clear", "mark"} : txs' = [txs EXCEPT ![s].phase = phase]
    BY <1>5 DEF HookPaid, HookUnpaid, HookUnpaidCancelled, HookRefunded,
         HookRefundCanceled, SettleRefund, HookIgnored, HookClearCart, Saw, Running
  <2>2. /\ txs'[s].order = txs[s].order /\ txs'[s].event = txs[s].event
        /\ txs'[s].phase # "read" /\ txs'[s].op = "hook"
        /\ \A t \in Sessions \ {s} : txs'[t] = txs[t]
    BY <2>1 DEF TypeInv, TypeOK, Tx
  <2>3. PICK o \in Orders : o = txs[s].order
    BY <2>1, SessionOrder
  <2>4. ASSUME txs[s].event = "payment.succeeded" PROVE CaptureBehind(o)'
    <3>1. CASE HookPaid(s)
      <4>1. Running(s, "hook", "read") /\ txs[s].pst = "AWAITING_CONFIRMATION"
        BY <3>1 DEF HookPaid, Saw, SeesOpenPayment
      <4>2. payments[o].linked
        BY <2>3, <4>1 DEF BookInv, SessionBook
      <4>3. SetPayment(o, "SUCCEEDED")
        BY <2>3, <3>1 DEF HookPaid
      <4>4. QED
        BY <4>2, <4>3, PaymentWritten DEF CaptureBehind
    <3>2. CASE ~HookPaid(s)
      <4>1. ~(txs[s].phase = "read" /\ SeesOpenPayment(s))
        BY <1>5, <2>4, <3>2 DEF HookUnpaid, HookUnpaidCancelled, HookRefunded,
             HookRefundCanceled, HookIgnored, HookClearCart, Saw, Running, Ignores
      <4>2. CaptureBehind(o)
        BY <2>1, <2>3, <2>4, <4>1 DEF CaptureInv, SessionCapture
      <4>3. QED
        BY <1>1, <4>2
    <3>3. QED
      BY <3>1, <3>2
  <2>5. SessionCapture(s)'
    BY <2>2, <2>3, <2>4 DEF SessionCapture
  <2>6. QED
    BY <1>1, <1>2, <1>3, <2>1, <2>2, <2>5 DEF CaptureInv
<1>6. CASE HookMark(s)
  <2>1. /\ Running(s, "hook", "mark") /\ Close(s)
        /\ handled' = handled \cup {[type |-> txs[s].event, order |-> txs[s].order,
                                     key |-> txs[s].key]}
    BY <1>6 DEF HookMark
  <2>2. txs'[s].op # "hook" /\ \A t \in Sessions \ {s} : txs'[t] = txs[t]
    BY <2>1 DEF Close, IdleTx, TypeInv, TypeOK
  <2>3. txs[s].order \in Orders
    BY <2>1, SessionOrder DEF Running
  <2>4. txs[s].event = "payment.succeeded" => CaptureBehind(txs[s].order)
    BY <2>1 DEF CaptureInv, SessionCapture, Running
  <2>5. \A e \in handled' : e.type = "payment.succeeded" => CaptureBehind(e.order)'
    BY <1>1, <1>2, <2>1, <2>3, <2>4 DEF CaptureInv
  <2>6. SessionCapture(s)'
    BY <2>2 DEF SessionCapture
  <2>7. QED
    BY <1>3, <2>2, <2>5, <2>6
<1>7. QED
  BY <1>4, <1>5, <1>6 DEF HookStep

LEMMA InitCapture == Init => CaptureInv
BY DEF Init, CaptureInv, SessionCapture, IdleTx

LEMMA NextCapture ==
  TypeInv /\ MoneyInv /\ BookInv /\ CaptureInv /\ [Next]_vars => CaptureInv'
<1> SUFFICES ASSUME TypeInv, MoneyInv, BookInv, CaptureInv, [Next]_vars
             PROVE  CaptureInv'
  OBVIOUS
<1>1. \A o \in Orders : charge'[o] = "succeeded" => payments'[o].linked
  BY CapturedIsLinked
<1>2. ASSUME NEW s \in Sessions, HookBegin(s) \/ HookStep(s)
      PROVE  CaptureInv'
  BY <1>1, <1>2, HookCapture DEF CaptureInv
<1>3. CASE \A s \in Sessions : ~HookBegin(s) /\ ~HookStep(s)
  <2>1. /\ UNCHANGED handled
        /\ \A t \in Sessions : txs'[t] = txs[t] \/ txs'[t].op # "hook"
    BY <1>3, Elsewhere
  <2>2. \A o \in Orders : CaptureBehind(o) => CaptureBehind(o)'
    BY CaptureStays
  <2>3. ASSUME NEW t \in Sessions PROVE SessionCapture(t)'
    <3>1. txs[t].op = "hook" => txs[t].order \in Orders
      BY SessionOrder
    <3>2. QED
      BY <2>1, <2>2, <3>1 DEF CaptureInv, SessionCapture, SeesOpenPayment
  <2>4. \A e \in handled : e.order \in Orders
    BY DEF TypeInv, TypeOK, Event
  <2>5. QED
    BY <1>1, <2>1, <2>2, <2>3, <2>4 DEF CaptureInv
<1>4. QED
  BY <1>2, <1>3

\* Once payment.succeeded of an order is marked as handled, the order does
\* not wait for that payment, and never will again: the mark comes after the
\* commit, and a call that writes nothing has found the rows past the point.
THEOREM CaptureKept == Spec => []CaptureNotForgotten
<1>1. CaptureInv => CaptureNotForgotten
  BY DEF CaptureInv, CaptureBehind, CaptureNotForgotten
<1>2. QED
  BY <1>1, InitTyped, NextTyped, InitKnows, NextKnows, InitBook, NextBook, InitCapture,
     NextCapture, PTL DEF Spec

=============================================================================
