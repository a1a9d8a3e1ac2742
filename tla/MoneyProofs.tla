---------------------------- MODULE MoneyProofs ----------------------------
(***************************************************************************)
(* Nothing is served, and no payment counts as received, before YuKassa    *)
(* has the money; no payment counts as refunded before YuKassa says so.    *)
(*                                                                         *)
(* The tables alone do not carry the argument: a handler writes what it    *)
(* decided on rows it read some commits ago.  MoneyInv therefore says what *)
(* each open transaction still knows, and the proof rests on such          *)
(* knowledge never going stale: a captured charge, a settled refund, an    *)
(* order's existence and its total are never taken back.                   *)
(***************************************************************************)
EXTENDS CoffeeShopProofs

OrdersStay ==
  \A o \in Orders :
    orders[o].status # "none" =>
      orders'[o].status # "none" /\ orders'[o].total = orders[o].total

ProviderStays ==
  \A o \in Orders :
    /\ charge[o] = "succeeded" => charge'[o] = "succeeded"
    /\ \A key \in Keys, result \in {"succeeded", "canceled"} :
         returned[o][key] = result => returned'[o][key] = result

\* Nobody takes back what a transaction may rely on.
Stays == OrdersStay /\ ProviderStays

-----------------------------------------------------------------------------
(* Knowledge does not go stale                                             *)

LEMMA CapturedStays ==
  ASSUME Stays, NEW o \in Orders, Captured(o)
  PROVE  Captured(o)'
BY DEF Stays, OrdersStay, ProviderStays, Captured

LEMMA KnowsStays ==
  ASSUME TypeInv, Stays, NEW s \in Sessions, SessionKnows(s),
         txs'[s] = txs[s]
  PROVE  SessionKnows(s)'
<1> DEFINE o == txs[s].order
<1>1. txs[s].op # "idle" => o \in Orders
  BY DEF SessionKnows
<1>2. txs[s].key \in Keys
  BY DEF TypeInv, TypeOK, Tx
<1>3. /\ txs[s].op \in {"transition", "courier"} => Captured(o)'
      /\ txs[s].op = "refundSave" /\ txs[s].pst \in RefundSources
           => Captured(o)'
      /\ txs[s].op = "hook" /\ txs[s].phase = "read"
           /\ txs[s].pst = "REFUND_PENDING" => Captured(o)'
  BY <1>1, CapturedStays DEF SessionKnows
<1>4. QED
  BY <1>1, <1>2, <1>3 DEF SessionKnows, Stays, ProviderStays, Captured

LEMMA CloseKnows ==
  ASSUME TypeInv, MoneyInv, Stays, NEW s \in Sessions, Close(s)
  PROVE  \A t \in Sessions : SessionKnows(t)'
<1>1. txs'[s] = IdleTx /\ \A t \in Sessions \ {s} : txs'[t] = txs[t]
  BY DEF Close, TypeInv, TypeOK
<1>2. SessionKnows(s)'
  BY <1>1 DEF SessionKnows, IdleTx
<1>3. QED
  BY <1>1, <1>2, KnowsStays DEF MoneyInv

LEMMA PhaseKnows ==
  ASSUME TypeInv, MoneyInv, Stays, NEW s \in Sessions,
         NEW phase \in {"locked", "enqueue", "clear", "mark"},
         txs' = [txs EXCEPT ![s].phase = phase],
         txs[s].op \notin {"transition", "courier", "refundSave"}
  PROVE  \A t \in Sessions : SessionKnows(t)'
<1>1. /\ txs'[s].op = txs[s].op /\ txs'[s].order = txs[s].order
      /\ txs'[s].phase # "read"
      /\ \A t \in Sessions \ {s} : txs'[t] = txs[t]
  BY DEF TypeInv, TypeOK, Tx
<1>2. SessionKnows(s)'
  BY <1>1 DEF SessionKnows, MoneyInv
<1>3. QED
  BY <1>1, <1>2, KnowsStays DEF MoneyInv

LEMMA OpenKnows ==
  ASSUME TypeInv, MoneyInv, Stays, NEW s \in Sessions, NEW tx, Open(s, tx),
         txs'[s] = tx => SessionKnows(s)'
  PROVE  \A t \in Sessions : SessionKnows(t)'
<1>1. txs'[s] = tx /\ \A t \in Sessions \ {s} : txs'[t] = txs[t]
  BY DEF Open, TypeInv, TypeOK
<1>2. QED
  BY <1>1, KnowsStays DEF MoneyInv

LEMMA SameTxsKnow ==
  ASSUME TypeInv, MoneyInv, Stays, UNCHANGED txs
  PROVE  \A t \in Sessions : SessionKnows(t)'
BY KnowsStays DEF MoneyInv

-----------------------------------------------------------------------------
(* What a step does to the tables                                          *)

LEMMA SameTables ==
  ASSUME TypeInv, MoneyInv, Stays, UNCHANGED <<orders, payments>>
  PROVE  TablesKnow' /\ RefundOutcomeAnnounced'
<1>1. TablesKnow'
  <2> SUFFICES ASSUME NEW o \in Orders,
                      orders'[o].status \in Served
                        \/ payments'[o].status \in Settled
               PROVE  Captured(o)'
    BY DEF TablesKnow, Served, Settled
  <2>1. Captured(o)
    BY DEF MoneyInv, TablesKnow
  <2>2. QED
    BY <2>1, CapturedStays
<1>2. RefundOutcomeAnnounced'
  BY DEF MoneyInv, RefundOutcomeAnnounced, Stays, ProviderStays
<1>3. QED
  BY <1>1, <1>2

\* Only order o's rows change.
LEMMA OneOrder ==
  ASSUME TypeInv, MoneyInv, Stays, NEW o \in Orders,
         \A p \in Orders \ {o} : /\ orders'[p] = orders[p]
                                 /\ payments'[p] = payments[p],
         orders'[o].status \in Served \/ payments'[o].status \in Settled
           => Captured(o)'
  PROVE  TablesKnow'
<1> SUFFICES ASSUME NEW p \in Orders,
                    orders'[p].status \in Served
                      \/ payments'[p].status \in Settled
             PROVE  Captured(p)'
  BY DEF TablesKnow, Served, Settled
<1>1. CASE p = o
  BY <1>1
<1>2. CASE p # o
  BY <1>2, CapturedStays DEF MoneyInv, TablesKnow
<1>3. QED
  BY <1>1, <1>2

\* No payment becomes refunded or refund-failed.
LEMMA NoOutcome ==
  ASSUME TypeInv, MoneyInv, Stays,
         \A p \in Orders :
           payments'[p].status \in {"REFUNDED", "REFUND_FAILED"} =>
             payments'[p].status = payments[p].status
  PROVE  RefundOutcomeAnnounced'
BY DEF MoneyInv, RefundOutcomeAnnounced, Stays, ProviderStays

LEMMA SetOrderStays ==
  ASSUME TypeInv, NEW o \in Orders, NEW status \in OrderStatus,
         SetOrder(o, status)
  PROVE  /\ OrdersStay
         /\ orders'[o].status = status /\ orders'[o].total = orders[o].total
         /\ \A p \in Orders \ {o} : orders'[p] = orders[p]
BY DEF SetOrder, OrdersStay, TypeInv, TypeOK, OrderRow, OrderStatus

LEMMA SetPaymentEffect ==
  ASSUME TypeInv, NEW o \in Orders, NEW status, SetPayment(o, status)
  PROVE  /\ payments'[o].status = status
         /\ \A p \in Orders \ {o} : payments'[p] = payments[p]
BY DEF SetPayment, TypeInv, TypeOK, PaymentRow

LEMMA ProviderUntouched ==
  ASSUME UNCHANGED <<charge, returned>>
  PROVE  ProviderStays
BY DEF ProviderStays

LEMMA OrdersUntouched ==
  ASSUME UNCHANGED orders
  PROVE  OrdersStay
BY DEF OrdersStay

LEMMA QuietStep ==
  ASSUME TypeInv, MoneyInv, ProviderStays, UNCHANGED <<orders, payments>>,
         Stays => \A t \in Sessions : SessionKnows(t)'
  PROVE  MoneyInv'
<1>1. Stays
  BY OrdersUntouched DEF Stays
<1>2. QED
  BY <1>1, SameTables DEF MoneyInv

-----------------------------------------------------------------------------
(* Transactions begin: the tables do not change, and what is read is true  *)

LEMMA ReadKnows ==
  ASSUME TypeInv, MoneyInv, NEW s \in Sessions, NEW tx, Open(s, tx),
         UNCHANGED <<orders, payments, charge, returned>>,
         txs'[s] = tx => SessionKnows(s)'
  PROVE  MoneyInv'
<1>1. ProviderStays
  BY ProviderUntouched
<1>2. Stays => \A t \in Sessions : SessionKnows(t)'
  BY OpenKnows
<1>3. QED
  BY <1>1, <1>2, QuietStep

LEMMA PlainReadKnows ==
  ASSUME TypeInv, MoneyInv, NEW s \in Sessions, NEW tx, Open(s, tx),
         tx.order \in Orders,
         tx.op \in {"checkout", "cancel", "compensate", "refundOpen"},
         UNCHANGED <<orders, payments, charge, returned>>
  PROVE  MoneyInv'
<1>1. ASSUME txs'[s] = tx PROVE SessionKnows(s)'
  BY <1>1 DEF SessionKnows
<1>2. QED
  BY <1>1, ReadKnows

LEMMA CoreApiReadKnows ==
  ASSUME TypeInv, MoneyInv, NEW s \in Sessions, NEW o \in Orders,
         \/ CheckoutQuote(s, o)
         \/ \E by \in {"customer", "admin"} : CancelRead(s, o, by)
  PROVE  MoneyInv'
<1>1. CASE CheckoutQuote(s, o)
  <2> DEFINE tx == [IdleTx EXCEPT !.op = "checkout", !.phase = "read",
                                  !.order = o, !.bal = balance]
  <2>1. tx.op = "checkout" /\ tx.order = o
    BY DEF IdleTx
  <2>2. Open(s, tx) /\ UNCHANGED <<orders, payments, charge, returned>>
    BY <1>1 DEF CheckoutQuote, tables, yukassa
  <2> HIDE DEF tx
  <2>3. QED
    BY <2>1, <2>2, PlainReadKnows
<1>2. ASSUME NEW by \in {"customer", "admin"}, CancelRead(s, o, by)
      PROVE  MoneyInv'
  <2> DEFINE tx == [IdleTx EXCEPT !.op = "cancel", !.phase = "read",
                      !.order = o, !.ost = orders[o].status, !.by = by,
                      !.bal = balance]
  <2>1. tx.op = "cancel" /\ tx.order = o
    BY DEF IdleTx
  <2>2. Open(s, tx) /\ UNCHANGED <<orders, payments, charge, returned>>
    BY <1>2 DEF CancelRead, tables, yukassa
  <2> HIDE DEF tx
  <2>3. QED
    BY <2>1, <2>2, PlainReadKnows
<1>3. QED
  BY <1>1, <1>2

LEMMA WorkerReadKnows ==
  ASSUME TypeInv, MoneyInv, NEW s \in Sessions, NEW k \in tasks,
         CompensateRead(s, k) \/ RefundOpenRead(s, k)
  PROVE  MoneyInv'
<1>0. k.order \in Orders
  BY TaskTyped
<1>1. CASE CompensateRead(s, k)
  <2> DEFINE tx == [IdleTx EXCEPT !.op = "compensate", !.phase = "read",
                      !.order = k.order, !.ost = orders[k.order].status,
                      !.pst = payments[k.order].status,
                      !.bal = balance, !.uses = uses]
  <2>1. tx.op = "compensate" /\ tx.order = k.order
    BY DEF IdleTx
  <2>2. Open(s, tx) /\ UNCHANGED <<orders, payments, charge, returned>>
    BY <1>1 DEF CompensateRead, tables, yukassa
  <2> HIDE DEF tx
  <2>3. QED
    BY <1>0, <2>1, <2>2, PlainReadKnows
<1>2. CASE RefundOpenRead(s, k)
  <2> DEFINE tx == [IdleTx EXCEPT !.op = "refundOpen", !.phase = "read",
                      !.order = k.order, !.send = k.send, !.key = k.key]
  <2>1. tx.op = "refundOpen" /\ tx.order = k.order
    BY DEF IdleTx
  <2>2. Open(s, tx) /\ UNCHANGED <<orders, payments, charge, returned>>
    BY <1>2 DEF RefundOpenRead, tables, yukassa
  <2> HIDE DEF tx
  <2>3. QED
    BY <1>0, <2>1, <2>2, PlainReadKnows
<1>3. QED
  BY <1>1, <1>2

LEMMA ServedIsCaptured ==
  ASSUME MoneyInv, NEW o \in Orders,
         orders[o].status \in Served \/ payments[o].status \in Settled
  PROVE  Captured(o)
BY DEF MoneyInv, TablesKnow

\* Every allowed source is a served status.
LEMMA TransitionReadKnows ==
  ASSUME TypeInv, MoneyInv, NEW s \in Sessions, NEW o \in Orders,
         NEW to \in OrderStatus, TransitionRead(s, o, to)
  PROVE  MoneyInv'
<1> DEFINE tx == [IdleTx EXCEPT !.op = "transition", !.phase = "read",
                    !.order = o, !.ost = orders[o].status, !.to = to,
                    !.bal = balance]
<1>1. /\ Open(s, tx) /\ <<orders[o].status, to>> \in AllowedTransitions
      /\ UNCHANGED <<orders, payments, charge, returned>>
  BY DEF TransitionRead, tables, yukassa
<1>2. Captured(o)
  BY <1>1, ServedIsCaptured DEF AllowedTransitions, Served
<1>3. /\ tx.op = "transition" /\ tx.order = o
      /\ tx.ost = orders[o].status /\ tx.to = to
  BY DEF IdleTx
<1>4. ASSUME txs'[s] = tx PROVE SessionKnows(s)'
  <2> HIDE DEF tx
  <2>1. QED
    BY <1>1, <1>2, <1>3, <1>4 DEF SessionKnows, Captured
<1>5. QED
  BY <1>1, <1>4, ReadKnows

LEMMA CourierReadKnows ==
  ASSUME TypeInv, MoneyInv, NEW s \in Sessions, NEW o \in Orders,
         NEW c \in Couriers, PickupRead(s, o, c) \/ DeliverRead(s, o, c)
  PROVE  MoneyInv'
<1>1. PICK tx : /\ Open(s, tx) /\ tx.op = "courier" /\ tx.order = o
                /\ orders[o].status \in {"READY", "IN_DELIVERY"}
  BY DEF PickupRead, DeliverRead, CourierRead, IdleTx
<1>2. UNCHANGED <<orders, payments, charge, returned>>
  BY DEF PickupRead, DeliverRead, CourierRead, tables, yukassa
<1>3. Captured(o)
  BY <1>1, ServedIsCaptured DEF Served
<1>4. ASSUME txs'[s] = tx PROVE SessionKnows(s)'
  BY <1>1, <1>2, <1>3, <1>4 DEF SessionKnows, Captured
<1>5. QED
  BY <1>1, <1>2, <1>4, ReadKnows

LEMMA RefundSaveReadKnows ==
  ASSUME TypeInv, MoneyInv, NEW s \in Sessions, NEW k \in tasks,
         RefundSaveRead(s, k)
  PROVE  MoneyInv'
<1>1. PICK tx : /\ Open(s, tx) /\ tx.op = "refundSave" /\ tx.order = k.order
                /\ tx.pst = payments[k.order].status
  <2> DEFINE tx == [IdleTx EXCEPT !.op = "refundSave", !.phase = "read",
                      !.order = k.order, !.key = k.key, !.row = k.row,
                      !.pst = payments[k.order].status]
  <2>1. /\ tx.op = "refundSave" /\ tx.order = k.order
        /\ tx.pst = payments[k.order].status
    BY DEF IdleTx
  <2>2. Open(s, tx)
    BY DEF RefundSaveRead
  <2> HIDE DEF tx
  <2>3. QED
    BY <2>1, <2>2
<1>2. UNCHANGED <<orders, payments, charge, returned>>
  BY DEF RefundSaveRead, tables, yukassa
<1>3. k.order \in Orders
  BY TaskTyped
<1>4. payments[k.order].status \in RefundSources => Captured(k.order)
  BY <1>3, ServedIsCaptured DEF RefundSources, Settled
<1>5. ASSUME txs'[s] = tx PROVE SessionKnows(s)'
  BY <1>1, <1>2, <1>3, <1>4, <1>5 DEF SessionKnows, Captured
<1>6. QED
  BY <1>1, <1>2, <1>5, ReadKnows

LEMMA HookReadKnows ==
  ASSUME TypeInv, MoneyInv, NEW s \in Sessions, NEW e \in Event,
         HookRead(s, e)
  PROVE  MoneyInv'
<1> DEFINE o == e.order
           pst == IF Known(o) THEN payments[o].status ELSE "none"
<1>1. o \in Orders /\ e.key \in Keys /\ e.type \in EventType
  BY DEF Event
<1>2. PICK tx : /\ Open(s, tx) /\ tx.op = "hook" /\ tx.order = o
                /\ tx.event = e.type /\ tx.key = e.key /\ tx.pst = pst
  <2> DEFINE row == RefundOf(o, e.key)
             refundEvent == e.type \in {"refund.succeeded", "refund.canceled"}
             tx == [IdleTx EXCEPT
               !.op = "hook", !.phase = "read", !.order = o, !.event = e.type,
               !.key = e.key, !.ost = orders[o].status, !.bal = balance,
               !.uses = uses,
               !.pst = IF Known(o) THEN payments[o].status ELSE "none",
               !.row = IF refundEvent THEN row ELSE 0,
               !.rst = IF refundEvent THEN RefundSeen(o, row) ELSE "none"]
  <2>1. /\ tx.op = "hook" /\ tx.order = o /\ tx.event = e.type
        /\ tx.key = e.key /\ tx.pst = pst
    BY DEF IdleTx
  <2>2. Open(s, tx)
    BY DEF HookRead
  <2> HIDE DEF tx
  <2>3. QED
    BY <2>1, <2>2
<1>3. UNCHANGED <<orders, payments, charge, returned>>
  BY DEF HookRead, ApiAndTasks, tables, yukassa
<1>4. Announced(e)
  BY DEF HookRead
<1>5. /\ e.type = "payment.succeeded" => charge[o] = "succeeded"
      /\ e.type = "refund.succeeded" => returned[o][e.key] = "succeeded"
      /\ e.type = "refund.canceled" => returned[o][e.key] = "canceled"
      /\ e.type # "none"
  BY <1>1, <1>4 DEF Announced, EventType
<1>6. pst = "REFUND_PENDING" => Captured(o)
  BY <1>1, ServedIsCaptured DEF Settled
<1> HIDE DEF pst, o
<1>7. ASSUME txs'[s] = tx PROVE SessionKnows(s)'
  BY <1>1, <1>2, <1>3, <1>5, <1>6, <1>7 DEF SessionKnows, Captured
<1>8. QED
  BY <1>2, <1>3, <1>7, ReadKnows

-----------------------------------------------------------------------------
(* Steps that leave orders and payments alone                              *)

LEMMA QuietStepKnows ==
  ASSUME TypeInv, MoneyInv, NEW s \in Sessions,
         \/ CheckoutReject(s) \/ CheckoutEnqueue(s) \/ CheckoutClearCart(s)
         \/ RefundOpenCommit(s) \/ HookMark(s) \/ IntegrityError(s)
         \/ SessionLost(s)
  PROVE  MoneyInv'
<1>1. Close(s) /\ UNCHANGED <<orders, payments, charge, returned>>
  BY DEF CheckoutReject, CheckoutEnqueue, CheckoutClearCart,
         RefundOpenCommit, HookMark, IntegrityError, SessionLost, tables,
         yukassa, ApiSide, ApiAndTasks
<1>2. ProviderStays
  BY <1>1, ProviderUntouched
<1>3. QED
  BY <1>1, <1>2, CloseKnows, QuietStep

LEMMA PhaseStepKnows ==
  ASSUME TypeInv, MoneyInv, NEW s \in Sessions,
         HookIgnored(s) \/ HookClearCart(s)
  PROVE  MoneyInv'
<1>1. /\ txs' = [txs EXCEPT ![s].phase = "mark"] /\ txs[s].op = "hook"
      /\ UNCHANGED <<orders, payments, charge, returned>>
  BY DEF HookIgnored, HookClearCart, Running, tables, yukassa, ApiAndTasks
<1>2. ProviderStays
  BY <1>1, ProviderUntouched
<1>3. Stays => \A t \in Sessions : SessionKnows(t)'
  BY <1>1, PhaseKnows
<1>4. QED
  BY <1>1, <1>2, <1>3, QuietStep

LEMMA CancelFlushKnows ==
  ASSUME TypeInv, MoneyInv, NEW s \in Sessions, CancelFlush(s)
  PROVE  MoneyInv'
<1>1. /\ UNCHANGED <<orders, payments, charge, returned>>
      /\ txs[s].op = "cancel"
      /\ \E bal : txs' = [txs EXCEPT ![s].phase = "locked", ![s].bal = bal]
  BY DEF CancelFlush, Running, tables, yukassa
<1>2. ProviderStays
  BY <1>1, ProviderUntouched
<1>3. /\ txs'[s].op = "cancel" /\ txs'[s].order = txs[s].order
      /\ \A t \in Sessions \ {s} : txs'[t] = txs[t]
  BY <1>1 DEF TypeInv, TypeOK, Tx
<1>4. SessionKnows(s)'
  BY <1>1, <1>3 DEF SessionKnows, MoneyInv
<1>5. Stays => \A t \in Sessions : SessionKnows(t)'
  BY <1>3, <1>4, KnowsStays DEF MoneyInv
<1>6. QED
  BY <1>1, <1>2, <1>5, QuietStep

LEMMA ChargeCreatedStays ==
  ASSUME TypeInv, NEW o \in Orders, ChargeCreated(o), UNCHANGED returned
  PROVE  ProviderStays
BY DEF ChargeCreated, ProviderStays, TypeInv, TypeOK

LEMMA RefundMadeStays ==
  ASSUME TypeInv, NEW k \in tasks, RefundMade(k), UNCHANGED charge
  PROVE  ProviderStays
<1>1. k.order \in Orders /\ k.key \in Keys
  BY TaskTyped
<1>2. returned \in [Orders -> [Keys -> ChargeStatus]]
  BY DEF TypeInv, TypeOK
<1>3. QED
  BY <1>1, <1>2 DEF RefundMade, ProviderStays

LEMMA QuietTaskKnows ==
  ASSUME TypeInv, MoneyInv, NEW k \in tasks,
         \/ CreateAccepted(k) \/ CreateUnreachable(k) \/ CreateRefused(k)
         \/ CompensateSkip(k) \/ RefundSkip(k) \/ RefundAccepted(k)
         \/ RefundUnreachable(k) \/ RefundFail(k) \/ TaskLost(k)
  PROVE  MoneyInv'
<1>1. UNCHANGED <<orders, payments, txs>>
  BY DEF CreateAccepted, CreateUnreachable, CreateRefused, CompensateSkip,
         RefundSkip, RefundAccepted, RefundUnreachable, RefundFail, TaskLost,
         tables
<1>2. ProviderStays
  <2>0. k.order \in Orders
    BY TaskTyped
  <2>1. CASE CreateAccepted(k) \/ CreateUnreachable(k)
    BY <2>0, <2>1, ChargeCreatedStays, ProviderUntouched
       DEF CreateAccepted, CreateUnreachable
  <2>2. CASE RefundAccepted(k) \/ RefundUnreachable(k)
    BY <2>2, RefundMadeStays, ProviderUntouched
       DEF RefundAccepted, RefundUnreachable
  <2>3. CASE \/ CreateRefused(k) \/ CompensateSkip(k) \/ RefundSkip(k)
             \/ RefundFail(k) \/ TaskLost(k)
    BY <2>3, ProviderUntouched
       DEF CreateRefused, CompensateSkip, RefundSkip, RefundFail, TaskLost,
           yukassa
  <2>4. QED
    BY <2>1, <2>2, <2>3
<1>3. QED
  BY <1>1, <1>2, SameTxsKnow, QuietStep

LEMMA YuKassaKnows ==
  ASSUME TypeInv, MoneyInv, YuKassaStep
  PROVE  MoneyInv'
<1>1. UNCHANGED <<orders, payments, txs>>
  BY DEF YuKassaStep, ChargePaid, ChargeCanceled, RefundResolved, Around,
         tables
<1>2. ProviderStays
  <2>1. /\ charge \in [Orders -> ChargeStatus]
        /\ returned \in [Orders -> [Keys -> ChargeStatus]]
    BY DEF TypeInv, TypeOK
  <2>2. ASSUME NEW o \in Orders, ChargePaid(o) \/ ChargeCanceled(o)
        PROVE  ProviderStays
    BY <2>1, <2>2 DEF ChargePaid, ChargeCanceled, ProviderStays
  <2>3. ASSUME NEW o \in Orders, NEW key \in Keys, RefundResolved(o, key)
        PROVE  ProviderStays
    BY <2>1, <2>3 DEF RefundResolved, ProviderStays
  <2>4. QED
    BY <2>2, <2>3 DEF YuKassaStep
<1>3. QED
  BY <1>1, <1>2, SameTxsKnow, QuietStep

-----------------------------------------------------------------------------
(* Steps that write an order or its payment                                *)

\* A transaction that ends after writing the rows of order o only.
LEMMA WriteKnows ==
  ASSUME TypeInv, MoneyInv, NEW s \in Sessions, NEW o \in Orders,
         Close(s) \/ UNCHANGED txs, OrdersStay,
         UNCHANGED <<charge, returned>>,
         \A p \in Orders \ {o} : /\ orders'[p] = orders[p]
                                 /\ payments'[p] = payments[p],
         orders'[o].status \in Served \/ payments'[o].status \in Settled
           => Captured(o)',
         payments'[o].status \in {"REFUNDED", "REFUND_FAILED"}
           => payments'[o].status = payments[o].status
  PROVE  MoneyInv'
<1>1. Stays
  BY ProviderUntouched DEF Stays
<1>2. \A t \in Sessions : SessionKnows(t)'
  BY <1>1, CloseKnows, SameTxsKnow
<1>3. TablesKnow'
  BY <1>1, OneOrder
<1>4. RefundOutcomeAnnounced'
  BY <1>1, NoOutcome
<1>5. QED
  BY <1>2, <1>3, <1>4 DEF MoneyInv

LEMMA CheckoutCommitKnows ==
  ASSUME TypeInv, MoneyInv, NEW s \in Sessions, CheckoutCommit(s)
  PROVE  MoneyInv'
<1>0. PICK o \in Orders : o = txs[s].order
  BY SessionOrder DEF CheckoutCommit, Running
<1> DEFINE total == OrderTotal(o, txs[s].bal)
           points == AppliedPoints(o, txs[s].bal)
<1>1. txs[s].op = "checkout"
  BY DEF CheckoutCommit, Running
<1>2. /\ orders[o].status = "none"
      /\ orders' = [orders EXCEPT ![o] =
           [status |-> IF total = 0 THEN "PAID" ELSE "CREATED",
            cancelled_by |-> "nobody", points_used |-> points,
            total |-> total]]
      /\ payments' = [payments EXCEPT ![o] =
           [status |-> IF total = 0 THEN "SUCCEEDED" ELSE "PENDING",
            linked |-> FALSE]]
      /\ txs' = [txs EXCEPT ![s].phase =
                              IF total = 0 THEN "clear" ELSE "enqueue"]
      /\ UNCHANGED <<charge, returned>>
  BY <1>0 DEF CheckoutCommit, PaymentSide
<1> HIDE DEF total, points
<1>3. /\ orders'[o].status = IF total = 0 THEN "PAID" ELSE "CREATED"
      /\ orders'[o].total = total
      /\ payments'[o].status = IF total = 0 THEN "SUCCEEDED" ELSE "PENDING"
      /\ \A p \in Orders \ {o} : /\ orders'[p] = orders[p]
                                 /\ payments'[p] = payments[p]
  BY <1>1, <1>2 DEF TypeInv, TypeOK
<1>4. Stays
  BY <1>2, <1>3, ProviderUntouched DEF Stays, OrdersStay
<1>5. orders'[o].status \in Served \/ payments'[o].status \in Settled
        => Captured(o)'
  BY <1>3 DEF Served, Settled, Captured
<1>6. TablesKnow'
  BY <1>1, <1>3, <1>4, <1>5, OneOrder
<1>7. RefundOutcomeAnnounced'
  <2>1. \A p \in Orders :
          payments'[p].status \in {"REFUNDED", "REFUND_FAILED"} =>
            payments'[p].status = payments[p].status
    BY <1>3
  <2>2. QED
    BY <1>4, <2>1, NoOutcome
<1>8. \A t \in Sessions : SessionKnows(t)'
  BY <1>1, <1>2, <1>4, PhaseKnows
<1>9. QED
  BY <1>6, <1>7, <1>8 DEF MoneyInv

LEMMA CancelCommitKnows ==
  ASSUME TypeInv, MoneyInv, NEW s \in Sessions, CancelCommit(s)
  PROVE  MoneyInv'
<1>1. PICK o \in Orders : o = txs[s].order
  BY SessionOrder DEF CancelCommit, Running
<1>2. /\ Close(s) /\ UNCHANGED <<payments, charge, returned>>
      /\ orders' = [orders EXCEPT ![o].status = "CANCELLED",
                                  ![o].cancelled_by = txs[s].by]
  BY <1>1 DEF CancelCommit, PaymentSide
<1>3. /\ orders'[o].status = "CANCELLED" /\ orders'[o].total = orders[o].total
      /\ \A p \in Orders \ {o} : orders'[p] = orders[p]
  BY <1>1, <1>2 DEF TypeInv, TypeOK, OrderRow
<1>4. OrdersStay
  BY <1>3 DEF OrdersStay
<1>5. payments[o].status \in Settled => Captured(o)'
  BY <1>1, <1>2, <1>3, ServedIsCaptured DEF Captured
<1>6. QED
  BY <1>1, <1>2, <1>3, <1>4, <1>5, WriteKnows DEF Served

\* A commit that moves an order whose money is captured.
LEMMA MoveKnows ==
  ASSUME TypeInv, MoneyInv, NEW s \in Sessions, NEW o \in Orders,
         NEW status \in OrderStatus, SetOrder(o, status), Captured(o),
         Close(s) \/ UNCHANGED txs, UNCHANGED <<payments, charge, returned>>
  PROVE  MoneyInv'
<1>1. /\ OrdersStay
      /\ \A p \in Orders \ {o} : orders'[p] = orders[p]
  BY SetOrderStays
<1>2. Captured(o)'
  BY <1>1, ProviderUntouched, CapturedStays DEF Stays
<1>3. QED
  BY <1>1, <1>2, WriteKnows

LEMMA StaffKnows ==
  ASSUME TypeInv, MoneyInv, NEW s \in Sessions,
         TransitionCommit(s) \/ PickupCommit(s) \/ DeliverCommit(s)
  PROVE  MoneyInv'
<1> DEFINE o == txs[s].order
<1>1. o \in Orders /\ txs[s].op \in {"transition", "courier"}
  BY SessionOrder DEF TransitionCommit, PickupCommit, DeliverCommit, Running
<1>2. Captured(o)
  BY <1>1 DEF MoneyInv, SessionKnows
<1>3. PICK status \in OrderStatus : SetOrder(o, status)
  <2>1. txs[s].op = "transition" => txs[s].to \in OrderStatus
    BY DEF TypeInv, SessionsHaveOrders
  <2>2. QED
    BY <2>1 DEF TransitionCommit, PickupCommit, DeliverCommit, Running,
                OrderStatus
<1>4. Close(s) /\ UNCHANGED <<payments, charge, returned>>
  BY DEF TransitionCommit, PickupCommit, DeliverCommit, PaymentSide
<1>5. QED
  BY <1>1, <1>2, <1>3, <1>4, MoveKnows

LEMMA AtomicKnows ==
  ASSUME TypeInv, MoneyInv, CoreApiAtomic
  PROVE  MoneyInv'
<1>1. ASSUME NEW o \in Orders, AutoClose(o)
      PROVE  MoneyInv'
  <2>1. /\ orders[o].status = "READY" /\ SetOrder(o, "COMPLETED")
        /\ UNCHANGED <<txs, payments, charge, returned>>
    BY <1>1 DEF AutoClose, PaymentSide
  <2>2. Captured(o)
    BY <2>1, ServedIsCaptured DEF Served
  <2>3. PICK s \in Sessions : txs[s] = IdleTx
    BY <1>1 DEF AutoClose, SessionFree
  <2>4. "COMPLETED" \in OrderStatus
    BY DEF OrderStatus
  <2>5. QED
    BY <2>1, <2>2, <2>3, <2>4, MoveKnows
<1>2. ASSUME \/ FillCart
             \/ \E o \in Orders : RetryRefund(o)
             \/ \E o \in Orders, c \in Couriers : TakeAssignment(o, c)
      PROVE  MoneyInv'
  <2>1. UNCHANGED <<orders, payments, charge, returned, txs>>
    BY <1>2 DEF FillCart, RetryRefund, TakeAssignment, tables, yukassa,
                PaymentSide
  <2>2. QED
    BY <2>1, ProviderUntouched, SameTxsKnow, QuietStep
<1>3. QED
  BY <1>1, <1>2 DEF CoreApiAtomic

LEMMA CreateSaveKnows ==
  ASSUME TypeInv, MoneyInv, NEW k \in tasks, CreateSave(k)
  PROVE  MoneyInv'
<1>1. PICK o \in Orders : o = k.order
  BY TaskTyped
<1>2. /\ UNCHANGED <<orders, txs, charge, returned>>
      /\ payments' = [payments EXCEPT ![o] =
           [status |-> "AWAITING_CONFIRMATION", linked |-> TRUE]]
  BY <1>1 DEF CreateSave, yukassa
<1>3. /\ payments'[o].status = "AWAITING_CONFIRMATION"
      /\ \A p \in Orders \ {o} : payments'[p] = payments[p]
  BY <1>2 DEF TypeInv, TypeOK
<1>4. Stays
  BY <1>2, OrdersUntouched, ProviderUntouched DEF Stays
<1>5. orders'[o].status \in Served => Captured(o)'
  BY <1>2, <1>4, ServedIsCaptured, CapturedStays
<1>6. TablesKnow'
  BY <1>2, <1>3, <1>4, <1>5, OneOrder DEF Settled
<1>7. RefundOutcomeAnnounced'
  <2>1. \A p \in Orders :
          payments'[p].status \in {"REFUNDED", "REFUND_FAILED"} =>
            payments'[p].status = payments[p].status
    BY <1>3
  <2>2. QED
    BY <1>4, <2>1, NoOutcome
<1>8. QED
  BY <1>2, <1>4, <1>6, <1>7, SameTxsKnow DEF MoneyInv

\* The payment failed; its order is cancelled, or stays as it is.
LEMMA CompensateKnows ==
  ASSUME TypeInv, MoneyInv, NEW s \in Sessions, CompensateCommit(s)
  PROVE  MoneyInv'
<1>1. PICK o \in Orders : o = txs[s].order
  BY SessionOrder DEF CompensateCommit, Running
<1>2. /\ SetPayment(o, "PAYMENT_FAILED") /\ Close(s)
      /\ SetOrder(o, "CANCELLED") \/ UNCHANGED orders
      /\ UNCHANGED <<charge, returned>>
  BY <1>1 DEF CompensateCommit, FailOrder, yukassa
<1>3. /\ payments'[o].status = "PAYMENT_FAILED"
      /\ \A p \in Orders \ {o} : payments'[p] = payments[p]
  BY <1>2, SetPaymentEffect
<1>4. /\ OrdersStay
      /\ \A p \in Orders \ {o} : orders'[p] = orders[p]
      /\ orders'[o].status = "CANCELLED" \/ orders' = orders
  BY <1>2, SetOrderStays, OrdersUntouched DEF OrderStatus
<1>5. orders'[o].status \in Served => Captured(o)'
  <2>1. orders'[o].status \in Served => Captured(o)
    BY <1>4, ServedIsCaptured DEF Served
  <2>2. QED
    BY <1>2, <1>4, <2>1, ProviderUntouched, CapturedStays DEF Stays
<1>6. QED
  BY <1>2, <1>3, <1>4, <1>5, WriteKnows DEF Settled

LEMMA RefundSaveKnows ==
  ASSUME TypeInv, MoneyInv, NEW s \in Sessions, RefundSaveCommit(s)
  PROVE  MoneyInv'
<1>1. PICK o \in Orders : o = txs[s].order
  BY SessionOrder DEF RefundSaveCommit, Running
<1>2. /\ Close(s) /\ txs[s].op = "refundSave"
      /\ IF txs[s].pst \in RefundSources THEN SetPayment(o, "REFUND_PENDING")
         ELSE UNCHANGED payments
      /\ UNCHANGED <<orders, charge, returned>>
  BY <1>1 DEF RefundSaveCommit, Running, yukassa
<1>3. Stays
  BY <1>2, OrdersUntouched, ProviderUntouched DEF Stays
<1>4. CASE txs[s].pst \in RefundSources
  <2>1. Captured(o)'
    BY <1>1, <1>2, <1>3, <1>4, CapturedStays DEF MoneyInv, SessionKnows
  <2>2. /\ payments'[o].status = "REFUND_PENDING"
        /\ \A p \in Orders \ {o} : payments'[p] = payments[p]
    BY <1>2, <1>4, SetPaymentEffect
  <2>3. QED
    BY <1>2, <1>3, <2>1, <2>2, WriteKnows DEF Stays
<1>5. CASE txs[s].pst \notin RefundSources
  BY <1>2, <1>3, <1>5, CloseKnows, QuietStep DEF Stays
<1>6. QED
  BY <1>4, <1>5

-----------------------------------------------------------------------------
(* The webhook's commits                                                   *)

\* A webhook commit writes one order and its payment, then goes on.
LEMMA HookWriteKnows ==
  ASSUME TypeInv, MoneyInv, NEW s \in Sessions, NEW o \in Orders,
         NEW phase \in {"clear", "mark"}, txs[s].op = "hook",
         txs' = [txs EXCEPT ![s].phase = phase], OrdersStay,
         UNCHANGED <<charge, returned>>,
         \A p \in Orders \ {o} : /\ orders'[p] = orders[p]
                                 /\ payments'[p] = payments[p],
         orders'[o].status \in Served \/ payments'[o].status \in Settled
           => Captured(o)',
         payments'[o].status \in {"REFUNDED", "REFUND_FAILED"}
           => \/ payments'[o].status = payments[o].status
              \/ \E key \in Keys :
                   returned[o][key] = IF payments'[o].status = "REFUNDED"
                                      THEN "succeeded" ELSE "canceled"
  PROVE  MoneyInv'
<1>1. Stays
  BY ProviderUntouched DEF Stays
<1>2. \A t \in Sessions : SessionKnows(t)'
  BY <1>1, PhaseKnows
<1>3. TablesKnow'
  BY <1>1, OneOrder
<1>4. RefundOutcomeAnnounced'
  <2> SUFFICES ASSUME NEW p \in Orders
               PROVE  /\ payments'[p].status = "REFUNDED" =>
                           \E key \in Keys : returned'[p][key] = "succeeded"
                      /\ payments'[p].status = "REFUND_FAILED" =>
                           \E key \in Keys : returned'[p][key] = "canceled"
    BY DEF RefundOutcomeAnnounced
  <2>1. CASE payments'[p].status = payments[p].status
    BY <2>1 DEF MoneyInv, RefundOutcomeAnnounced
  <2>2. CASE p = o /\ payments'[p].status # payments[p].status
    BY <2>2
  <2>3. QED
    BY <2>1, <2>2
<1>5. QED
  BY <1>2, <1>3, <1>4 DEF MoneyInv

LEMMA HookPaidKnows ==
  ASSUME TypeInv, MoneyInv, NEW s \in Sessions, HookPaid(s)
  PROVE  MoneyInv'
<1>1. PICK o \in Orders : o = txs[s].order
  BY SessionOrder DEF HookPaid, Saw, Running
<1>2. /\ txs[s].op = "hook" /\ txs[s].phase = "read"
      /\ txs[s].event = "payment.succeeded"
      /\ txs' = [txs EXCEPT ![s].phase = "clear"]
      /\ SetPayment(o, "SUCCEEDED") /\ SetOrder(o, "PAID")
      /\ UNCHANGED <<charge, returned>>
  BY <1>1 DEF HookPaid, Saw, Running, ApiAndTasks, yukassa
<1>3. charge[o] = "succeeded"
  BY <1>1, <1>2 DEF MoneyInv, SessionKnows
<1>4. /\ OrdersStay /\ orders'[o].status = "PAID"
      /\ \A p \in Orders \ {o} : orders'[p] = orders[p]
  BY <1>2, SetOrderStays DEF OrderStatus
<1>5. /\ payments'[o].status = "SUCCEEDED"
      /\ \A p \in Orders \ {o} : payments'[p] = payments[p]
  BY <1>2, SetPaymentEffect
<1>6. Captured(o)'
  BY <1>2, <1>3, <1>4 DEF Captured
<1>7. QED
  BY <1>2, <1>4, <1>5, <1>6, HookWriteKnows

LEMMA HookUnpaidKnows ==
  ASSUME TypeInv, MoneyInv, NEW s \in Sessions,
         HookUnpaid(s) \/ HookUnpaidCancelled(s)
  PROVE  MoneyInv'
<1>1. PICK o \in Orders : o = txs[s].order
  BY SessionOrder DEF HookUnpaid, HookUnpaidCancelled, Saw, Running
<1>2. /\ txs[s].op = "hook" /\ txs' = [txs EXCEPT ![s].phase = "mark"]
      /\ SetPayment(o, "PAYMENT_FAILED")
      /\ SetOrder(o, "CANCELLED") \/ UNCHANGED orders
      /\ UNCHANGED <<charge, returned>>
  BY <1>1 DEF HookUnpaid, HookUnpaidCancelled, Saw, Running, ApiAndTasks,
              yukassa
<1>3. /\ OrdersStay
      /\ \A p \in Orders \ {o} : orders'[p] = orders[p]
      /\ orders'[o].status = "CANCELLED" \/ orders' = orders
  BY <1>2, SetOrderStays, OrdersUntouched DEF OrderStatus
<1>4. /\ payments'[o].status = "PAYMENT_FAILED"
      /\ \A p \in Orders \ {o} : payments'[p] = payments[p]
  BY <1>2, SetPaymentEffect
<1>5. orders'[o].status \in Served => Captured(o)'
  <2>1. orders'[o].status \in Served => Captured(o)
    BY <1>3, ServedIsCaptured DEF Served
  <2>2. QED
    BY <1>2, <1>3, <2>1, ProviderUntouched, CapturedStays DEF Stays
<1>6. QED
  BY <1>2, <1>3, <1>4, <1>5, HookWriteKnows DEF Settled

LEMMA HookRefundKnows ==
  ASSUME TypeInv, MoneyInv, NEW s \in Sessions,
         HookRefunded(s) \/ HookRefundCanceled(s)
  PROVE  MoneyInv'
<1>1. PICK o \in Orders : o = txs[s].order
  BY SessionOrder DEF HookRefunded, HookRefundCanceled, Saw, Running
<1>2. PICK payment :
        /\ SetPayment(o, payment)
        /\ \/ /\ payment = "REFUNDED"
              /\ txs[s].event = "refund.succeeded"
           \/ /\ payment = "REFUND_FAILED"
              /\ txs[s].event = "refund.canceled"
  BY <1>1 DEF HookRefunded, HookRefundCanceled, SettleRefund, Saw
<1>3. /\ txs[s].op = "hook" /\ txs[s].phase = "read"
      /\ txs[s].pst = "REFUND_PENDING"
      /\ txs' = [txs EXCEPT ![s].phase = "mark"]
      /\ UNCHANGED <<orders, charge, returned>>
  BY DEF HookRefunded, HookRefundCanceled, SettleRefund, Saw, Running,
         SeesPendingRefund, ApiAndTasks, yukassa
<1>4. /\ Captured(o) /\ txs[s].key \in Keys
      /\ payment = "REFUNDED" => returned[o][txs[s].key] = "succeeded"
      /\ payment = "REFUND_FAILED" => returned[o][txs[s].key] = "canceled"
  BY <1>1, <1>2, <1>3 DEF MoneyInv, SessionKnows, TypeInv, TypeOK, Tx
<1>5. /\ payments'[o].status = payment
      /\ \A p \in Orders \ {o} : payments'[p] = payments[p]
  BY <1>2, SetPaymentEffect
<1>6. Captured(o)' /\ OrdersStay
  BY <1>3, <1>4, ProviderUntouched, OrdersUntouched, CapturedStays DEF Stays
<1>7. QED
  BY <1>2, <1>3, <1>4, <1>5, <1>6, HookWriteKnows

-----------------------------------------------------------------------------
(* The invariant and what it is for                                        *)

LEMMA InitKnows == Init => MoneyInv
BY DEF Init, MoneyInv, TablesKnow, RefundOutcomeAnnounced, SessionKnows,
       Served, Settled, IdleTx

LEMMA NextKnows == TypeInv /\ MoneyInv /\ [Next]_vars => MoneyInv'
<1> SUFFICES ASSUME TypeInv, MoneyInv, [Next]_vars PROVE MoneyInv'
  OBVIOUS
<1>1. ASSUME NEW s \in Sessions, Begin(s)
      PROVE  MoneyInv'
  <2>1. CASE CoreApiBegin(s)
    BY <2>1, CoreApiReadKnows, TransitionReadKnows, CourierReadKnows
       DEF CoreApiBegin
  <2>2. CASE WorkerBegin(s)
    BY <2>2, WorkerReadKnows, RefundSaveReadKnows DEF WorkerBegin
  <2>3. CASE HookBegin(s)
    BY <2>3, HookReadKnows DEF HookBegin
  <2>4. QED
    BY <1>1, <2>1, <2>2, <2>3 DEF Begin
<1>2. ASSUME NEW s \in Sessions, Step(s) \/ SessionLost(s)
      PROVE  MoneyInv'
  <2>1. CASE CoreApiStep(s)
    BY <2>1, CheckoutCommitKnows, QuietStepKnows, CancelFlushKnows,
       CancelCommitKnows, StaffKnows DEF CoreApiStep
  <2>2. CASE WorkerStep(s)
    BY <2>2, CompensateKnows, QuietStepKnows, RefundSaveKnows DEF WorkerStep
  <2>3. CASE HookStep(s)
    BY <2>3, HookPaidKnows, HookUnpaidKnows, HookRefundKnows,
       PhaseStepKnows, QuietStepKnows DEF HookStep
  <2>4. CASE IntegrityError(s) \/ SessionLost(s)
    BY <2>4, QuietStepKnows
  <2>5. QED
    BY <1>2, <2>1, <2>2, <2>3, <2>4 DEF Step
<1>3. CASE CoreApiAtomic
  BY <1>3, AtomicKnows
<1>4. CASE TaskStep \/ \E k \in tasks : TaskLost(k)
  BY <1>4, QuietTaskKnows, CreateSaveKnows DEF TaskStep
<1>5. CASE YuKassaStep
  BY <1>5, YuKassaKnows
<1>6. CASE UNCHANGED vars
  <2>1. UNCHANGED <<orders, payments, charge, returned, txs>>
    BY <1>6 DEF vars
  <2>2. QED
    BY <2>1, ProviderUntouched, SameTxsKnow, QuietStep
<1>7. QED
  BY <1>1, <1>2, <1>3, <1>4, <1>5, <1>6 DEF Next

\* What the tables show and every open transaction relies on stays true
\* through every commit of every other transaction.
THEOREM MoneyKnown == Spec => []MoneyInv
BY InitTyped, NextTyped, InitKnows, NextKnows, PTL DEF Spec

\* An order that costs money is never in the kitchen, and its payment never
\* counts as received, before YuKassa has captured the money, however the
\* checkout, staff, courier, worker and webhook transactions interleave.
THEOREM Prepaid == Spec => []PrepaidBeforeServed
<1>1. MoneyInv => PrepaidBeforeServed
  BY DEF MoneyInv, TablesKnow, Captured, PrepaidBeforeServed
<1>2. QED
  BY <1>1, MoneyKnown, PTL

\* A payment counts as refunded, or its refund as failed, only when YuKassa
\* has announced that outcome for one of the order's refunds.
THEOREM RefundsAnnounced == Spec => []RefundOutcomeAnnounced
<1>1. MoneyInv => RefundOutcomeAnnounced
  BY DEF MoneyInv
<1>2. QED
  BY <1>1, MoneyKnown, PTL

=============================================================================
