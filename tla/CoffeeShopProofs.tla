-------------------------- MODULE CoffeeShopProofs --------------------------
(***************************************************************************)
(* Type correctness: every action of CoffeeShop keeps TypeOK.  Then the    *)
(* global limit of a promocode.                                            *)
(*                                                                         *)
(* TypeOK alone is not inductive: a commit writes the row of the order its *)
(* transaction names and the status the transaction carries, and TypeOK    *)
(* would allow "no order" there.  SessionsHaveOrders excludes that.        *)
(***************************************************************************)
EXTENDS CoffeeShop, SequenceTheorems, TLAPS

SessionsHaveOrders ==
  \A s \in Sessions :
    /\ txs[s].op # "idle" => txs[s].order \in Orders
    /\ txs[s].op = "transition" => txs[s].to \in OrderStatus
    /\ txs[s].op = "hook" => txs[s].event \in EventType

TypeInv == TypeOK /\ SessionsHaveOrders

LEMMA KeysTyped == Keys \subseteq Nat /\ 0 \in Keys
BY ConstantsOK DEF ConstantsOK, Keys

LEMMA IdleTyped == IdleTx \in Tx
BY KeysTyped DEF IdleTx, Tx

LEMMA RequestTyped ==
  ASSUME TypeOK, NEW o \in Orders
  PROVE  /\ req[o] \in Request
         /\ req[o].price \in Nat /\ req[o].fee \in Nat
         /\ req[o].points \in Nat /\ req[o].qty \in Nat
BY ConstantsOK DEF ConstantsOK, TypeOK, Request

\* A transaction that may be opened.
TxSound(tx) ==
  /\ tx \in Tx /\ tx.order \in Orders
  /\ tx.op = "transition" => tx.to \in OrderStatus
  /\ tx.op = "hook" => tx.event \in EventType

LEMMA OpenTyped ==
  ASSUME TypeInv, NEW s \in Sessions, NEW tx, TxSound(tx), Open(s, tx)
  PROVE  txs' \in [Sessions -> Tx] /\ SessionsHaveOrders'
BY DEF TypeInv, TypeOK, Open, SessionsHaveOrders, TxSound

LEMMA CloseTyped ==
  ASSUME TypeInv, NEW s \in Sessions, Close(s)
  PROVE  txs' \in [Sessions -> Tx] /\ SessionsHaveOrders'
BY IdleTyped DEF TypeInv, TypeOK, Close, SessionsHaveOrders, IdleTx

LEMMA PhaseTyped ==
  ASSUME TypeInv, NEW s \in Sessions,
         NEW phase \in {"read", "locked", "enqueue", "clear", "mark"},
         txs' = [txs EXCEPT ![s].phase = phase]
  PROVE  txs' \in [Sessions -> Tx] /\ SessionsHaveOrders'
<1>1. txs \in [Sessions -> Tx] /\ SessionsHaveOrders
  BY DEF TypeInv, TypeOK
<1>2. [txs[s] EXCEPT !.phase = phase] \in Tx
  BY <1>1 DEF Tx
<1>3. txs' \in [Sessions -> Tx]
  BY <1>1, <1>2
<1>4. \A t \in Sessions : /\ txs'[t].op = txs[t].op /\ txs'[t].to = txs[t].to
                          /\ txs'[t].order = txs[t].order
                          /\ txs'[t].event = txs[t].event
  BY <1>1 DEF Tx
<1>5. QED
  BY <1>1, <1>3, <1>4 DEF SessionsHaveOrders

LEMMA AppliedPointsBound ==
  ASSUME TypeOK, NEW o \in Orders, NEW bal \in Nat
  PROVE  /\ AppliedPoints(o, bal) \in Nat
         /\ AppliedPoints(o, bal) <= bal
         /\ AppliedPoints(o, bal) <= req[o].price
         /\ OrderTotal(o, bal) \in Nat
<1>1. AppliedPoints(o, bal) \in Nat /\ AppliedPoints(o, bal) <= bal
      /\ AppliedPoints(o, bal) <= req[o].price
  BY RequestTyped DEF AppliedPoints
<1>2. QED
  BY <1>1, RequestTyped DEF OrderTotal

LEMMA CheckoutQuoteTyped ==
  ASSUME TypeInv, NEW s \in Sessions, NEW o \in Orders, CheckoutQuote(s, o)
  PROVE  TypeInv'
<1> DEFINE tx == [IdleTx EXCEPT !.op = "checkout", !.phase = "read",
                                !.order = o, !.bal = balance]
<1>1. TxSound(tx)
  BY KeysTyped DEF IdleTx, Tx, TxSound, TypeInv, TypeOK
<1>2. txs' \in [Sessions -> Tx] /\ SessionsHaveOrders'
  BY <1>1, OpenTyped DEF CheckoutQuote
<1>3. QED
  BY <1>2 DEF CheckoutQuote, TypeInv, TypeOK, tables, yukassa

LEMMA CheckoutCommitTyped ==
  ASSUME TypeInv, NEW s \in Sessions, CheckoutCommit(s)
  PROVE  TypeInv'
<1> DEFINE o == txs[s].order
           bal == txs[s].bal
           points == AppliedPoints(o, bal)
           total == OrderTotal(o, bal)
<1>1. o \in Orders /\ bal \in Nat
  BY DEF TypeInv, TypeOK, SessionsHaveOrders, CheckoutCommit, Running, Tx
<1>2. points \in Nat /\ points <= bal /\ total \in Nat
  BY <1>1, AppliedPointsBound DEF TypeInv
<1>3. stock' \in Nat /\ uses' \in Nat /\ usages' \subseteq Orders
  <2>1. req[o].qty \in Nat
    BY <1>1, RequestTyped DEF TypeInv
  <2>2. req[o].qty <= stock /\ stock' = stock - req[o].qty
    BY DEF CheckoutCommit, CheckoutGranted
  <2>3. /\ uses' = IF req[o].promo THEN uses + 1 ELSE uses
        /\ usages' = IF req[o].promo THEN usages \cup {o} ELSE usages
    BY DEF CheckoutCommit
  <2>4. stock \in Nat /\ uses \in Nat /\ usages \subseteq Orders
    BY DEF TypeInv, TypeOK
  <2>5. QED
    BY <1>1, <2>1, <2>2, <2>3, <2>4
<1>4. orders' \in [Orders -> OrderRow]
  BY <1>1, <1>2 DEF CheckoutCommit, TypeInv, TypeOK, OrderRow, OrderStatus
<1>5. payments' \in [Orders -> PaymentRow]
  BY <1>1 DEF CheckoutCommit, TypeInv, TypeOK, PaymentRow, PaymentStatus
<1>6. balance' \in Nat /\ ledger' \in Seq(LedgerRow)
  <2> DEFINE entry == LedgerEntry(o, IF total = 0 THEN "REDEMPTION"
                                     ELSE "RESERVATION", -points, bal - points)
  <2>1. IF points > 0 THEN balance' = bal - points
                           /\ ledger' = Append(ledger, entry)
        ELSE UNCHANGED <<balance, ledger>>
    BY DEF CheckoutCommit
  <2>2. balance \in Nat /\ ledger \in Seq(LedgerRow)
    BY DEF TypeInv, TypeOK
  <2>3. entry \in LedgerRow
    BY <1>1, <1>2 DEF LedgerEntry, LedgerRow, LedgerType
  <2> HIDE DEF entry, points, bal
  <2>4. Append(ledger, entry) \in Seq(LedgerRow)
    BY <2>2, <2>3, AppendProperties
  <2>5. CASE points > 0
    BY <1>1, <1>2, <2>1, <2>4, <2>5
  <2>6. CASE ~(points > 0)
    BY <2>1, <2>2, <2>6
  <2>7. QED
    BY <2>5, <2>6
<1>7. txs' \in [Sessions -> Tx] /\ SessionsHaveOrders'
  <2>1. txs' = [txs EXCEPT ![s].phase =
                             IF total = 0 THEN "clear" ELSE "enqueue"]
    BY DEF CheckoutCommit
  <2> HIDE DEF total
  <2>2. QED
    BY <2>1, PhaseTyped
<1>8. QED
  BY <1>3, <1>4, <1>5, <1>6, <1>7
     DEF CheckoutCommit, PaymentSide, TypeInv, TypeOK


LEMMA StatusesTyped ==
  ASSUME TypeInv, NEW o \in Orders
  PROVE  /\ orders[o].status \in OrderStatus \cup {"none"}
         /\ payments[o].status \in PaymentStatus \cup {"none"}
         /\ balance \in Nat /\ uses \in Nat
BY DEF TypeInv, TypeOK, OrderRow, PaymentRow

\* A step that only opens or closes a transaction, or loses one.
LEMMA TxsOnlyTyped ==
  ASSUME TypeInv, txs' \in [Sessions -> Tx], SessionsHaveOrders',
         UNCHANGED <<req, tables, cart, handled, sends, yukassa>>,
         crashes' \in 0 .. MaxCrashes, tasks' \subseteq Task
  PROVE  TypeInv'
BY DEF TypeInv, TypeOK, tables, yukassa

LEMMA CloseOnlyTyped ==
  ASSUME TypeInv, NEW s \in Sessions, Close(s),
         UNCHANGED <<req, tables, cart, handled, tasks, sends, yukassa>>,
         crashes' \in 0 .. MaxCrashes
  PROVE  TypeInv'
<1>1. tasks' \subseteq Task
  BY DEF TypeInv, TypeOK
<1>2. QED
  BY <1>1, CloseTyped, TxsOnlyTyped

LEMMA CrashesTyped ==
  ASSUME TypeInv
  PROVE  /\ UNCHANGED crashes => crashes' \in 0 .. MaxCrashes
         /\ crashes < MaxCrashes /\ crashes' = crashes + 1
              => crashes' \in 0 .. MaxCrashes
         /\ UNCHANGED tasks => tasks' \subseteq Task
         /\ \A k : tasks' = tasks \ {k} => tasks' \subseteq Task
         /\ \A k \in Task : tasks' = tasks \cup {k} => tasks' \subseteq Task
         /\ \A j, k \in Task :
              tasks' = (tasks \ {j}) \cup {k} => tasks' \subseteq Task
BY ConstantsOK DEF ConstantsOK, TypeInv, TypeOK

LEMMA CancelReadTyped ==
  ASSUME TypeInv, NEW s \in Sessions, NEW o \in Orders,
         NEW by \in {"customer", "admin"}, CancelRead(s, o, by)
  PROVE  TypeInv'
<1> DEFINE tx == [IdleTx EXCEPT !.op = "cancel", !.phase = "read",
                    !.order = o, !.ost = orders[o].status, !.by = by,
                    !.bal = balance]
<1>1. TxSound(tx)
  BY KeysTyped, StatusesTyped DEF IdleTx, Tx, TxSound
<1>2. txs' \in [Sessions -> Tx] /\ SessionsHaveOrders'
  BY <1>1, OpenTyped DEF CancelRead
<1>3. QED
  BY <1>2, TxsOnlyTyped, CrashesTyped DEF CancelRead

LEMMA TransitionReadTyped ==
  ASSUME TypeInv, NEW s \in Sessions, NEW o \in Orders,
         NEW to \in OrderStatus, TransitionRead(s, o, to)
  PROVE  TypeInv'
<1> DEFINE tx == [IdleTx EXCEPT !.op = "transition", !.phase = "read",
                    !.order = o, !.ost = orders[o].status, !.to = to,
                    !.bal = balance]
<1>1. TxSound(tx)
  BY KeysTyped, StatusesTyped DEF IdleTx, Tx, TxSound
<1>2. txs' \in [Sessions -> Tx] /\ SessionsHaveOrders'
  BY <1>1, OpenTyped DEF TransitionRead
<1>3. QED
  BY <1>2, TxsOnlyTyped, CrashesTyped DEF TransitionRead

LEMMA CourierReadTyped ==
  ASSUME TypeInv, NEW s \in Sessions, NEW o \in Orders, NEW c \in Couriers,
         PickupRead(s, o, c) \/ DeliverRead(s, o, c)
  PROVE  TypeInv'
<1>1. ASSUME NEW from, NEW of \in OrderStatus, NEW to \in OrderStatus,
             CourierRead(s, o, c, from, of, to)
      PROVE  TypeInv'
  <2> DEFINE tx == [IdleTx EXCEPT !.op = "courier", !.phase = "read",
                      !.order = o, !.ost = of, !.to = to, !.bal = balance]
  <2>1. TxSound(tx)
    BY KeysTyped, StatusesTyped DEF IdleTx, Tx, TxSound
  <2>2. txs' \in [Sessions -> Tx] /\ SessionsHaveOrders'
    BY <1>1, <2>1, OpenTyped DEF CourierRead
  <2>3. QED
    BY <1>1, <2>2, TxsOnlyTyped, CrashesTyped DEF CourierRead
<1>2. {"READY", "IN_DELIVERY", "COMPLETED"} \subseteq OrderStatus
  BY DEF OrderStatus
<1>3. QED
  BY <1>1, <1>2 DEF PickupRead, DeliverRead

LEMMA CheckoutEndTyped ==
  ASSUME TypeInv, NEW s \in Sessions,
         CheckoutReject(s) \/ CheckoutEnqueue(s) \/ CheckoutClearCart(s)
  PROVE  TypeInv'
<1>1. CASE CheckoutReject(s)
  BY <1>1, CloseOnlyTyped, CrashesTyped DEF CheckoutReject
<1>2. CASE CheckoutEnqueue(s)
  <2>1. txs[s].order \in Orders
    BY <1>2 DEF CheckoutEnqueue, Running, TypeInv, SessionsHaveOrders
  <2>2. CreateTask(txs[s].order) \in Task
    BY <2>1, KeysTyped DEF CreateTask, Task
  <2>3. tasks' \subseteq Task /\ crashes' \in 0 .. MaxCrashes
    BY <1>2, <2>2, CrashesTyped DEF CheckoutEnqueue
  <2>4. Close(s) /\ UNCHANGED <<req, tables, cart, handled, sends, yukassa>>
    BY <1>2 DEF CheckoutEnqueue
  <2>5. QED
    BY <2>3, <2>4, CloseTyped, TxsOnlyTyped
<1>3. CASE CheckoutClearCart(s)
  BY <1>3, CloseTyped
     DEF CheckoutClearCart, TypeInv, TypeOK, tables, yukassa
<1>4. QED
  BY <1>1, <1>2, <1>3

-----------------------------------------------------------------------------
(* The effects on shared rows                                              *)

LEMMA SetOrderTyped ==
  ASSUME TypeInv, NEW o \in Orders, NEW status \in OrderStatus,
         SetOrder(o, status)
  PROVE  orders' \in [Orders -> OrderRow]
BY DEF SetOrder, TypeInv, TypeOK, OrderRow

LEMMA SetPaymentTyped ==
  ASSUME TypeInv, NEW o \in Orders, NEW status \in PaymentStatus,
         SetPayment(o, status)
  PROVE  payments' \in [Orders -> PaymentRow]
BY DEF SetPayment, TypeInv, TypeOK, PaymentRow

LEMMA NotifyTyped ==
  ASSUME TypeInv, NEW o \in Orders,
         NEW status \in OrderStatus \cup {"REFUND_FAILED"}, Notify(o, status)
  PROVE  notes' \subseteq (Orders \X (OrderStatus \cup {"REFUND_FAILED"}))
BY DEF Notify, TypeInv, TypeOK

LEMMA OrderNumbers ==
  ASSUME TypeInv, NEW o \in Orders
  PROVE  /\ orders[o].points_used \in Nat /\ orders[o].total \in Nat
         /\ req[o].qty \in Nat /\ req[o].fee \in Nat
         /\ stock \in Nat /\ balance \in Nat /\ uses \in Nat
         /\ ledger \in Seq(LedgerRow) /\ usages \subseteq Orders
<1>1. req[o].qty \in Nat /\ req[o].fee \in Nat
  BY RequestTyped DEF TypeInv
<1>2. QED
  BY <1>1 DEF TypeInv, TypeOK, OrderRow

LEMMA AppendLedger ==
  ASSUME TypeInv, NEW o \in Orders, NEW type \in LedgerType,
         NEW amount \in Int, NEW after \in Int
  PROVE  Append(ledger, LedgerEntry(o, type, amount, after)) \in Seq(LedgerRow)
<1>1. LedgerEntry(o, type, amount, after) \in LedgerRow
  BY DEF LedgerEntry, LedgerRow
<1>2. QED
  BY <1>1, OrderNumbers, AppendProperties

LEMMA AccrueTyped ==
  ASSUME TypeInv, NEW o \in Orders, NEW reads \in SUBSET Nat,
         AccrueLoyalty(o, reads)
  PROVE  balance' \in Nat /\ ledger' \in Seq(LedgerRow)
<1>1. Accrual(o) \in Int
  BY OrderNumbers, ConstantsOK DEF Accrual, ConstantsOK
<1>2. CASE Accrual(o) > 0
  <2>1. PICK bal \in reads :
          /\ balance' = bal + Accrual(o)
          /\ ledger' = Append(ledger, LedgerEntry(o, "ACCRUAL", Accrual(o),
                                                  bal + Accrual(o)))
    BY <1>2 DEF AccrueLoyalty
  <2>2. bal \in Nat /\ bal + Accrual(o) \in Nat
    BY <1>1, <1>2
  <2>3. QED
    BY <1>1, <2>1, <2>2, AppendLedger DEF LedgerType
<1>3. CASE ~(Accrual(o) > 0)
  BY <1>3, OrderNumbers DEF AccrueLoyalty
<1>4. QED
  BY <1>2, <1>3

LEMMA ReversePointsTyped ==
  ASSUME TypeInv, NEW o \in Orders, NEW bal \in Nat, ReversePoints(o, bal)
  PROVE  balance' \in Nat /\ ledger' \in Seq(LedgerRow)
<1> DEFINE points == orders[o].points_used
<1>0. points \in Nat /\ "REVERSAL" \in LedgerType
  BY OrderNumbers DEF LedgerType
<1>1. CASE points > 0
  <2>1. Append(ledger, LedgerEntry(o, "REVERSAL", points, bal + points))
          \in Seq(LedgerRow)
    BY <1>0, AppendLedger
  <2>2. QED
    BY <1>0, <1>1, <2>1 DEF ReversePoints
<1>2. CASE ~(orders[o].points_used > 0)
  BY <1>2, OrderNumbers DEF ReversePoints
<1>3. QED
  BY <1>1, <1>2

LEMMA LatestBalanceTyped ==
  ASSUME TypeInv
  PROVE  LatestBalance \in Int
<1>1. ledger \in Seq(LedgerRow)
  BY DEF TypeInv, TypeOK
<1>2. CASE ledger = <<>>
  BY <1>2 DEF LatestBalance
<1>3. CASE ledger # <<>>
  <2>1. ledger[Len(ledger)] \in LedgerRow
    BY <1>1, <1>3, EmptySeq, LenProperties, ElementOfSeq
  <2>2. QED
    BY <1>3, <2>1 DEF LatestBalance, LedgerRow
<1>4. QED
  BY <1>2, <1>3

LEMMA ReverseInLedgerTyped ==
  ASSUME TypeInv, NEW o \in Orders, ReverseInLedger(o)
  PROVE  balance' \in Nat /\ ledger' \in Seq(LedgerRow)
<1>1. balance' \in Nat
  BY DEF ReverseInLedger, TypeInv, TypeOK
<1>2. orders[o].points_used \in Int
      /\ LatestBalance + orders[o].points_used \in Int
  BY OrderNumbers, LatestBalanceTyped
<1>3. CASE orders[o].points_used > 0
  <2>1. Append(ledger, LedgerEntry(o, "REVERSAL", orders[o].points_used,
                         LatestBalance + orders[o].points_used))
          \in Seq(LedgerRow)
    BY <1>2, AppendLedger DEF LedgerType
  <2>2. QED
    BY <1>1, <1>3, <2>1 DEF ReverseInLedger
<1>4. CASE ~(orders[o].points_used > 0)
  BY <1>4, OrderNumbers DEF ReverseInLedger
<1>5. QED
  BY <1>1, <1>3, <1>4

LEMMA RestoreInventoryTyped ==
  ASSUME TypeInv, NEW o \in Orders, RestoreInventory(o)
  PROVE  stock' \in Nat
BY OrderNumbers DEF RestoreInventory

LEMMA ReturnPromocodeTyped ==
  ASSUME TypeInv, NEW o \in Orders, ReturnPromocode(o)
  PROVE  uses' \in Nat /\ usages' \subseteq Orders
BY OrderNumbers DEF ReturnPromocode

LEMMA DecrementPromocodeTyped ==
  ASSUME TypeInv, NEW s \in Sessions, NEW o \in Orders,
         DecrementPromocode(s, o)
  PROVE  uses' \in Nat /\ usages' \subseteq Orders
<1>1. UsesReads(s) \subseteq Nat
  BY DEF UsesReads, TypeInv, TypeOK, Tx
<1>2. QED
  BY <1>1, OrderNumbers DEF DecrementPromocode

LEMMA BalanceReadsTyped ==
  ASSUME TypeInv, NEW s \in Sessions
  PROVE  BalanceReads(s) \in SUBSET Nat
BY DEF BalanceReads, TypeInv, TypeOK, Tx

LEMMA ConfirmReservationTyped ==
  ASSUME TypeInv, NEW o \in Orders, ConfirmReservation(o)
  PROVE  ledger' \in Seq(LedgerRow)
<1>1. ledger \in Seq(LedgerRow)
  BY DEF TypeInv, TypeOK
<1>2. Len(ledger) \in Nat /\ DOMAIN ledger = 1 .. Len(ledger)
      /\ ledger \in [1 .. Len(ledger) -> LedgerRow]
  BY <1>1, LenProperties
<1>3. \A i \in 1 .. Len(ledger) :
        [ledger[i] EXCEPT !.type = "REDEMPTION"] \in LedgerRow
  BY <1>2 DEF LedgerRow, LedgerType
<1>4. ledger' \in [1 .. Len(ledger) -> LedgerRow]
  BY <1>2, <1>3 DEF ConfirmReservation
<1>5. QED
  BY <1>2, <1>4, SeqDef

-----------------------------------------------------------------------------
(* The commits of core-api                                                 *)

LEMMA SessionOrder ==
  ASSUME TypeInv, NEW s \in Sessions, txs[s].op # "idle"
  PROVE  txs[s].order \in Orders
BY DEF TypeInv, SessionsHaveOrders

LEMMA RefundTaskTyped ==
  ASSUME TypeInv, NEW o \in Orders, NEW key \in Keys, SendRefund(o, key)
  PROVE  tasks' \subseteq Task /\ sends' \in [Orders -> Nat]
<1>1. RefundTask(o, key) \in Task
  BY ConstantsOK DEF ConstantsOK, RefundTask, Task, TypeInv, TypeOK
<1>2. QED
  BY <1>1 DEF SendRefund, TypeInv, TypeOK

LEMMA TxReread ==
  ASSUME NEW tx \in Tx, NEW bal \in Nat
  PROVE  [tx EXCEPT !.phase = "locked", !.bal = bal] \in Tx
<1>1. [tx EXCEPT !.phase = "locked"] \in Tx
  BY DEF Tx
<1>2. \A x \in Tx : [x EXCEPT !.bal = bal] \in Tx
  BY DEF Tx
<1>3. [tx EXCEPT !.phase = "locked", !.bal = bal]
        = [[tx EXCEPT !.phase = "locked"] EXCEPT !.bal = bal]
  OBVIOUS
<1>4. QED
  BY <1>1, <1>2, <1>3

LEMMA CancelledRowTyped ==
  ASSUME TypeInv, NEW o \in Orders,
         NEW by \in {"nobody", "customer", "admin"}
  PROVE  [orders EXCEPT ![o].status = "CANCELLED", ![o].cancelled_by = by]
           \in [Orders -> OrderRow]
<1>1. \A row \in OrderRow :
        [row EXCEPT !.status = "CANCELLED", !.cancelled_by = by] \in OrderRow
  BY DEF OrderRow, OrderStatus
<1>2. orders \in [Orders -> OrderRow]
  BY DEF TypeInv, TypeOK
<1>3. QED
  BY <1>1, <1>2

LEMMA AssignmentTyped ==
  ASSUME TypeInv, NEW o \in Orders
  PROVE  /\ assignments \in [Orders -> AssignmentRow]
         /\ \A status \in AssignmentStatus :
              [assignments EXCEPT ![o].status = status]
                \in [Orders -> AssignmentRow]
         /\ \A status \in AssignmentStatus, c \in Couriers \cup {NoCourier} :
              [assignments EXCEPT ![o] = [status |-> status, courier |-> c]]
                \in [Orders -> AssignmentRow]
<1>1. assignments \in [Orders -> AssignmentRow]
  BY DEF TypeInv, TypeOK
<1>2. QED
  BY <1>1 DEF AssignmentRow

LEMMA CancelFlushTyped ==
  ASSUME TypeInv, NEW s \in Sessions, CancelFlush(s)
  PROVE  TypeInv'
<1> DEFINE o == txs[s].order
<1>1. o \in Orders
  BY SessionOrder DEF CancelFlush, Running
<1>2. txs' \in [Sessions -> Tx] /\ SessionsHaveOrders'
  <2>1. PICK bal \in BalanceReads(s) :
          txs' = [txs EXCEPT ![s].phase = "locked", ![s].bal = bal]
    BY DEF CancelFlush
  <2>2. bal \in Nat
    BY <2>1, BalanceReadsTyped
  <2>3. txs \in [Sessions -> Tx] /\ SessionsHaveOrders
    BY DEF TypeInv, TypeOK
  <2>4. [txs[s] EXCEPT !.phase = "locked", !.bal = bal] \in Tx
    BY <2>2, <2>3, TxReread
  <2>5. txs' \in [Sessions -> Tx]
    BY <2>1, <2>3, <2>4
  <2>6. \A t \in Sessions : /\ txs'[t].op = txs[t].op
                            /\ txs'[t].to = txs[t].to
                            /\ txs'[t].order = txs[t].order
                            /\ txs'[t].event = txs[t].event
    BY <2>1, <2>3 DEF Tx
  <2>7. QED
    BY <2>3, <2>5, <2>6 DEF SessionsHaveOrders
<1>3. tasks' \subseteq Task /\ sends' \in [Orders -> Nat]
  <2>1. CASE orders[o].total > 0
    BY <1>1, <2>1, KeysTyped, RefundTaskTyped DEF CancelFlush
  <2>2. CASE ~(orders[o].total > 0)
    BY <2>2 DEF CancelFlush, TypeInv, TypeOK
  <2>3. QED
    BY <2>1, <2>2
<1>4. QED
  BY <1>2, <1>3 DEF CancelFlush, TypeInv, TypeOK, tables, yukassa

LEMMA CancelCommitTyped ==
  ASSUME TypeInv, NEW s \in Sessions, CancelCommit(s)
  PROVE  TypeInv'
<1> DEFINE o == txs[s].order
<1>1. o \in Orders /\ txs[s].bal \in Nat
      /\ txs[s].by \in {"nobody", "customer", "admin"}
  BY SessionOrder DEF CancelCommit, Running, TypeInv, TypeOK, Tx
<1>2. stock' \in Nat
  BY <1>1, RestoreInventoryTyped, OrderNumbers DEF CancelCommit
<1>3. uses' \in Nat /\ usages' \subseteq Orders
  BY <1>1, ReturnPromocodeTyped DEF CancelCommit
<1>4. balance' \in Nat /\ ledger' \in Seq(LedgerRow)
  BY <1>1, ReversePointsTyped DEF CancelCommit
<1>5. orders' \in [Orders -> OrderRow]
  BY <1>1, CancelledRowTyped DEF CancelCommit
<1>6. assignments' \in [Orders -> AssignmentRow]
  BY <1>1, AssignmentTyped
     DEF CancelCommit, CancelAssignment, AssignmentStatus
<1>7. notes' \subseteq (Orders \X (OrderStatus \cup {"REFUND_FAILED"}))
  BY <1>1, NotifyTyped DEF CancelCommit, OrderStatus
<1>8. txs' \in [Sessions -> Tx] /\ SessionsHaveOrders'
  BY CloseTyped DEF CancelCommit
<1>9. QED
  BY <1>2, <1>3, <1>4, <1>5, <1>6, <1>7, <1>8
     DEF CancelCommit, PaymentSide, TypeInv, TypeOK

LEMMA TransitionCommitTyped ==
  ASSUME TypeInv, NEW s \in Sessions, TransitionCommit(s)
  PROVE  TypeInv'
<1> DEFINE o == txs[s].order
<1>1. o \in Orders /\ txs[s].to \in OrderStatus
  BY DEF TransitionCommit, Running, TypeInv, SessionsHaveOrders
<1>2. orders' \in [Orders -> OrderRow]
  BY <1>1, SetOrderTyped DEF TransitionCommit
<1>3. assignments' \in [Orders -> AssignmentRow]
  <2>1. \/ assignments' = [assignments EXCEPT ![o] =
               [status |-> "AWAITING_COURIER", courier |-> NoCourier]]
        \/ assignments' = assignments
    BY DEF TransitionCommit
  <2>2. "AWAITING_COURIER" \in AssignmentStatus
        /\ NoCourier \in Couriers \cup {NoCourier}
    BY DEF AssignmentStatus
  <2>3. QED
    BY <1>1, <2>1, <2>2, AssignmentTyped
<1>4. balance' \in Nat /\ ledger' \in Seq(LedgerRow)
  BY <1>1, AccrueTyped, BalanceReadsTyped, OrderNumbers DEF TransitionCommit
<1>5. notes' \subseteq (Orders \X (OrderStatus \cup {"REFUND_FAILED"}))
  BY <1>1, NotifyTyped DEF TransitionCommit
<1>6. txs' \in [Sessions -> Tx] /\ SessionsHaveOrders'
  BY CloseTyped DEF TransitionCommit
<1>7. QED
  BY <1>2, <1>3, <1>4, <1>5, <1>6
     DEF TransitionCommit, PaymentSide, TypeInv, TypeOK

LEMMA CourierCommitTyped ==
  ASSUME TypeInv, NEW s \in Sessions, PickupCommit(s) \/ DeliverCommit(s)
  PROVE  TypeInv'
<1> DEFINE o == txs[s].order
<1>1. o \in Orders
  BY SessionOrder DEF PickupCommit, DeliverCommit, Running
<1>2. orders' \in [Orders -> OrderRow]
  BY <1>1, SetOrderTyped DEF PickupCommit, DeliverCommit, OrderStatus
<1>3. assignments' \in [Orders -> AssignmentRow]
  <2>1. \/ assignments' = [assignments EXCEPT ![o].status = "PICKED_UP"]
        \/ assignments' = [assignments EXCEPT ![o].status = "DELIVERED"]
    BY DEF PickupCommit, DeliverCommit
  <2>2. {"PICKED_UP", "DELIVERED"} \subseteq AssignmentStatus
    BY DEF AssignmentStatus
  <2>3. QED
    BY <1>1, <2>1, <2>2, AssignmentTyped
<1>4. balance' \in Nat /\ ledger' \in Seq(LedgerRow)
  BY <1>1, AccrueTyped, BalanceReadsTyped, OrderNumbers
     DEF PickupCommit, DeliverCommit
<1>5. txs' \in [Sessions -> Tx] /\ SessionsHaveOrders'
  BY CloseTyped DEF PickupCommit, DeliverCommit
<1>6. QED
  BY <1>2, <1>3, <1>4, <1>5
     DEF PickupCommit, DeliverCommit, PaymentSide, TypeInv, TypeOK

LEMMA AtomicTyped ==
  ASSUME TypeInv, CoreApiAtomic
  PROVE  TypeInv'
<1>1. CASE FillCart
  BY <1>1 DEF FillCart, TypeInv, TypeOK, SessionsHaveOrders, tables, yukassa
<1>2. ASSUME NEW o \in Orders, AutoClose(o)
      PROVE  TypeInv'
  <2>1. orders' \in [Orders -> OrderRow]
    BY <1>2, SetOrderTyped DEF AutoClose, OrderStatus
  <2>2. balance' \in Nat /\ ledger' \in Seq(LedgerRow)
    <3>1. {balance} \in SUBSET Nat
      BY OrderNumbers, <1>2
    <3>2. QED
      BY <1>2, <3>1, AccrueTyped DEF AutoClose
  <2>3. QED
    BY <1>2, <2>1, <2>2
       DEF AutoClose, PaymentSide, TypeInv, TypeOK, SessionsHaveOrders
<1>3. ASSUME NEW o \in Orders, RetryRefund(o)
      PROVE  TypeInv'
  <2>1. tasks' \subseteq Task /\ sends' \in [Orders -> Nat]
    BY <1>3, RefundTaskTyped DEF RetryRefund
  <2>2. QED
    BY <1>3, <2>1
       DEF RetryRefund, TypeInv, TypeOK, SessionsHaveOrders, tables, yukassa
<1>4. ASSUME NEW o \in Orders, NEW c \in Couriers, TakeAssignment(o, c)
      PROVE  TypeInv'
  <2>1. assignments' \in [Orders -> AssignmentRow]
    BY <1>4, AssignmentTyped DEF TakeAssignment, AssignmentStatus
  <2>2. QED
    BY <1>4, <2>1
       DEF TakeAssignment, PaymentSide, TypeInv, TypeOK, SessionsHaveOrders
<1>5. QED
  BY <1>1, <1>2, <1>3, <1>4 DEF CoreApiAtomic

-----------------------------------------------------------------------------
(* The payment worker                                                      *)

LEMMA TaskTyped ==
  ASSUME TypeInv, NEW k \in tasks
  PROVE  /\ k \in Task /\ k.order \in Orders /\ k.key \in Keys
         /\ k.row \in Nat /\ k.send \in Nat /\ k.try \in Nat
BY DEF TypeInv, TypeOK, Task

LEMMA TaskPhaseTyped ==
  ASSUME NEW k \in Task
  PROVE  /\ \A phase \in {"queued", "calling", "accepted", "failed"} :
              [k EXCEPT !.phase = phase] \in Task
         /\ [k EXCEPT !.try = @ + 1] \in Task
BY DEF Task

LEMMA ReplaceTyped ==
  ASSUME TypeInv, NEW k \in tasks, NEW new \in Task, ReplaceTask(k, new)
  PROVE  tasks' \subseteq Task
BY DEF ReplaceTask, TypeInv, TypeOK

LEMMA DropTyped ==
  ASSUME TypeInv, NEW k, DropTask(k)
  PROVE  tasks' \subseteq Task
BY DEF DropTask, TypeInv, TypeOK

LEMMA ChargeCreatedTyped ==
  ASSUME TypeInv, NEW o \in Orders, ChargeCreated(o) \/ UNCHANGED charge
  PROVE  charge' \in [Orders -> ChargeStatus]
BY DEF ChargeCreated, TypeInv, TypeOK, ChargeStatus

LEMMA RefundMadeTyped ==
  ASSUME TypeInv, NEW k \in tasks, RefundMade(k) \/ UNCHANGED returned
  PROVE  returned' \in [Orders -> [Keys -> ChargeStatus]]
<1>1. k.order \in Orders /\ k.key \in Keys
  BY TaskTyped
<1>2. returned \in [Orders -> [Keys -> ChargeStatus]]
  BY DEF TypeInv, TypeOK
<1>3. [returned EXCEPT ![k.order][k.key] = "pending"]
        \in [Orders -> [Keys -> ChargeStatus]]
  BY <1>1, <1>2 DEF ChargeStatus
<1>4. QED
  BY <1>2, <1>3 DEF RefundMade

\* A change to one row of a refunds sequence.
LEMMA RefundRowTyped ==
  ASSUME TypeInv, NEW o \in Orders, NEW row, NEW new,
         row \in 1 .. Len(refunds[o]) => new \in RefundRow
  PROVE  /\ refunds[o] \in Seq(RefundRow)
         /\ [refunds EXCEPT ![o][row] = new] \in [Orders -> Seq(RefundRow)]
<1>1. refunds \in [Orders -> Seq(RefundRow)] /\ refunds[o] \in Seq(RefundRow)
  BY DEF TypeInv, TypeOK
<1>2. DOMAIN refunds[o] = 1 .. Len(refunds[o])
  BY <1>1, LenProperties
<1>3. [refunds[o] EXCEPT ![row] = new] \in Seq(RefundRow)
  <2>1. CASE row \in 1 .. Len(refunds[o])
    BY <1>1, <2>1, ExceptSeq
  <2>2. CASE row \notin 1 .. Len(refunds[o])
    <3>1. [refunds[o] EXCEPT ![row] = new] = refunds[o]
      BY <1>1, <1>2, <2>2, LenProperties
    <3>2. QED
      BY <1>1, <3>1
  <2>3. QED
    BY <2>1, <2>2
<1>4. QED
  BY <1>1, <1>3

LEMMA RefundFieldsTyped ==
  ASSUME TypeInv, NEW o \in Orders, NEW row, NEW key \in Keys,
         NEW status \in RefundStatus
  PROVE  /\ [refunds EXCEPT ![o][row].status = status]
              \in [Orders -> Seq(RefundRow)]
         /\ [refunds EXCEPT ![o][row].key = key] \in [Orders -> Seq(RefundRow)]
         /\ [refunds EXCEPT ![o][row] = [status |-> status, key |-> key]]
              \in [Orders -> Seq(RefundRow)]
<1> DEFINE old == refunds[o][row]
<1>1. refunds \in [Orders -> Seq(RefundRow)] /\ refunds[o] \in Seq(RefundRow)
  BY DEF TypeInv, TypeOK
<1>2. row \in 1 .. Len(refunds[o]) => old \in RefundRow
  BY <1>1, ElementOfSeq
<1>3. row \in 1 .. Len(refunds[o]) =>
        /\ [old EXCEPT !.status = status] \in RefundRow
        /\ [old EXCEPT !.key = key] \in RefundRow
        /\ [status |-> status, key |-> key] \in RefundRow
  BY <1>2 DEF RefundRow
<1>4. /\ [refunds EXCEPT ![o][row] = [old EXCEPT !.status = status]]
           \in [Orders -> Seq(RefundRow)]
      /\ [refunds EXCEPT ![o][row] = [old EXCEPT !.key = key]]
           \in [Orders -> Seq(RefundRow)]
      /\ [refunds EXCEPT ![o][row] = [status |-> status, key |-> key]]
           \in [Orders -> Seq(RefundRow)]
  BY <1>3, RefundRowTyped
<1>5. QED
  BY <1>1, <1>4

LEMMA WorkerReadTyped ==
  ASSUME TypeInv, NEW s \in Sessions, NEW k \in tasks,
         \/ CompensateRead(s, k) \/ RefundOpenRead(s, k)
         \/ RefundSaveRead(s, k)
  PROVE  TypeInv'
<1>1. /\ k.order \in Orders /\ k.key \in Keys /\ k.row \in Nat
      /\ k.send \in Nat
  BY TaskTyped
<1>2. PICK tx : TxSound(tx) /\ Open(s, tx)
  <2>1. CASE CompensateRead(s, k)
    <3> DEFINE tx == [IdleTx EXCEPT !.op = "compensate", !.phase = "read",
                        !.order = k.order, !.ost = orders[k.order].status,
                        !.pst = payments[k.order].status,
                        !.bal = balance, !.uses = uses]
    <3>1. TxSound(tx)
      BY <1>1, KeysTyped, StatusesTyped DEF IdleTx, Tx, TxSound
    <3>2. QED
      BY <2>1, <3>1 DEF CompensateRead
  <2>2. CASE RefundOpenRead(s, k)
    <3> DEFINE tx == [IdleTx EXCEPT !.op = "refundOpen", !.phase = "read",
                        !.order = k.order, !.send = k.send, !.key = k.key]
    <3>1. TxSound(tx)
      BY <1>1, KeysTyped DEF IdleTx, Tx, TxSound
    <3>2. QED
      BY <2>2, <3>1 DEF RefundOpenRead
  <2>3. CASE RefundSaveRead(s, k)
    <3> DEFINE tx == [IdleTx EXCEPT !.op = "refundSave", !.phase = "read",
                        !.order = k.order, !.key = k.key, !.row = k.row,
                        !.pst = payments[k.order].status]
    <3>1. TxSound(tx)
      BY <1>1, KeysTyped, StatusesTyped DEF IdleTx, Tx, TxSound
    <3>2. QED
      BY <2>3, <3>1 DEF RefundSaveRead
  <2>4. QED
    BY <2>1, <2>2, <2>3
<1>3. txs' \in [Sessions -> Tx] /\ SessionsHaveOrders'
  BY <1>2, OpenTyped
<1>4. /\ tasks' \subseteq Task /\ crashes' \in 0 .. MaxCrashes
      /\ UNCHANGED <<req, tables, cart, handled, sends, yukassa>>
  BY DropTyped, CrashesTyped
     DEF CompensateRead, RefundOpenRead, RefundSaveRead, ApiSide, tables
<1>5. QED
  BY <1>3, <1>4, TxsOnlyTyped

LEMMA CompensateCommitTyped ==
  ASSUME TypeInv, NEW s \in Sessions, CompensateCommit(s)
  PROVE  TypeInv'
<1> DEFINE o == txs[s].order
<1>1. o \in Orders
  BY SessionOrder DEF CompensateCommit, Running
<1>2. payments' \in [Orders -> PaymentRow]
  BY <1>1, SetPaymentTyped DEF CompensateCommit, PaymentStatus
<1>3. txs' \in [Sessions -> Tx] /\ SessionsHaveOrders'
  BY CloseTyped DEF CompensateCommit
<1>4. /\ orders' \in [Orders -> OrderRow] /\ stock' \in Nat
      /\ balance' \in Nat /\ ledger' \in Seq(LedgerRow)
      /\ uses' \in Nat /\ usages' \subseteq Orders
  <2>1. CASE txs[s].ost = "CANCELLED"
    BY <2>1 DEF CompensateCommit, TypeInv, TypeOK
  <2>2. CASE txs[s].ost # "CANCELLED"
    <3>1. FailOrder(s, o)
      BY <2>2 DEF CompensateCommit
    <3>2. QED
      BY <1>1, <3>1, SetOrderTyped, RestoreInventoryTyped,
         ReverseInLedgerTyped, DecrementPromocodeTyped
         DEF FailOrder, OrderStatus
  <2>3. QED
    BY <2>1, <2>2
<1>5. QED
  BY <1>2, <1>3, <1>4 DEF CompensateCommit, ApiSide, TypeInv, TypeOK, yukassa

LEMMA RefundOpenCommitTyped ==
  ASSUME TypeInv, NEW s \in Sessions, RefundOpenCommit(s)
  PROVE  TypeInv'
<1> DEFINE o == txs[s].order
<1>1. o \in Orders /\ txs[s].send \in Nat /\ txs[s].key \in Keys
  BY SessionOrder DEF RefundOpenCommit, Running, TypeInv, TypeOK, Tx
<1>2. refunds \in [Orders -> Seq(RefundRow)] /\ refunds[o] \in Seq(RefundRow)
  BY <1>1 DEF TypeInv, TypeOK
<1>3. refunds' \in [Orders -> Seq(RefundRow)]
  <2>1. [status |-> "PENDING", key |-> NoKey] \in RefundRow
    BY DEF RefundRow, RefundStatus
  <2>2. Append(refunds[o], [status |-> "PENDING", key |-> NoKey])
          \in Seq(RefundRow)
    BY <1>2, <2>1, AppendProperties
  <2>3. QED
    BY <1>2, <2>2 DEF RefundOpenCommit
<1>4. tasks' \subseteq Task
  <2>1. Len(refunds[o]) + 1 \in Nat
    BY <1>2, LenProperties
  <2>2. [kind |-> "refund", order |-> o, queue |-> RefundQueue,
         send |-> txs[s].send, key |-> txs[s].key, phase |-> "calling",
         try |-> 0, row |-> Len(refunds[o]) + 1] \in Task
    BY <1>1, <2>1, ConstantsOK DEF ConstantsOK, Task
  <2>3. QED
    BY <2>2 DEF RefundOpenCommit, TypeInv, TypeOK
<1>5. txs' \in [Sessions -> Tx] /\ SessionsHaveOrders'
  BY CloseTyped DEF RefundOpenCommit
<1>6. QED
  BY <1>3, <1>4, <1>5 DEF RefundOpenCommit, ApiSide, TypeInv, TypeOK, yukassa

LEMMA RefundSaveCommitTyped ==
  ASSUME TypeInv, NEW s \in Sessions, RefundSaveCommit(s)
  PROVE  TypeInv'
<1> DEFINE o == txs[s].order
<1>1. o \in Orders /\ txs[s].key \in Keys
  BY SessionOrder DEF RefundSaveCommit, Running, TypeInv, TypeOK, Tx
<1>2. refunds' \in [Orders -> Seq(RefundRow)]
  BY <1>1, RefundFieldsTyped DEF RefundSaveCommit, RefundStatus
<1>3. payments' \in [Orders -> PaymentRow]
  <2>1. CASE txs[s].pst \in RefundSources
    BY <1>1, <2>1, SetPaymentTyped DEF RefundSaveCommit, PaymentStatus
  <2>2. CASE txs[s].pst \notin RefundSources
    BY <2>2 DEF RefundSaveCommit, TypeInv, TypeOK
  <2>3. QED
    BY <2>1, <2>2
<1>4. txs' \in [Sessions -> Tx] /\ SessionsHaveOrders'
  BY CloseTyped DEF RefundSaveCommit
<1>5. QED
  BY <1>2, <1>3, <1>4 DEF RefundSaveCommit, ApiSide, TypeInv, TypeOK, yukassa

LEMMA TaskStepTyped ==
  ASSUME TypeInv, TaskStep
  PROVE  TypeInv'
<1> SUFFICES ASSUME NEW k \in tasks,
               \/ CreateAccepted(k) \/ CreateUnreachable(k)
               \/ CreateRefused(k) \/ CreateSave(k) \/ CompensateSkip(k)
               \/ RefundSkip(k) \/ RefundAccepted(k)
               \/ RefundUnreachable(k) \/ RefundFail(k)
             PROVE  TypeInv'
  BY DEF TaskStep
<1>1. k \in Task /\ k.order \in Orders /\ k.row \in Nat
  BY TaskTyped
<1>2. /\ [k EXCEPT !.phase = "accepted"] \in Task
      /\ [k EXCEPT !.phase = "failed"] \in Task
      /\ [k EXCEPT !.try = @ + 1] \in Task
  BY <1>1, TaskPhaseTyped
<1>3. tasks' \subseteq Task
  BY <1>1, <1>2, ReplaceTyped, DropTyped
     DEF CreateAccepted, CreateUnreachable, CreateRefused, CreateSave,
         CompensateSkip, RefundSkip, RefundAccepted, RefundUnreachable,
         RefundFail
<1>4. CASE CreateAccepted(k) \/ CreateUnreachable(k)
  <2>1. charge' \in [Orders -> ChargeStatus]
    BY <1>1, <1>4, ChargeCreatedTyped DEF CreateAccepted, CreateUnreachable
  <2>2. QED
    BY <1>3, <1>4, <2>1
       DEF CreateAccepted, CreateUnreachable, ApiSide, TypeInv, TypeOK,
           SessionsHaveOrders, tables
<1>5. CASE CreateRefused(k) \/ CompensateSkip(k) \/ RefundSkip(k)
  BY <1>3, <1>5
     DEF CreateRefused, CompensateSkip, RefundSkip, ApiSide, TypeInv, TypeOK,
         SessionsHaveOrders, tables, yukassa
<1>6. CASE CreateSave(k)
  <2>1. payments' \in [Orders -> PaymentRow]
    BY <1>1, <1>6 DEF CreateSave, TypeInv, TypeOK, PaymentRow, PaymentStatus
  <2>2. QED
    BY <1>3, <1>6, <2>1
       DEF CreateSave, ApiSide, TypeInv, TypeOK, SessionsHaveOrders, yukassa
<1>7. CASE RefundAccepted(k) \/ RefundUnreachable(k)
  <2>1. returned' \in [Orders -> [Keys -> ChargeStatus]]
    BY <1>7, RefundMadeTyped DEF RefundAccepted, RefundUnreachable
  <2>2. QED
    BY <1>3, <1>7, <2>1
       DEF RefundAccepted, RefundUnreachable, ApiSide, TypeInv, TypeOK,
           SessionsHaveOrders, tables
<1>8. CASE RefundFail(k)
  <2>1. refunds' \in [Orders -> Seq(RefundRow)]
    BY <1>1, <1>8, KeysTyped, RefundFieldsTyped DEF RefundFail, RefundStatus
  <2>2. QED
    BY <1>3, <1>8, <2>1
       DEF RefundFail, ApiSide, TypeInv, TypeOK, SessionsHaveOrders, yukassa
<1>9. QED
  BY <1>4, <1>5, <1>6, <1>7, <1>8

-----------------------------------------------------------------------------
(* The webhook, YuKassa and the failures                                   *)

LEMMA HookReadTyped ==
  ASSUME TypeInv, NEW s \in Sessions, NEW e \in Event, HookRead(s, e)
  PROVE  TypeInv'
<1> DEFINE o == e.order
           row == RefundOf(o, e.key)
           refundEvent == e.type \in {"refund.succeeded", "refund.canceled"}
           tx == [IdleTx EXCEPT
             !.op = "hook", !.phase = "read", !.order = o, !.event = e.type,
             !.key = e.key, !.ost = orders[o].status, !.bal = balance,
             !.uses = uses,
             !.pst = IF Known(o) THEN payments[o].status ELSE "none",
             !.row = IF refundEvent THEN row ELSE 0,
             !.rst = IF refundEvent THEN RefundSeen(o, row) ELSE "none"]
<1>1. o \in Orders /\ e.key \in Keys /\ e.type \in EventType
  BY DEF Event
<1>2. refunds[o] \in Seq(RefundRow)
  BY <1>1 DEF TypeInv, TypeOK
<1>3. row \in 0 .. Len(refunds[o]) /\ Len(refunds[o]) \in Nat
  BY <1>2, LenProperties DEF RefundOf
<1>4. RefundSeen(o, row) \in RefundStatus \cup {"none"}
  <2>1. CASE row = 0
    BY <2>1 DEF RefundSeen
  <2>2. CASE row # 0
    <3>1. refunds[o][row] \in RefundRow
      BY <1>2, <1>3, <2>2, ElementOfSeq
    <3>2. QED
      BY <2>2, <3>1 DEF RefundSeen, RefundRow
  <2>3. QED
    BY <2>1, <2>2
<1>5. TxSound(tx)
  <2> HIDE DEF row, refundEvent, o
  <2>1. (IF Known(o) THEN payments[o].status ELSE "none")
          \in PaymentStatus \cup {"none"}
    BY <1>1, StatusesTyped
  <2>2. (IF refundEvent THEN row ELSE 0) \in Nat
    BY <1>3
  <2>3. (IF refundEvent THEN RefundSeen(o, row) ELSE "none")
          \in RefundStatus \cup {"none"}
    BY <1>4
  <2>4. ASSUME NEW pst \in PaymentStatus \cup {"none"}, NEW n \in Nat,
               NEW rst \in RefundStatus \cup {"none"}
        PROVE  TxSound([IdleTx EXCEPT
                 !.op = "hook", !.phase = "read", !.order = o,
                 !.event = e.type, !.key = e.key, !.ost = orders[o].status,
                 !.bal = balance, !.uses = uses, !.pst = pst, !.row = n,
                 !.rst = rst])
    BY <1>1, StatusesTyped DEF IdleTx, Tx, TxSound
  <2>5. QED
    BY <2>1, <2>2, <2>3, <2>4
<1>6. txs' \in [Sessions -> Tx] /\ SessionsHaveOrders'
  <2>1. Open(s, tx)
    BY DEF HookRead
  <2>2. QED
    BY <1>5, <2>1, OpenTyped
<1>7. QED
  BY <1>6, TxsOnlyTyped, CrashesTyped DEF HookRead, ApiAndTasks, yukassa

LEMMA HookPaidTyped ==
  ASSUME TypeInv, NEW s \in Sessions, HookPaid(s)
  PROVE  TypeInv'
<1>1. txs[s].order \in Orders
  BY SessionOrder DEF HookPaid, Saw, Running
<1>2. /\ orders' \in [Orders -> OrderRow]
      /\ payments' \in [Orders -> PaymentRow]
      /\ ledger' \in Seq(LedgerRow)
      /\ notes' \subseteq (Orders \X (OrderStatus \cup {"REFUND_FAILED"}))
  BY <1>1, SetOrderTyped, SetPaymentTyped, ConfirmReservationTyped,
     NotifyTyped DEF HookPaid, OrderStatus, PaymentStatus
<1>3. txs' \in [Sessions -> Tx] /\ SessionsHaveOrders'
  BY PhaseTyped DEF HookPaid
<1>4. QED
  BY <1>2, <1>3 DEF HookPaid, ApiAndTasks, TypeInv, TypeOK, yukassa

LEMMA HookUnpaidTyped ==
  ASSUME TypeInv, NEW s \in Sessions, HookUnpaid(s)
  PROVE  TypeInv'
<1>1. txs[s].order \in Orders
  BY SessionOrder DEF HookUnpaid, Saw, Running
<1>2. /\ orders' \in [Orders -> OrderRow]
      /\ payments' \in [Orders -> PaymentRow]
      /\ notes' \subseteq (Orders \X (OrderStatus \cup {"REFUND_FAILED"}))
  BY <1>1, SetOrderTyped, SetPaymentTyped, NotifyTyped
     DEF HookUnpaid, OrderStatus, PaymentStatus
<1>3. /\ stock' \in Nat /\ balance' \in Nat /\ ledger' \in Seq(LedgerRow)
      /\ uses' \in Nat /\ usages' \subseteq Orders
  BY <1>1, RestoreInventoryTyped, ReverseInLedgerTyped,
     DecrementPromocodeTyped DEF HookUnpaid
<1>4. txs' \in [Sessions -> Tx] /\ SessionsHaveOrders'
  BY PhaseTyped DEF HookUnpaid
<1>5. QED
  BY <1>2, <1>3, <1>4 DEF HookUnpaid, ApiAndTasks, TypeInv, TypeOK, yukassa

LEMMA HookUnpaidCancelledTyped ==
  ASSUME TypeInv, NEW s \in Sessions, HookUnpaidCancelled(s)
  PROVE  TypeInv'
<1>1. txs[s].order \in Orders
  BY SessionOrder DEF HookUnpaidCancelled, Saw, Running
<1>2. payments' \in [Orders -> PaymentRow]
  BY <1>1, SetPaymentTyped DEF HookUnpaidCancelled, PaymentStatus
<1>3. txs' \in [Sessions -> Tx] /\ SessionsHaveOrders'
  BY PhaseTyped DEF HookUnpaidCancelled
<1>4. QED
  BY <1>2, <1>3
     DEF HookUnpaidCancelled, ApiAndTasks, TypeInv, TypeOK, yukassa

LEMMA HookRefundTyped ==
  ASSUME TypeInv, NEW s \in Sessions,
         HookRefunded(s) \/ HookRefundCanceled(s)
  PROVE  TypeInv'
<1> DEFINE o == txs[s].order
<1>1. o \in Orders /\ txs[s].key \in Keys
  BY SessionOrder
     DEF HookRefunded, HookRefundCanceled, Saw, Running, TypeInv, TypeOK, Tx
<1>2. PICK refund \in RefundStatus, payment \in PaymentStatus :
        SettleRefund(s, refund, payment)
  BY DEF HookRefunded, HookRefundCanceled, RefundStatus, PaymentStatus
<1>3. refunds' \in [Orders -> Seq(RefundRow)]
  BY <1>1, <1>2, RefundFieldsTyped DEF SettleRefund
<1>4. payments' \in [Orders -> PaymentRow]
  BY <1>1, <1>2, SetPaymentTyped DEF SettleRefund
<1>5. txs' \in [Sessions -> Tx] /\ SessionsHaveOrders'
  BY <1>2, PhaseTyped DEF SettleRefund
<1>6. notes' \subseteq (Orders \X (OrderStatus \cup {"REFUND_FAILED"}))
  <2>1. CASE HookRefunded(s)
    BY <2>1 DEF HookRefunded, TypeInv, TypeOK
  <2>2. CASE HookRefundCanceled(s)
    BY <1>1, <2>2, NotifyTyped DEF HookRefundCanceled
  <2>3. QED
    BY <2>1, <2>2
<1>7. QED
  BY <1>2, <1>3, <1>4, <1>5, <1>6
     DEF SettleRefund, ApiAndTasks, TypeInv, TypeOK, yukassa

LEMMA HookEndTyped ==
  ASSUME TypeInv, NEW s \in Sessions,
         HookIgnored(s) \/ HookClearCart(s) \/ HookMark(s)
  PROVE  TypeInv'
<1>1. CASE HookIgnored(s) \/ HookClearCart(s)
  <2>1. txs' \in [Sessions -> Tx] /\ SessionsHaveOrders'
    BY <1>1, PhaseTyped DEF HookIgnored, HookClearCart
  <2>2. QED
    BY <1>1, <2>1
       DEF HookIgnored, HookClearCart, ApiAndTasks, TypeInv, TypeOK, tables,
           yukassa
<1>2. CASE HookMark(s)
  <2>1. /\ txs[s].order \in Orders /\ txs[s].key \in Keys
        /\ txs[s].event \in EventType
    BY <1>2, SessionOrder
       DEF HookMark, Running, TypeInv, TypeOK, Tx, SessionsHaveOrders
  <2>2. handled' \subseteq Event
    BY <1>2, <2>1 DEF HookMark, Event, TypeInv, TypeOK
  <2>3. QED
    BY <1>2, <2>2, CloseTyped
       DEF HookMark, ApiAndTasks, TypeInv, TypeOK, tables, yukassa
<1>3. QED
  BY <1>1, <1>2

LEMMA YuKassaTyped ==
  ASSUME TypeInv, YuKassaStep
  PROVE  TypeInv'
<1> USE DEF ChargeStatus
<1>1. charge \in [Orders -> ChargeStatus]
      /\ returned \in [Orders -> [Keys -> ChargeStatus]]
  BY DEF TypeInv, TypeOK
<1>2. ASSUME NEW o \in Orders, ChargePaid(o) \/ ChargeCanceled(o)
      PROVE  TypeInv'
  <2>1. charge' \in [Orders -> ChargeStatus]
    BY <1>1, <1>2 DEF ChargePaid, ChargeCanceled
  <2>2. QED
    BY <1>2, <2>1
       DEF ChargePaid, ChargeCanceled, Around, TypeInv, TypeOK,
           SessionsHaveOrders, tables
<1>3. ASSUME NEW o \in Orders, NEW key \in Keys, RefundResolved(o, key)
      PROVE  TypeInv'
  <2>1. PICK result \in ChargeStatus :
          returned' = [returned EXCEPT ![o][key] = result]
    BY <1>3 DEF RefundResolved
  <2>2. returned' \in [Orders -> [Keys -> ChargeStatus]]
    BY <1>1, <2>1
  <2>3. QED
    BY <1>3, <2>2
       DEF RefundResolved, Around, TypeInv, TypeOK, SessionsHaveOrders, tables
<1>4. QED
  BY <1>2, <1>3 DEF YuKassaStep

LEMMA LossTyped ==
  ASSUME TypeInv,
         \/ \E s \in Sessions : SessionLost(s) \/ IntegrityError(s)
         \/ \E k \in tasks : TaskLost(k)
  PROVE  TypeInv'
<1>1. ASSUME NEW s \in Sessions, SessionLost(s)
      PROVE  TypeInv'
  BY <1>1, CloseOnlyTyped, CrashesTyped DEF SessionLost
<1>2. ASSUME NEW s \in Sessions, IntegrityError(s)
      PROVE  TypeInv'
  BY <1>2, CloseOnlyTyped, CrashesTyped DEF IntegrityError
<1>3. ASSUME NEW k \in tasks, TaskLost(k)
      PROVE  TypeInv'
  <2>1. tasks' \subseteq Task /\ crashes' \in 0 .. MaxCrashes
    BY <1>3, DropTyped, CrashesTyped DEF TaskLost
  <2>2. QED
    BY <1>3, <2>1
       DEF TaskLost, ApiSide, TypeInv, TypeOK, SessionsHaveOrders, tables,
           yukassa
<1>4. QED
  BY <1>1, <1>2, <1>3

-----------------------------------------------------------------------------
(* Type correctness                                                        *)

LEMMA InitTyped == Init => TypeInv
<1> SUFFICES ASSUME Init PROVE TypeInv
  OBVIOUS
<1>1. /\ req \in [Orders -> Requests]
      /\ orders \in [Orders -> OrderRow]
      /\ payments \in [Orders -> PaymentRow]
      /\ assignments \in [Orders -> AssignmentRow]
  BY DEF Init, OrderRow, PaymentRow, AssignmentRow
<1>2. refunds \in [Orders -> Seq(RefundRow)]
  <2>1. <<>> \in Seq(RefundRow)
    OBVIOUS
  <2>2. QED
    BY <2>1 DEF Init
<1>3. /\ stock \in Nat /\ balance \in Nat /\ uses \in Nat
      /\ usages \subseteq Orders
      /\ notes \subseteq (Orders \X (OrderStatus \cup {"REFUND_FAILED"}))
      /\ cart \in BOOLEAN /\ handled \subseteq Event /\ tasks \subseteq Task
      /\ sends \in [Orders -> Nat] /\ crashes \in 0 .. MaxCrashes
  <2>1. 0 \in 0 .. MaxCrashes /\ InitialStock \in Nat /\ InitialBalance \in Nat
    BY ConstantsOK DEF ConstantsOK
  <2>2. QED
    BY <2>1 DEF Init
<1>4. ledger \in Seq(LedgerRow)
  <2>1. LedgerEntry(NoOrder, "ADMIN_ADJUSTMENT", InitialBalance,
                    InitialBalance) \in LedgerRow
    BY ConstantsOK DEF ConstantsOK, LedgerEntry, LedgerRow, LedgerType
  <2>2. QED
    BY <2>1 DEF Init
<1>5. /\ charge \in [Orders -> ChargeStatus]
      /\ returned \in [Orders -> [Keys -> ChargeStatus]]
  BY DEF Init, ChargeStatus
<1>6. txs \in [Sessions -> Tx] /\ SessionsHaveOrders
  <2>1. \A s \in Sessions : txs[s] = IdleTx
    BY DEF Init
  <2>2. QED
    BY <2>1, IdleTyped DEF Init, SessionsHaveOrders, IdleTx
<1>7. QED
  BY <1>1, <1>2, <1>3, <1>4, <1>5, <1>6 DEF TypeInv, TypeOK

LEMMA BeginTyped ==
  ASSUME TypeInv, NEW s \in Sessions, Begin(s)
  PROVE  TypeInv'
<1>1. CASE CoreApiBegin(s)
  BY <1>1, CheckoutQuoteTyped, CancelReadTyped, TransitionReadTyped,
     CourierReadTyped DEF CoreApiBegin
<1>2. CASE WorkerBegin(s)
  BY <1>2, WorkerReadTyped DEF WorkerBegin
<1>3. CASE HookBegin(s)
  BY <1>3, HookReadTyped DEF HookBegin
<1>4. QED
  BY <1>1, <1>2, <1>3 DEF Begin

LEMMA StepTyped ==
  ASSUME TypeInv, NEW s \in Sessions, Step(s)
  PROVE  TypeInv'
<1>1. CASE CoreApiStep(s)
  BY <1>1, CheckoutCommitTyped, CheckoutEndTyped, CancelFlushTyped,
     CancelCommitTyped, TransitionCommitTyped, CourierCommitTyped
     DEF CoreApiStep
<1>2. CASE WorkerStep(s)
  BY <1>2, CompensateCommitTyped, RefundOpenCommitTyped,
     RefundSaveCommitTyped DEF WorkerStep
<1>3. CASE HookStep(s)
  BY <1>3, HookPaidTyped, HookUnpaidTyped, HookUnpaidCancelledTyped,
     HookRefundTyped, HookEndTyped DEF HookStep
<1>4. CASE IntegrityError(s)
  BY <1>4, LossTyped
<1>5. QED
  BY <1>1, <1>2, <1>3, <1>4 DEF Step

LEMMA NextTyped == TypeInv /\ [Next]_vars => TypeInv'
<1> SUFFICES ASSUME TypeInv, [Next]_vars PROVE TypeInv'
  OBVIOUS
<1>1. ASSUME NEW s \in Sessions, Begin(s) \/ Step(s) \/ SessionLost(s)
      PROVE  TypeInv'
  BY <1>1, BeginTyped, StepTyped, LossTyped
<1>2. CASE CoreApiAtomic
  BY <1>2, AtomicTyped
<1>3. CASE TaskStep \/ \E k \in tasks : TaskLost(k)
  BY <1>3, TaskStepTyped, LossTyped
<1>4. CASE YuKassaStep
  BY <1>4, YuKassaTyped
<1>5. CASE UNCHANGED vars
  BY <1>5 DEF vars, TypeInv, TypeOK, SessionsHaveOrders
<1>6. QED
  BY <1>1, <1>2, <1>3, <1>4, <1>5 DEF Next

\* Every column, key and open transaction keeps its type in every reachable
\* state: stock, loyalty balance and promocode counter stay natural numbers
\* through every handler's arithmetic, and each task, event and open
\* transaction refers to rows there are.
THEOREM TypeCorrect == Spec => []TypeOK
<1>1. TypeInv => TypeOK
  BY DEF TypeInv
<1>2. QED
  BY <1>1, InitTyped, NextTyped, PTL DEF Spec

-----------------------------------------------------------------------------
(* No interleaving of checkouts takes a promocode past its global limit.   *)
(* The quote's check is stale when the checkout writes, and the counter is *)
(* also written back, minus one, from what a payment transaction read some *)
(* commits ago.  So the invariant bounds the reads as well.                *)

CapInv ==
  /\ uses <= MaxUses
  /\ \A s \in Sessions : txs[s].uses <= MaxUses

\* A transaction carries the counter it has read, if it has read one.
TxsCarry == \A t \in Sessions : txs'[t].uses \in {txs[t].uses, uses, 0}

LEMMA LimitIsNat == MaxUses \in Nat
BY ConstantsOK DEF ConstantsOK

LEMMA CapStays ==
  ASSUME TypeInv, CapInv, TxsCarry, uses' <= MaxUses
  PROVE  CapInv'
BY LimitIsNat DEF CapInv, TxsCarry

LEMMA UntouchedCap ==
  ASSUME TypeInv, CapInv, TxsCarry, UNCHANGED uses
  PROVE  CapInv'
BY CapStays DEF CapInv

LEMMA SameTxsCarry ==
  ASSUME UNCHANGED txs
  PROVE  TxsCarry
BY DEF TxsCarry

LEMMA OpenCarries ==
  ASSUME TypeInv, NEW s \in Sessions, txs'[s].uses \in {uses, 0},
         \A t \in Sessions \ {s} : txs'[t] = txs[t]
  PROVE  TxsCarry
BY DEF TxsCarry

LEMMA CloseCarries ==
  ASSUME TypeInv, NEW s \in Sessions, Close(s)
  PROVE  TxsCarry
BY DEF TypeInv, TypeOK, Close, TxsCarry, IdleTx

LEMMA PhaseCarries ==
  ASSUME TypeInv, NEW s \in Sessions, NEW phase,
         txs' = [txs EXCEPT ![s].phase = phase]
  PROVE  TxsCarry
BY DEF TypeInv, TypeOK, Tx, TxsCarry

-----------------------------------------------------------------------------
(* Transactions begin                                                      *)

LEMMA BeginCapped ==
  ASSUME TypeInv, CapInv, NEW s \in Sessions, Begin(s)
  PROVE  CapInv'
<1>1. UNCHANGED uses
  BY DEF Begin, CoreApiBegin, WorkerBegin, HookBegin, CheckoutQuote,
         CancelRead, TransitionRead, PickupRead, DeliverRead, CourierRead,
         CompensateRead, RefundOpenRead, RefundSaveRead, HookRead, tables
<1>2. \A u \in Sessions \ {s} : txs'[u] = txs[u]
  BY DEF Begin, CoreApiBegin, WorkerBegin, HookBegin, CheckoutQuote,
         CancelRead, TransitionRead, PickupRead, DeliverRead, CourierRead,
         CompensateRead, RefundOpenRead, RefundSaveRead, HookRead, Open,
         TypeInv, TypeOK
<1>3. CASE CoreApiBegin(s)
  <2>1. ASSUME NEW o \in Orders,
               \/ CheckoutQuote(s, o)
               \/ \E by \in {"customer", "admin"} : CancelRead(s, o, by)
               \/ \E to \in OrderStatus : TransitionRead(s, o, to)
               \/ \E c \in Couriers : PickupRead(s, o, c) \/ DeliverRead(s, o, c)
        PROVE  txs'[s].uses = 0
    <3> DEFINE ost == orders[o].status
    <3>1. CASE CheckoutQuote(s, o)
      <4>1. Open(s, [IdleTx EXCEPT !.op = "checkout", !.phase = "read",
                                   !.order = o, !.bal = balance])
        BY <3>1 DEF CheckoutQuote
      <4>2. QED
        BY <4>1 DEF Open, IdleTx, TypeInv, TypeOK
    <3>2. ASSUME NEW by, CancelRead(s, o, by)
          PROVE  txs'[s].uses = 0
      <4>1. Open(s, [IdleTx EXCEPT !.op = "cancel", !.phase = "read",
                                   !.order = o, !.ost = ost, !.by = by,
                                   !.bal = balance])
        BY <3>2 DEF CancelRead
      <4> HIDE DEF ost
      <4>2. QED
        BY <4>1 DEF Open, IdleTx, TypeInv, TypeOK
    <3>3. ASSUME NEW to, TransitionRead(s, o, to)
          PROVE  txs'[s].uses = 0
      <4>1. Open(s, [IdleTx EXCEPT !.op = "transition", !.phase = "read",
                                   !.order = o, !.ost = ost, !.to = to,
                                   !.bal = balance])
        BY <3>3 DEF TransitionRead
      <4> HIDE DEF ost
      <4>2. QED
        BY <4>1 DEF Open, IdleTx, TypeInv, TypeOK
    <3>4. ASSUME NEW c, NEW from, NEW ofOrder, NEW to,
                 CourierRead(s, o, c, from, ofOrder, to)
          PROVE  txs'[s].uses = 0
      <4>1. Open(s, [IdleTx EXCEPT !.op = "courier", !.phase = "read",
                                   !.order = o, !.ost = ofOrder, !.to = to,
                                   !.bal = balance])
        BY <3>4 DEF CourierRead
      <4>2. QED
        BY <4>1 DEF Open, IdleTx, TypeInv, TypeOK
    <3>5. QED
      BY <2>1, <3>1, <3>2, <3>3, <3>4 DEF PickupRead, DeliverRead
  <2>2. txs'[s].uses = 0
    BY <1>3, <2>1 DEF CoreApiBegin
  <2>3. QED
    BY <1>1, <1>2, <2>2, OpenCarries, UntouchedCap
<1>4. CASE WorkerBegin(s)
  <2>1. ASSUME NEW k \in tasks, CompensateRead(s, k)
        PROVE  txs'[s].uses = uses
    BY <2>1 DEF CompensateRead, Open, IdleTx, TypeInv, TypeOK
  <2>2. ASSUME NEW k \in tasks, RefundOpenRead(s, k)
        PROVE  txs'[s].uses = 0
    <3> DEFINE o == k.order  send == k.send  key == k.key
    <3>1. Open(s, [IdleTx EXCEPT !.op = "refundOpen", !.phase = "read",
                                 !.order = o, !.send = send, !.key = key])
      BY <2>2 DEF RefundOpenRead
    <3> HIDE DEF o, send, key
    <3>2. QED
      BY <3>1 DEF Open, IdleTx, TypeInv, TypeOK
  <2>3. ASSUME NEW k \in tasks, RefundSaveRead(s, k)
        PROVE  txs'[s].uses = 0
    <3> DEFINE o == k.order  key == k.key  row == k.row
               pst == payments[k.order].status
    <3>1. Open(s, [IdleTx EXCEPT !.op = "refundSave", !.phase = "read",
                                 !.order = o, !.key = key, !.row = row,
                                 !.pst = pst])
      BY <2>3 DEF RefundSaveRead
    <3> HIDE DEF o, key, row, pst
    <3>2. QED
      BY <3>1 DEF Open, IdleTx, TypeInv, TypeOK
  <2>4. QED
    BY <1>1, <1>2, <1>4, <2>1, <2>2, <2>3, OpenCarries, UntouchedCap
       DEF WorkerBegin
<1>5. CASE HookBegin(s)
  <2>1. PICK e \in Event : HookRead(s, e)
    BY <1>5 DEF HookBegin
  <2>2. txs'[s].uses = uses
    <3> DEFINE o == e.order
               row == RefundOf(o, e.key)
               event == e.type
               pst == IF Known(o) THEN payments[o].status ELSE "none"
               refundEvent == e.type \in {"refund.succeeded", "refund.canceled"}
               seen == IF refundEvent THEN row ELSE 0
               rst == IF refundEvent THEN RefundSeen(o, row) ELSE "none"
    <3>1. Open(s, [IdleTx EXCEPT
            !.op = "hook", !.phase = "read", !.order = o, !.event = event,
            !.key = e.key, !.ost = orders[o].status, !.bal = balance,
            !.uses = uses, !.pst = pst, !.row = seen, !.rst = rst])
      BY <2>1 DEF HookRead
    <3> HIDE DEF row, pst, seen, rst, event
    <3>2. QED
      BY <3>1 DEF Open, IdleTx, TypeInv, TypeOK
  <2>3. QED
    BY <1>1, <1>2, <2>2, OpenCarries, UntouchedCap
<1>6. QED
  BY <1>3, <1>4, <1>5 DEF Begin

-----------------------------------------------------------------------------
(* The commits that write the counter                                      *)

LEMMA CheckoutCommitCapped ==
  ASSUME TypeInv, CapInv, NEW s \in Sessions, CheckoutCommit(s)
  PROVE  CapInv'
<1>1. PICK phase : txs' = [txs EXCEPT ![s].phase = phase]
  BY DEF CheckoutCommit
<1>2. uses' <= MaxUses
  <2>1. uses \in Nat
    BY DEF TypeInv, TypeOK
  <2>2. CASE req[txs[s].order].promo
    BY <2>1, <2>2, LimitIsNat DEF CheckoutCommit, CheckoutGranted
  <2>3. CASE ~req[txs[s].order].promo
    BY <2>3 DEF CheckoutCommit, CapInv
  <2>4. QED
    BY <2>2, <2>3
<1>3. QED
  BY <1>1, <1>2, PhaseCarries, CapStays

LEMMA CancelCommitCapped ==
  ASSUME TypeInv, CapInv, NEW s \in Sessions, CancelCommit(s)
  PROVE  CapInv'
<1>1. uses \in Nat
  BY DEF TypeInv, TypeOK
<1>2. uses' \in {uses, uses - 1} /\ Close(s)
  BY DEF CancelCommit, ReturnPromocode
<1>3. uses' <= MaxUses
  BY <1>1, <1>2, LimitIsNat DEF CapInv
<1>4. QED
  BY <1>2, <1>3, CloseCarries, CapStays

LEMMA DecrementCapped ==
  ASSUME TypeInv, CapInv, NEW s \in Sessions, NEW o \in Orders,
         DecrementPromocode(s, o)
  PROVE  uses' <= MaxUses
<1>1. uses \in Nat /\ txs[s].uses \in Nat
  BY DEF TypeInv, TypeOK, Tx
<1>2. PICK seen \in {txs[s].uses, uses} : uses' \in {uses, seen - 1}
  BY DEF DecrementPromocode, UsesReads
<1>3. QED
  BY <1>1, <1>2, LimitIsNat DEF CapInv

LEMMA CompensateCapped ==
  ASSUME TypeInv, CapInv, NEW s \in Sessions, CompensateCommit(s)
  PROVE  CapInv'
<1>1. txs[s].order \in Orders
  BY SessionOrder DEF CompensateCommit, Running
<1>2. Close(s)
  BY DEF CompensateCommit
<1>3. CASE DecrementPromocode(s, txs[s].order)
  BY <1>1, <1>2, <1>3, DecrementCapped, CloseCarries, CapStays
<1>4. CASE UNCHANGED uses
  BY <1>2, <1>4, CloseCarries, UntouchedCap
<1>5. QED
  BY <1>3, <1>4 DEF CompensateCommit, FailOrder

LEMMA HookUnpaidCapped ==
  ASSUME TypeInv, CapInv, NEW s \in Sessions, HookUnpaid(s)
  PROVE  CapInv'
<1>1. txs[s].order \in Orders
  BY SessionOrder DEF HookUnpaid, Saw, Running
<1>2. /\ DecrementPromocode(s, txs[s].order)
      /\ txs' = [txs EXCEPT ![s].phase = "mark"]
  BY DEF HookUnpaid
<1>3. QED
  BY <1>1, <1>2, DecrementCapped, PhaseCarries, CapStays

-----------------------------------------------------------------------------
(* Every other step leaves the counter alone                               *)

LEMMA CancelFlushCapped ==
  ASSUME TypeInv, CapInv, NEW s \in Sessions, CancelFlush(s)
  PROVE  CapInv'
<1>1. PICK bal : txs' = [txs EXCEPT ![s].phase = "locked", ![s].bal = bal]
  BY DEF CancelFlush
<1>2. TxsCarry
  BY <1>1 DEF TypeInv, TypeOK, Tx, TxsCarry
<1>3. QED
  BY <1>2, UntouchedCap DEF CancelFlush, tables

LEMMA QuietCapped ==
  ASSUME TypeInv, CapInv, NEW s \in Sessions,
         \/ CheckoutReject(s) \/ CheckoutEnqueue(s) \/ CheckoutClearCart(s)
         \/ TransitionCommit(s) \/ PickupCommit(s) \/ DeliverCommit(s)
         \/ RefundOpenCommit(s) \/ RefundSaveCommit(s)
         \/ HookPaid(s) \/ HookUnpaidCancelled(s) \/ HookRefunded(s)
         \/ HookRefundCanceled(s) \/ HookIgnored(s) \/ HookClearCart(s)
         \/ HookMark(s) \/ IntegrityError(s) \/ SessionLost(s)
  PROVE  CapInv'
<1>1. UNCHANGED uses
  BY DEF CheckoutReject, CheckoutEnqueue, CheckoutClearCart,
         TransitionCommit, PickupCommit, DeliverCommit, RefundOpenCommit,
         RefundSaveCommit, HookPaid, HookUnpaidCancelled, HookRefunded,
         HookRefundCanceled, SettleRefund, HookIgnored, HookClearCart,
         HookMark, IntegrityError, SessionLost, tables
<1>2. CASE Close(s)
  BY <1>1, <1>2, CloseCarries, UntouchedCap
<1>3. CASE \E phase : txs' = [txs EXCEPT ![s].phase = phase]
  BY <1>1, <1>3, PhaseCarries, UntouchedCap
<1>4. QED
  BY <1>2, <1>3
     DEF CheckoutReject, CheckoutEnqueue, CheckoutClearCart,
         TransitionCommit, PickupCommit, DeliverCommit, RefundOpenCommit,
         RefundSaveCommit, HookPaid, HookUnpaidCancelled, HookRefunded,
         HookRefundCanceled, SettleRefund, HookIgnored, HookClearCart,
         HookMark, IntegrityError, SessionLost

LEMMA NoSessionCapped ==
  ASSUME TypeInv, CapInv,
         \/ CoreApiAtomic \/ TaskStep \/ YuKassaStep
         \/ \E k \in tasks : TaskLost(k)
         \/ UNCHANGED vars
  PROVE  CapInv'
<1>1. UNCHANGED <<uses, txs>>
  BY DEF CoreApiAtomic, FillCart, AutoClose, RetryRefund, TakeAssignment,
         TaskStep, CreateAccepted, CreateUnreachable, CreateRefused,
         CreateSave, CompensateSkip, RefundSkip, RefundAccepted,
         RefundUnreachable, RefundFail, TaskLost, YuKassaStep, ChargePaid,
         ChargeCanceled, RefundResolved, Around, ApiSide, tables, vars
<1>2. QED
  BY <1>1, SameTxsCarry, UntouchedCap

-----------------------------------------------------------------------------

LEMMA InitCapped == Init => CapInv
BY LimitIsNat DEF Init, CapInv, IdleTx

LEMMA NextCapped == TypeInv /\ CapInv /\ [Next]_vars => CapInv'
<1> SUFFICES ASSUME TypeInv, CapInv, [Next]_vars PROVE CapInv'
  OBVIOUS
<1>1. ASSUME NEW s \in Sessions, Begin(s) \/ Step(s) \/ SessionLost(s)
      PROVE  CapInv'
  BY <1>1, BeginCapped, CheckoutCommitCapped, CancelFlushCapped,
     CancelCommitCapped, CompensateCapped, HookUnpaidCapped, QuietCapped
     DEF Step, CoreApiStep, WorkerStep, HookStep
<1>2. CASE \/ CoreApiAtomic \/ TaskStep \/ YuKassaStep
           \/ \E k \in tasks : TaskLost(k)
           \/ UNCHANGED vars
  BY <1>2, NoSessionCapped
<1>3. QED
  BY <1>1, <1>2 DEF Next

\* A promocode is never granted more often than max_uses, for any number of
\* orders and of overlapping checkouts, cancellations, compensations and
\* webhook calls.
THEOREM PromocodeCapped == Spec => []PromocodeCapHolds
<1>1. CapInv => PromocodeCapHolds
  BY DEF CapInv, PromocodeCapHolds
<1>2. QED
  BY <1>1, InitTyped, NextTyped, InitCapped, NextCapped, PTL DEF Spec

=============================================================================
