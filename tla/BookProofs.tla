----------------------------- MODULE BookProofs -----------------------------
(***************************************************************************)
(* The shop keeps MoneyContract, whatever interleaves and dies.            *)
(*                                                                         *)
(* A step of a handler must be a step of the contract although the handler *)
(* writes what it decided on rows that it read some commits ago.  MoneyInv *)
(* says that what it read of YuKassa is still true; BookInv says the same  *)
(* of the payment's row: until it is linked to YuKassa it has one writer,  *)
(* then the webhook, one call at a time, and refund tasks that never write *)
(* anything but REFUND_PENDING to a payment that was booked before.        *)
(***************************************************************************)
EXTENDS MoneyProofs

-----------------------------------------------------------------------------
(* Steps that leave payments alone                                         *)

\* Orders that are there stay there, the others stay as they are.
OrdersMove ==
  \A p \in Orders : \/ orders'[p] = orders[p]
                    \/ orders[p].status # "none" /\ orders'[p].status # "none"

\* No create task is new, and a new refund task calls YuKassa for a payment
\* that is booked.
TasksMove ==
  \A k \in tasks' : \/ k \in tasks
                    \/ k.kind = "refund" /\ (k.phase # "queued" => Booked(k.order))

OthersStay(s) == \A t \in Sessions \ {s} : txs'[t] = txs[t]

\* What session s takes up.
SessionMoves(s) ==
  /\ SessionBook(s)'
  /\ \A o \in Orders : CreatesNow(s, o)' => CreatesNow(s, o)
  /\ txs'[s].op = "hook" => \A t \in Sessions \ {s} : txs[t].op # "hook"

LEMMA UnplacedStays ==
  ASSUME BookInv, UNCHANGED payments, OrdersMove, NEW o \in Orders
  PROVE  Unplaced(o)'
BY DEF BookInv, Unplaced, OrdersMove

LEMMA SessionBookStays ==
  ASSUME TypeInv, UNCHANGED payments, OrdersMove,
         NEW t \in Sessions, SessionBook(t), txs'[t] = txs[t]
  PROVE  SessionBook(t)'
<1>1. txs[t].op # "idle" => txs[t].order \in Orders
  BY SessionOrder
<1>2. QED
  BY <1>1 DEF SessionBook, CreatesNow, Running, Unasked, Booked, OrdersMove

LEMMA TaskBookMoves ==
  ASSUME BookInv, UNCHANGED payments, TasksMove, NEW k \in tasks'
  PROVE  TaskBook(k)'
BY DEF BookInv, TasksMove, TaskBook, Unasked, Booked

LEMMA OneCreatorMoves ==
  ASSUME BookInv, TasksMove, NEW s \in Sessions, OthersStay(s),
         NEW o \in Orders, CreatesNow(s, o)' => CreatesNow(s, o)
  PROVE  OneCreator(o)'
<1>1. OneCreator(o)
  BY DEF BookInv
<1>2. \A k \in tasks' : CreatesLater(k, o) => k \in tasks
  BY DEF TasksMove, CreatesLater
<1>3. \A t \in Sessions : CreatesNow(t, o)' => CreatesNow(t, o)
  BY DEF OthersStay, CreatesNow, Running
<1>4. QED
  BY <1>1, <1>2, <1>3 DEF OneCreator, CreatesLater

LEMMA OneHookMoves ==
  ASSUME BookInv, NEW s \in Sessions, OthersStay(s),
         txs'[s].op = "hook" => \A t \in Sessions \ {s} : txs[t].op # "hook"
  PROVE  OneHook'
BY DEF BookInv, OneHook, OthersStay

LEMMA QuietBook ==
  ASSUME TypeInv, BookInv, UNCHANGED payments, OrdersMove, TasksMove,
         NEW s \in Sessions, OthersStay(s), SessionMoves(s)
  PROVE  BookInv'
<1>1. \A o \in Orders : Unplaced(o)' /\ OneCreator(o)'
  BY UnplacedStays, OneCreatorMoves DEF SessionMoves
<1>2. \A t \in Sessions : SessionBook(t)'
  BY SessionBookStays DEF BookInv, OthersStay, SessionMoves
<1>3. \A k \in tasks' : TaskBook(k)'
  BY TaskBookMoves
<1>4. OneHook'
  BY OneHookMoves DEF SessionMoves
<1>5. QED
  BY <1>1, <1>2, <1>3, <1>4 DEF BookInv

-----------------------------------------------------------------------------
(* What a session does                                                     *)

LEMMA CloseMoves ==
  ASSUME TypeInv, NEW s \in Sessions, Close(s)
  PROVE  OthersStay(s) /\ SessionMoves(s)
<1>1. txs'[s] = IdleTx /\ OthersStay(s)
  BY DEF Close, OthersStay, TypeInv, TypeOK
<1>2. QED
  BY <1>1 DEF SessionMoves, SessionBook, CreatesNow, Running, IdleTx

\* A session that was no creator goes on, past what it has read.
LEMMA PhaseMoves ==
  ASSUME TypeInv, BookInv, NEW s \in Sessions, NEW phase \in {"clear", "mark"},
         txs[s].op \in {"hook", "checkout"}, txs' = [txs EXCEPT ![s].phase = phase]
  PROVE  OthersStay(s) /\ SessionMoves(s)
<1>1. /\ txs'[s].op = txs[s].op /\ txs'[s].order = txs[s].order
      /\ txs'[s].phase = phase /\ OthersStay(s)
  BY DEF OthersStay, TypeInv, TypeOK, Tx
<1>2. SessionBook(s)' /\ \A o \in Orders : ~CreatesNow(s, o)'
  BY <1>1 DEF SessionBook, CreatesNow, Running
<1>3. txs[s].op = "hook" => \A t \in Sessions \ {s} : txs[t].op # "hook"
  BY DEF BookInv, OneHook
<1>4. QED
  BY <1>1, <1>2, <1>3 DEF SessionMoves

LEMMA OpenMoves ==
  ASSUME TypeInv, NEW s \in Sessions, NEW tx, Open(s, tx),
         txs'[s] = tx => SessionBook(s)',
         tx.op \notin {"compensate", "hook"},
         tx.op = "checkout" => tx.phase = "read"
  PROVE  OthersStay(s) /\ SessionMoves(s)
<1>1. txs'[s] = tx /\ OthersStay(s)
  BY DEF Open, OthersStay, TypeInv, TypeOK
<1>2. QED
  BY <1>1 DEF SessionMoves, CreatesNow, Running

\* Every session stays where it is.
LEMMA StillBook ==
  ASSUME TypeInv, BookInv, UNCHANGED <<txs, payments>>, OrdersMove, TasksMove
  PROVE  BookInv'
<1>1. \A o \in Orders : OneCreator(o)'
  <2> SUFFICES ASSUME NEW o \in Orders PROVE OneCreator(o)'
    OBVIOUS
  <2>1. \A k \in tasks' : CreatesLater(k, o) => k \in tasks
    BY DEF TasksMove, CreatesLater
  <2>2. OneCreator(o)
    BY DEF BookInv
  <2>3. QED
    BY <2>1, <2>2 DEF OneCreator, CreatesLater, CreatesNow, Running
<1>2. \A o \in Orders : Unplaced(o)'
  BY UnplacedStays
<1>3. \A t \in Sessions : SessionBook(t)'
  BY SessionBookStays DEF BookInv
<1>4. \A k \in tasks' : TaskBook(k)'
  BY TaskBookMoves
<1>5. OneHook'
  BY DEF BookInv, OneHook
<1>6. QED
  BY <1>1, <1>2, <1>3, <1>4, <1>5 DEF BookInv

LEMMA NothingMoves ==
  /\ UNCHANGED orders => OrdersMove
  /\ UNCHANGED tasks => TasksMove
  /\ \A k : DropTask(k) => TasksMove
BY DEF OrdersMove, TasksMove, DropTask
-----------------------------------------------------------------------------
(* core-api                                                                *)

LEMMA CoreApiBeginBook ==
  ASSUME TypeInv, BookInv, NEW s \in Sessions, CoreApiBegin(s)
  PROVE  BookInv'
<1>1. PICK o \in Orders :
        \/ CheckoutQuote(s, o)
        \/ \E by \in {"customer", "admin"} : CancelRead(s, o, by)
        \/ \E to \in OrderStatus : TransitionRead(s, o, to)
        \/ \E c \in Couriers : PickupRead(s, o, c) \/ DeliverRead(s, o, c)
  BY DEF CoreApiBegin
<1>2. UNCHANGED <<orders, payments, tasks>>
  BY <1>1 DEF CheckoutQuote, CancelRead, TransitionRead, PickupRead,
              DeliverRead, CourierRead, tables
<1>3. PICK tx : /\ Open(s, tx) /\ tx.order = o
                /\ \/ tx.op = "checkout" /\ tx.phase = "read"
                   \/ tx.op = "cancel" /\ orders[o].status # "none"
                   \/ tx.op \in {"transition", "courier"}
  <2>1. CASE CheckoutQuote(s, o)
    <3> DEFINE tx == [IdleTx EXCEPT !.op = "checkout", !.phase = "read",
                                    !.order = o, !.bal = balance]
    <3>1. Open(s, tx) /\ tx.op = "checkout" /\ tx.phase = "read" /\ tx.order = o
      BY <2>1 DEF CheckoutQuote, IdleTx
    <3> HIDE DEF tx
    <3>2. QED
      BY <3>1
  <2>2. ASSUME NEW by \in {"customer", "admin"}, CancelRead(s, o, by)
        PROVE  /\ orders[o].status # "none"
               /\ \E tx : Open(s, tx) /\ tx.op = "cancel" /\ tx.order = o
    <3> DEFINE tx == [IdleTx EXCEPT !.op = "cancel", !.phase = "read",
                        !.order = o, !.ost = orders[o].status, !.by = by,
                        !.bal = balance]
    <3>1. Open(s, tx) /\ tx.op = "cancel" /\ tx.order = o
      BY <2>2 DEF CancelRead, IdleTx
    <3> HIDE DEF tx
    <3>2. QED
      BY <2>2, <3>1 DEF CancelRead, MayCancel
  <2>3. ASSUME NEW to \in OrderStatus, TransitionRead(s, o, to)
        PROVE  \E tx : Open(s, tx) /\ tx.op = "transition" /\ tx.order = o
    <3> DEFINE tx == [IdleTx EXCEPT !.op = "transition", !.phase = "read",
                        !.order = o, !.ost = orders[o].status, !.to = to,
                        !.bal = balance]
    <3>1. Open(s, tx) /\ tx.op = "transition" /\ tx.order = o
      BY <2>3 DEF TransitionRead, IdleTx
    <3> HIDE DEF tx
    <3>2. QED
      BY <3>1
  <2>4. ASSUME NEW c \in Couriers, PickupRead(s, o, c) \/ DeliverRead(s, o, c)
        PROVE  \E tx : Open(s, tx) /\ tx.op = "courier" /\ tx.order = o
    <3> DEFINE tx(at, to) == [IdleTx EXCEPT !.op = "courier", !.phase = "read",
                                !.order = o, !.ost = at, !.to = to, !.bal = balance]
    <3>1. PICK at, to : Open(s, tx(at, to))
      BY <2>4 DEF PickupRead, DeliverRead, CourierRead
    <3>2. tx(at, to).op = "courier" /\ tx(at, to).order = o
      BY DEF IdleTx
    <3> HIDE DEF tx
    <3>3. QED
      BY <3>1, <3>2
  <2>5. QED
    BY <1>1, <2>1, <2>2, <2>3, <2>4
<1>4. ASSUME txs'[s] = tx PROVE SessionBook(s)'
  BY <1>2, <1>3, <1>4 DEF SessionBook, CreatesNow, Running
<1>5. OthersStay(s) /\ SessionMoves(s)
  BY <1>3, <1>4, OpenMoves
<1>6. QED
  BY <1>2, <1>5, NothingMoves, QuietBook

LEMMA CancelFlushBook ==
  ASSUME TypeInv, BookInv, NEW s \in Sessions, CancelFlush(s)
  PROVE  BookInv'
<1>1. /\ UNCHANGED <<orders, payments>> /\ txs[s].op = "cancel"
      /\ \E bal : txs' = [txs EXCEPT ![s].phase = "locked", ![s].bal = bal]
  BY DEF CancelFlush, Running, tables
<1>2. TasksMove
  BY DEF CancelFlush, SendRefund, RefundTask, TasksMove
<1>3. /\ txs'[s].op = "cancel" /\ txs'[s].order = txs[s].order /\ OthersStay(s)
  BY <1>1 DEF OthersStay, TypeInv, TypeOK, Tx
<1>4. SessionMoves(s)
  BY <1>1, <1>3 DEF SessionMoves, SessionBook, CreatesNow, Running, BookInv
<1>5. QED
  BY <1>1, <1>2, <1>3, <1>4, NothingMoves, QuietBook

\* A session that ends without a word to payments.
LEMMA CloseBook ==
  ASSUME TypeInv, BookInv, NEW s \in Sessions, Close(s), UNCHANGED payments,
         OrdersMove, TasksMove
  PROVE  BookInv'
BY CloseMoves, QuietBook

LEMMA SetOrderMoves ==
  ASSUME TypeInv, NEW o \in Orders, NEW status \in OrderStatus,
         SetOrder(o, status), orders[o].status # "none"
  PROVE  OrdersMove
<1>1. /\ orders'[o].status = status
      /\ \A p \in Orders \ {o} : orders'[p] = orders[p]
  BY SetOrderStays
<1>2. QED
  BY <1>1 DEF OrdersMove, OrderStatus

LEMMA CoreApiCommitBook ==
  ASSUME TypeInv, MoneyInv, BookInv, NEW s \in Sessions,
         \/ CancelCommit(s) \/ TransitionCommit(s) \/ PickupCommit(s)
         \/ DeliverCommit(s) \/ CheckoutReject(s) \/ CheckoutClearCart(s)
  PROVE  BookInv'
<1>1. Close(s) /\ UNCHANGED <<payments, tasks>>
  BY DEF CancelCommit, TransitionCommit, PickupCommit, DeliverCommit,
         CheckoutReject, CheckoutClearCart, tables
<1>2. CASE CheckoutReject(s) \/ CheckoutClearCart(s)
  <2>1. UNCHANGED orders
    BY <1>2 DEF CheckoutReject, CheckoutClearCart, tables
  <2>2. QED
    BY <1>1, <2>1, NothingMoves, CloseBook
<1>3. CASE CancelCommit(s)
  <2>1. PICK o \in Orders : o = txs[s].order
    BY <1>3, SessionOrder DEF CancelCommit, Running
  <2>2. orders' = [orders EXCEPT ![o].status = "CANCELLED",
                                 ![o].cancelled_by = txs[s].by]
    BY <1>3, <2>1 DEF CancelCommit
  <2>3. /\ orders'[o].status = "CANCELLED"
        /\ \A p \in Orders \ {o} : orders'[p] = orders[p]
    BY <2>1, <2>2 DEF TypeInv, TypeOK, OrderRow
  <2>4. orders[o].status # "none"
    BY <1>3, <2>1 DEF BookInv, SessionBook, CancelCommit, Running
  <2>5. OrdersMove
    BY <2>3, <2>4 DEF OrdersMove
  <2>6. QED
    BY <1>1, <2>5, NothingMoves, CloseBook
<1>4. CASE TransitionCommit(s) \/ PickupCommit(s) \/ DeliverCommit(s)
  <2> DEFINE o == txs[s].order
  <2>1. o \in Orders /\ txs[s].op \in {"transition", "courier"}
    BY <1>4, SessionOrder DEF TransitionCommit, PickupCommit, DeliverCommit, Running
  <2>2. orders[o].status # "none"
    BY <2>1 DEF MoneyInv, SessionKnows, Captured
  <2>3. PICK status \in OrderStatus : SetOrder(o, status)
    <3>1. txs[s].op = "transition" => txs[s].to \in OrderStatus
      BY DEF TypeInv, SessionsHaveOrders
    <3>2. QED
      BY <1>4, <3>1 DEF TransitionCommit, PickupCommit, DeliverCommit, Running,
                        OrderStatus
  <2>4. QED
    BY <1>1, <2>1, <2>2, <2>3, SetOrderMoves, NothingMoves, CloseBook
<1>5. QED
  BY <1>2, <1>3, <1>4

LEMMA CoreApiAtomicBook ==
  ASSUME TypeInv, BookInv, CoreApiAtomic
  PROVE  BookInv'
<1>1. UNCHANGED <<payments, txs>> /\ TasksMove /\ OrdersMove
  <2>1. CASE FillCart \/ \E o \in Orders, c \in Couriers : TakeAssignment(o, c)
    BY <2>1, NothingMoves DEF FillCart, TakeAssignment, tables
  <2>2. ASSUME NEW o \in Orders, RetryRefund(o)
        PROVE  UNCHANGED <<payments, txs>> /\ TasksMove /\ OrdersMove
    BY <2>2, NothingMoves DEF RetryRefund, SendRefund, RefundTask, TasksMove, tables
  <2>3. ASSUME NEW o \in Orders, AutoClose(o)
        PROVE  UNCHANGED <<payments, txs>> /\ TasksMove /\ OrdersMove
    BY <2>3, NothingMoves, SetOrderMoves DEF AutoClose, OrderStatus
  <2>4. QED
    BY <2>1, <2>2, <2>3 DEF CoreApiAtomic
<1>2. QED
  BY <1>1, StillBook
-----------------------------------------------------------------------------
(* A creator hands over to the next                                        *)

\* The create task of an order: the payment is unasked, and nobody else is
\* about to create it.
LEMMA CreateTaskKnows ==
  ASSUME BookInv, TypeInv, NEW k \in tasks, k.kind = "create"
  PROVE  /\ k.order \in Orders /\ Unasked(k.order)
         /\ \A l \in tasks : CreatesLater(l, k.order) => l = k
         /\ \A s \in Sessions : ~CreatesNow(s, k.order)
BY TaskTyped DEF BookInv, TaskBook, OneCreator, CreatesLater

LEMMA CreateCallBook ==
  ASSUME TypeInv, BookInv, NEW k \in tasks, CreateAccepted(k) \/ CreateUnreachable(k)
  PROVE  BookInv'
<1> DEFINE o == k.order
<1>1. k.kind = "create" /\ UNCHANGED <<orders, payments, txs>>
  BY DEF CreateAccepted, CreateUnreachable, tables
<1>2. PICK new : ReplaceTask(k, new) /\ new.kind = "create" /\ new.order = o
  BY TaskTyped DEF CreateAccepted, CreateUnreachable, Task
<1>3. tasks' = (tasks \ {k}) \cup {new}
  BY <1>2 DEF ReplaceTask
<1>4. /\ Unasked(o) /\ o \in Orders
      /\ \A l \in tasks : CreatesLater(l, o) => l = k
      /\ \A s \in Sessions : ~CreatesNow(s, o)
  BY <1>1, CreateTaskKnows
<1>5. ASSUME NEW p \in Orders PROVE OneCreator(p)'
  <2>1. OneCreator(p)
    BY DEF BookInv
  <2>2. CASE p = o
    BY <1>1, <1>3, <1>4, <2>2 DEF OneCreator, CreatesLater, CreatesNow, Running
  <2>3. CASE p # o
    BY <1>1, <1>2, <1>3, <2>1, <2>3 DEF OneCreator, CreatesLater, CreatesNow, Running
  <2>4. QED
    BY <2>2, <2>3
<1>6. \A p \in Orders : Unplaced(p)'
  BY <1>1, UnplacedStays, NothingMoves
<1>7. \A t \in Sessions : SessionBook(t)'
  BY <1>1, SessionBookStays, NothingMoves DEF BookInv
<1>8. \A l \in tasks' : TaskBook(l)'
  BY <1>1, <1>2, <1>3, <1>4 DEF BookInv, TaskBook, Unasked, Booked
<1>9. OneHook'
  BY <1>1 DEF BookInv, OneHook
<1>10. QED
  BY <1>5, <1>6, <1>7, <1>8, <1>9 DEF BookInv

\* The last retry failed: the task becomes a session.
LEMMA CompensateReadBook ==
  ASSUME TypeInv, BookInv, NEW s \in Sessions, NEW k \in tasks, CompensateRead(s, k)
  PROVE  BookInv'
<1> DEFINE o == k.order
<1>1. /\ k.kind = "create" /\ UNCHANGED <<orders, payments>>
      /\ tasks' = tasks \ {k}
  BY DEF CompensateRead, DropTask, tables
<1>2. PICK tx : Open(s, tx) /\ tx.op = "compensate" /\ tx.order = o
  <2> DEFINE tx == [IdleTx EXCEPT !.op = "compensate", !.phase = "read",
                      !.order = k.order, !.ost = orders[k.order].status,
                      !.pst = payments[k.order].status,
                      !.bal = balance, !.uses = uses]
  <2>1. tx.op = "compensate" /\ tx.order = o
    BY DEF IdleTx
  <2>2. Open(s, tx)
    BY DEF CompensateRead
  <2> HIDE DEF tx
  <2>3. QED
    BY <2>1, <2>2
<1>3. /\ Unasked(o) /\ o \in Orders
      /\ \A l \in tasks : CreatesLater(l, o) => l = k
      /\ \A t \in Sessions : ~CreatesNow(t, o)
  BY <1>1, CreateTaskKnows
<1>4. txs'[s] = tx /\ OthersStay(s)
  BY <1>2 DEF Open, OthersStay, TypeInv, TypeOK
<1>5. ASSUME NEW p \in Orders PROVE OneCreator(p)'
  <2>1. OneCreator(p)
    BY DEF BookInv
  <2>2. \A t \in Sessions \ {s} : CreatesNow(t, p)' => CreatesNow(t, p)
    BY <1>4 DEF OthersStay, CreatesNow, Running
  <2>3. CreatesNow(s, p)' => p = o
    BY <1>2, <1>4 DEF CreatesNow
  <2>4. CASE p = o
    BY <1>1, <1>3, <2>2, <2>4 DEF OneCreator, CreatesLater
  <2>5. CASE p # o
    BY <1>1, <2>1, <2>2, <2>3, <2>5 DEF OneCreator, CreatesLater
  <2>6. QED
    BY <2>4, <2>5
<1>6. \A p \in Orders : Unplaced(p)'
  BY <1>1, UnplacedStays, NothingMoves
<1>7. \A t \in Sessions : SessionBook(t)'
  <2>1. SessionBook(s)'
    BY <1>1, <1>2, <1>3, <1>4 DEF SessionBook, CreatesNow, Running, Unasked
  <2>2. QED
    BY <1>1, <1>4, <2>1, SessionBookStays, NothingMoves DEF BookInv, OthersStay
<1>8. \A l \in tasks' : TaskBook(l)'
  BY <1>1 DEF BookInv, TaskBook, Unasked, Booked
<1>9. OneHook'
  BY <1>2, <1>4, OneHookMoves
<1>10. QED
  BY <1>5, <1>6, <1>7, <1>8, <1>9 DEF BookInv

\* The order is committed: the session becomes a task.
LEMMA CheckoutEnqueueBook ==
  ASSUME TypeInv, BookInv, NEW s \in Sessions, CheckoutEnqueue(s)
  PROVE  BookInv'
<1>1. PICK o \in Orders : o = txs[s].order
  BY SessionOrder DEF CheckoutEnqueue, Running
<1>2. /\ UNCHANGED <<orders, payments>> /\ Close(s)
      /\ tasks' = tasks \cup {CreateTask(o)}
      /\ CreatesNow(s, o)
  BY <1>1 DEF CheckoutEnqueue, tables, CreatesNow
<1>3. CreateTask(o).kind = "create" /\ CreateTask(o).order = o
  BY DEF CreateTask
<1>4. OthersStay(s) /\ SessionMoves(s) /\ txs'[s] = IdleTx
  BY <1>2, CloseMoves DEF Close, TypeInv, TypeOK
<1>5. /\ Unasked(o) /\ OneCreator(o)
  BY <1>2 DEF BookInv, SessionBook, CreatesNow
<1>6. ASSUME NEW p \in Orders PROVE OneCreator(p)'
  <2>1. OneCreator(p)
    BY DEF BookInv
  <2>2. \A t \in Sessions : CreatesNow(t, p)' => CreatesNow(t, p) /\ t # s
    BY <1>4 DEF OthersStay, CreatesNow, Running, IdleTx
  <2>3. CASE p = o
    BY <1>2, <1>3, <1>5, <2>2, <2>3 DEF OneCreator, CreatesLater
  <2>4. CASE p # o
    BY <1>2, <1>3, <2>1, <2>2, <2>4 DEF OneCreator, CreatesLater
  <2>5. QED
    BY <2>3, <2>4
<1>7. \A p \in Orders : Unplaced(p)'
  BY <1>2, UnplacedStays, NothingMoves
<1>8. \A t \in Sessions : SessionBook(t)'
  BY <1>2, <1>4, SessionBookStays, NothingMoves DEF BookInv, OthersStay, SessionMoves
<1>9. \A l \in tasks' : TaskBook(l)'
  BY <1>2, <1>3, <1>5 DEF BookInv, TaskBook, Unasked, Booked
<1>10. OneHook'
  BY <1>4, OneHookMoves DEF SessionMoves
<1>11. QED
  BY <1>6, <1>7, <1>8, <1>9, <1>10 DEF BookInv
-----------------------------------------------------------------------------
(* Refund tasks, and tasks that end                                        *)

LEMMA RefundOpenReadBook ==
  ASSUME TypeInv, BookInv, NEW s \in Sessions, NEW k \in tasks,
         RefundOpenRead(s, k) \/ RefundSaveRead(s, k)
  PROVE  BookInv'
<1>1. UNCHANGED <<orders, payments>> /\ DropTask(k)
  BY DEF RefundOpenRead, RefundSaveRead, tables
<1>2. Booked(k.order)
  <2>1. CASE RefundOpenRead(s, k)
    BY <2>1 DEF RefundOpenRead, RefundAllowed, RefundSources, Booked, Settled
  <2>2. CASE RefundSaveRead(s, k)
    BY <2>2 DEF RefundSaveRead, BookInv, TaskBook
  <2>3. QED
    BY <2>1, <2>2
<1>3. PICK tx : /\ Open(s, tx) /\ tx.order = k.order
                /\ tx.op \in {"refundOpen", "refundSave"}
  <2> DEFINE open == [IdleTx EXCEPT !.op = "refundOpen", !.phase = "read",
                        !.order = k.order, !.send = k.send, !.key = k.key]
             save == [IdleTx EXCEPT !.op = "refundSave", !.phase = "read",
                        !.order = k.order, !.key = k.key, !.row = k.row,
                        !.pst = payments[k.order].status]
  <2>1. /\ open.op = "refundOpen" /\ open.order = k.order
        /\ save.op = "refundSave" /\ save.order = k.order
    BY DEF IdleTx
  <2>2. Open(s, open) \/ Open(s, save)
    BY DEF RefundOpenRead, RefundSaveRead
  <2> HIDE DEF open, save
  <2>3. QED
    BY <2>1, <2>2
<1>4. ASSUME txs'[s] = tx PROVE SessionBook(s)'
  BY <1>1, <1>2, <1>3, <1>4 DEF SessionBook, CreatesNow, Running, Booked
<1>5. OthersStay(s) /\ SessionMoves(s)
  BY <1>3, <1>4, OpenMoves
<1>6. QED
  BY <1>1, <1>5, NothingMoves, QuietBook

LEMMA RefundOpenCommitBook ==
  ASSUME TypeInv, BookInv, NEW s \in Sessions, RefundOpenCommit(s)
  PROVE  BookInv'
<1>1. UNCHANGED <<orders, payments>> /\ Close(s) /\ txs[s].op = "refundOpen"
  BY DEF RefundOpenCommit, Running
<1>2. Booked(txs[s].order)
  BY <1>1 DEF BookInv, SessionBook
<1>3. \A k \in tasks' : k \in tasks \/ (k.kind = "refund" /\ k.order = txs[s].order)
  BY DEF RefundOpenCommit
<1>4. TasksMove
  BY <1>2, <1>3 DEF TasksMove
<1>5. QED
  BY <1>1, <1>4, NothingMoves, CloseBook

LEMMA TaskStepBook ==
  ASSUME TypeInv, BookInv, NEW k \in tasks,
         \/ CreateRefused(k) \/ CompensateSkip(k) \/ RefundSkip(k)
         \/ RefundAccepted(k) \/ RefundUnreachable(k) \/ RefundFail(k)
         \/ TaskLost(k)
  PROVE  BookInv'
<1>1. UNCHANGED <<orders, payments, txs>>
  BY DEF CreateRefused, CompensateSkip, RefundSkip, RefundAccepted,
         RefundUnreachable, RefundFail, TaskLost, tables
<1>2. TasksMove
  <2>1. CASE RefundAccepted(k) \/ RefundUnreachable(k)
    <3>1. Booked(k.order) /\ k.kind = "refund"
      BY <2>1 DEF RefundAccepted, RefundUnreachable, BookInv, TaskBook
    <3>2. \A l \in tasks' : l \in tasks \/ (l.kind = "refund" /\ l.order = k.order)
      BY <2>1, <3>1, TaskTyped DEF RefundAccepted, RefundUnreachable, ReplaceTask, Task
    <3>3. QED
      BY <3>1, <3>2 DEF TasksMove
  <2>2. CASE ~(RefundAccepted(k) \/ RefundUnreachable(k))
    BY <2>2, NothingMoves DEF CreateRefused, CompensateSkip, RefundSkip, RefundFail,
                              TaskLost
  <2>3. QED
    BY <2>1, <2>2
<1>3. QED
  BY <1>1, <1>2, NothingMoves, StillBook

-----------------------------------------------------------------------------
(* The webhook reads, and ends                                             *)

LEMMA HookReadBook ==
  ASSUME TypeInv, BookInv, NEW s \in Sessions, NEW e \in Event, HookRead(s, e)
  PROVE  BookInv'
<1> DEFINE o == e.order
<1>1. UNCHANGED <<orders, payments, tasks>>
  BY DEF HookRead, ApiAndTasks, tables
<1>2. \A t \in Sessions : txs[t].op # "hook"
  BY DEF HookRead
<1>3. PICK tx : /\ Open(s, tx) /\ tx.op = "hook" /\ tx.order = o
                /\ tx.pst = IF Known(o) THEN payments[o].status ELSE "none"
  <2> DEFINE row == RefundOf(o, e.key)
             refundEvent == e.type \in {"refund.succeeded", "refund.canceled"}
             tx == [IdleTx EXCEPT
               !.op = "hook", !.phase = "read", !.order = o, !.event = e.type,
               !.key = e.key, !.ost = orders[o].status, !.bal = balance,
               !.uses = uses,
               !.pst = IF Known(o) THEN payments[o].status ELSE "none",
               !.row = IF refundEvent THEN row ELSE 0,
               !.rst = IF refundEvent THEN RefundSeen(o, row) ELSE "none"]
  <2>1. /\ tx.op = "hook" /\ tx.order = o
        /\ tx.pst = IF Known(o) THEN payments[o].status ELSE "none"
    BY DEF IdleTx
  <2>2. Open(s, tx)
    BY DEF HookRead
  <2> HIDE DEF tx
  <2>3. QED
    BY <2>1, <2>2
<1>4. txs'[s] = tx /\ OthersStay(s)
  BY <1>3 DEF Open, OthersStay, TypeInv, TypeOK
<1>5. SessionBook(s)'
  BY <1>1, <1>3, <1>4 DEF SessionBook, CreatesNow, Running, Known
<1>6. SessionMoves(s)
  BY <1>2, <1>3, <1>4, <1>5 DEF SessionMoves, CreatesNow, Running
<1>7. QED
  BY <1>1, <1>4, <1>6, NothingMoves, QuietBook

LEMMA HookEndBook ==
  ASSUME TypeInv, BookInv, NEW s \in Sessions,
         HookIgnored(s) \/ HookClearCart(s) \/ HookMark(s)
  PROVE  BookInv'
<1>1. UNCHANGED <<orders, payments, tasks>>
  BY DEF HookIgnored, HookClearCart, HookMark, ApiAndTasks, tables
<1>2. CASE HookMark(s)
  BY <1>1, <1>2, NothingMoves, CloseBook DEF HookMark
<1>3. CASE HookIgnored(s) \/ HookClearCart(s)
  <2>1. txs' = [txs EXCEPT ![s].phase = "mark"] /\ txs[s].op = "hook"
    BY <1>3 DEF HookIgnored, HookClearCart, Running
  <2>2. QED
    BY <1>1, <2>1, PhaseMoves, NothingMoves, QuietBook
<1>4. QED
  BY <1>2, <1>3

LEMMA LossBook ==
  ASSUME TypeInv, BookInv, NEW s \in Sessions, SessionLost(s) \/ IntegrityError(s)
  PROVE  BookInv'
<1>1. Close(s) /\ UNCHANGED <<orders, payments, tasks>>
  BY DEF SessionLost, IntegrityError, tables
<1>2. QED
  BY <1>1, NothingMoves, CloseBook

-----------------------------------------------------------------------------
(* Commits that write a payment                                            *)

\* Whoever else relies on the payment of order o still can.
PaymentStillTrue(s, o) ==
  /\ \A t \in Sessions \ {s} : txs[t].order = o => SessionBook(t)'
  /\ \A k \in tasks' : k.order = o => TaskBook(k)'

LEMMA PaymentBook ==
  ASSUME TypeInv, BookInv, NEW s \in Sessions, NEW o \in Orders,
         \A p \in Orders \ {o} : orders'[p] = orders[p] /\ payments'[p] = payments[p],
         Unplaced(o)', tasks' \subseteq tasks, OthersStay(s), SessionMoves(s),
         PaymentStillTrue(s, o)
  PROVE  BookInv'
<1>1. \A p \in Orders : Unplaced(p)'
  BY DEF BookInv, Unplaced
<1>2. TasksMove
  BY DEF TasksMove
<1>3. \A p \in Orders : OneCreator(p)'
  BY <1>2, OneCreatorMoves DEF SessionMoves
<1>4. ASSUME NEW t \in Sessions PROVE SessionBook(t)'
  <2>1. CASE t = s
    BY <2>1 DEF SessionMoves
  <2>2. CASE t # s /\ txs[t].order = o
    BY <2>2 DEF PaymentStillTrue
  <2>3. CASE t # s /\ txs[t].order # o
    <3>1. txs'[t] = txs[t] /\ SessionBook(t)
      BY <2>3 DEF OthersStay, BookInv
    <3>2. txs[t].op # "idle" => txs[t].order \in Orders \ {o}
      BY <2>3, SessionOrder
    <3>3. QED
      BY <3>1, <3>2 DEF SessionBook, CreatesNow, Running, Unasked, Booked
  <2>4. QED
    BY <2>1, <2>2, <2>3
<1>5. ASSUME NEW k \in tasks' PROVE TaskBook(k)'
  <2>1. CASE k.order = o
    BY <2>1 DEF PaymentStillTrue
  <2>2. CASE k.order # o
    <3>1. k \in tasks /\ TaskBook(k) /\ k.order \in Orders
      BY TaskTyped DEF BookInv
    <3>2. QED
      BY <2>2, <3>1 DEF TaskBook, Unasked, Booked
  <2>3. QED
    BY <2>1, <2>2
<1>6. OneHook'
  BY OneHookMoves DEF SessionMoves
<1>7. QED
  BY <1>1, <1>3, <1>4, <1>5, <1>6 DEF BookInv
LEMMA UnplacedIsFree ==
  ASSUME TypeInv, BookInv, NEW o \in Orders, orders[o].status = "none"
  PROVE  /\ orders[o].total = 0 /\ payments[o].status = "none"
         /\ ~Unasked(o) /\ ~Booked(o)
         /\ \A t \in Sessions : ~CreatesNow(t, o)
         /\ \A k \in tasks : ~CreatesLater(k, o)
<1>1. /\ orders[o].total = 0
      /\ payments[o] = [status |-> "none", linked |-> FALSE]
  BY DEF BookInv, Unplaced
<1>2. ~Unasked(o) /\ ~Booked(o)
  BY <1>1 DEF Unasked, Booked
<1>3. \A t \in Sessions : ~CreatesNow(t, o)
  BY <1>2 DEF BookInv, SessionBook, CreatesNow
<1>4. \A k \in tasks : ~CreatesLater(k, o)
  BY <1>2 DEF BookInv, TaskBook, CreatesLater
<1>5. QED
  BY <1>1, <1>2, <1>3, <1>4

\* A new order: its checkout is the first to create its payment.
LEMMA CheckoutCommitBook ==
  ASSUME TypeInv, BookInv, NEW s \in Sessions, CheckoutCommit(s)
  PROVE  BookInv'
<1>1. PICK o \in Orders : o = txs[s].order
  BY SessionOrder DEF CheckoutCommit, Running
<1> DEFINE total == OrderTotal(o, txs[s].bal)
           points == AppliedPoints(o, txs[s].bal)
<1>2. /\ orders[o].status = "none" /\ txs[s].op = "checkout"
      /\ orders' = [orders EXCEPT ![o] =
           [status |-> IF total = 0 THEN "PAID" ELSE "CREATED",
            cancelled_by |-> "nobody", points_used |-> points,
            total |-> total]]
      /\ payments' = [payments EXCEPT ![o] =
           [status |-> IF total = 0 THEN "SUCCEEDED" ELSE "PENDING",
            linked |-> FALSE]]
      /\ txs' = [txs EXCEPT ![s].phase =
                              IF total = 0 THEN "clear" ELSE "enqueue"]
      /\ UNCHANGED tasks
  BY <1>1 DEF CheckoutCommit, Running
<1> HIDE DEF total, points
<1>3. /\ orders'[o].status # "none"
      /\ payments'[o] = [status |-> IF total = 0 THEN "SUCCEEDED" ELSE "PENDING",
                         linked |-> FALSE]
      /\ \A p \in Orders \ {o} : orders'[p] = orders[p] /\ payments'[p] = payments[p]
  BY <1>2 DEF TypeInv, TypeOK
<1>4. /\ txs'[s].op = "checkout" /\ txs'[s].order = o
      /\ txs'[s].phase = IF total = 0 THEN "clear" ELSE "enqueue"
      /\ OthersStay(s)
  BY <1>1, <1>2 DEF OthersStay, TypeInv, TypeOK, Tx
<1>5. /\ \A t \in Sessions : ~CreatesNow(t, o)
      /\ \A k \in tasks : ~CreatesLater(k, o)
      /\ ~Booked(o) /\ ~payments[o].linked
  BY <1>2, UnplacedIsFree DEF BookInv, Unplaced
<1>6. ASSUME NEW p \in Orders PROVE OneCreator(p)'
  <2>1. OneCreator(p)
    BY DEF BookInv
  <2>2. \A t \in Sessions \ {s} : CreatesNow(t, p)' => CreatesNow(t, p)
    BY <1>4 DEF OthersStay, CreatesNow, Running
  <2>3. CreatesNow(s, p)' => p = o
    BY <1>4 DEF CreatesNow
  <2>4. CASE p = o
    BY <1>2, <1>5, <2>2, <2>4 DEF OneCreator, CreatesLater
  <2>5. CASE p # o
    BY <1>2, <2>1, <2>2, <2>3, <2>5 DEF OneCreator, CreatesLater
  <2>6. QED
    BY <2>4, <2>5
<1>7. \A p \in Orders : Unplaced(p)'
  BY <1>3 DEF BookInv, Unplaced
<1>8. ASSUME NEW t \in Sessions PROVE SessionBook(t)'
  <2>1. CASE t = s
    BY <1>3, <1>4, <2>1 DEF SessionBook, CreatesNow, Running, Unasked
  <2>2. CASE t # s
    <3>1. txs'[t] = txs[t] /\ SessionBook(t)
      BY <1>4, <2>2 DEF OthersStay, BookInv
    <3>2. txs[t].op # "idle" => txs[t].order \in Orders
      BY SessionOrder
    <3>3. CASE txs[t].order = o
      BY <1>3, <1>5, <3>1, <3>3 DEF SessionBook, CreatesNow, Running, Unasked, Booked
    <3>4. CASE txs[t].order # o
      BY <1>3, <3>1, <3>2, <3>4 DEF SessionBook, CreatesNow, Running, Unasked, Booked
    <3>5. QED
      BY <3>3, <3>4
  <2>3. QED
    BY <2>1, <2>2
<1>9. ASSUME NEW k \in tasks' PROVE TaskBook(k)'
  <2>1. k \in tasks /\ TaskBook(k) /\ k.order \in Orders
    BY <1>2, TaskTyped DEF BookInv
  <2>2. k.order # o => payments'[k.order] = payments[k.order]
    BY <1>3, <2>1
  <2>3. QED
    BY <1>5, <2>1, <2>2 DEF TaskBook, Unasked, Booked, CreatesLater
<1>10. OneHook'
  BY <1>4, OneHookMoves
<1>11. QED
  BY <1>6, <1>7, <1>8, <1>9, <1>10 DEF BookInv

\* What the writers of a payment have in common.
LEMMA PaymentWritten ==
  ASSUME TypeInv, NEW o \in Orders, NEW status, SetPayment(o, status)
  PROVE  /\ payments'[o].status = status
         /\ payments'[o].linked = payments[o].linked
         /\ \A p \in Orders \ {o} : payments'[p] = payments[p]
BY DEF SetPayment, TypeInv, TypeOK, PaymentRow

\* The creator writes: the payment was unasked, so only he relied on it.
LEMMA CreateSaveBook ==
  ASSUME TypeInv, BookInv, NEW k \in tasks, CreateSave(k)
  PROVE  BookInv'
<1> DEFINE o == k.order
<1>1. /\ k.kind = "create" /\ UNCHANGED <<orders, txs>> /\ tasks' = tasks \ {k}
      /\ payments' = [payments EXCEPT ![o] =
           [status |-> "AWAITING_CONFIRMATION", linked |-> TRUE]]
  BY DEF CreateSave, DropTask
<1>2. PICK s \in Sessions : txs[s] = IdleTx
  BY DEF CreateSave, SessionFree
<1>3. /\ Unasked(o) /\ o \in Orders
      /\ \A l \in tasks : CreatesLater(l, o) => l = k
      /\ \A t \in Sessions : ~CreatesNow(t, o)
  BY <1>1, CreateTaskKnows
<1>4. \A p \in Orders \ {o} : orders'[p] = orders[p] /\ payments'[p] = payments[p]
  BY <1>1, <1>3 DEF TypeInv, TypeOK
<1>5. Unplaced(o)'
  BY <1>1, <1>3 DEF BookInv, Unplaced, Unasked
<1>6. OthersStay(s) /\ SessionMoves(s)
  BY <1>1, <1>2 DEF OthersStay, SessionMoves, SessionBook, CreatesNow, Running, IdleTx
<1>7. PaymentStillTrue(s, o)
  <2>1. ~Booked(o) /\ ~payments[o].linked
    BY <1>3 DEF Unasked, Booked
  <2>2. ASSUME NEW t \in Sessions, txs[t].order = o PROVE SessionBook(t)'
    BY <1>1, <1>3, <2>1, <2>2 DEF BookInv, SessionBook, CreatesNow, Running
  <2>3. ASSUME NEW l \in tasks', l.order = o PROVE TaskBook(l)'
    BY <1>1, <1>3, <2>1, <2>3 DEF BookInv, TaskBook, CreatesLater
  <2>4. QED
    BY <2>2, <2>3 DEF PaymentStillTrue
<1> HIDE DEF o
<1>8. QED
  BY <1>1, <1>3, <1>4, <1>5, <1>6, <1>7, PaymentBook

LEMMA CompensateCommitBook ==
  ASSUME TypeInv, BookInv, NEW s \in Sessions, CompensateCommit(s)
  PROVE  BookInv'
<1>1. PICK o \in Orders : o = txs[s].order
  BY SessionOrder DEF CompensateCommit, Running
<1>2. /\ SetPayment(o, "PAYMENT_FAILED") /\ Close(s) /\ UNCHANGED tasks
      /\ SetOrder(o, "CANCELLED") \/ UNCHANGED orders
      /\ CreatesNow(s, o)
  BY <1>1 DEF CompensateCommit, FailOrder, CreatesNow, Running
<1>3. Unasked(o) /\ OneCreator(o)
  BY <1>2 DEF BookInv, SessionBook, CreatesNow
<1>4. /\ payments'[o].status = "PAYMENT_FAILED"
      /\ \A p \in Orders \ {o} : payments'[p] = payments[p]
  BY <1>2, PaymentWritten
<1>5. /\ orders'[o].status = "CANCELLED" \/ orders' = orders
      /\ \A p \in Orders \ {o} : orders'[p] = orders[p]
  BY <1>2, SetOrderStays DEF OrderStatus
<1>6. Unplaced(o)'
  BY <1>3, <1>5 DEF BookInv, Unplaced, Unasked
<1>7. OthersStay(s) /\ SessionMoves(s)
  BY <1>2, CloseMoves
<1>8. PaymentStillTrue(s, o)
  <2>1. ~Booked(o) /\ ~payments[o].linked
    BY <1>3 DEF Unasked, Booked
  <2>2. ASSUME NEW t \in Sessions \ {s}, txs[t].order = o PROVE SessionBook(t)'
    <3>1. txs'[t] = txs[t] /\ ~CreatesNow(t, o) /\ SessionBook(t)
      BY <1>2, <1>3, <1>7 DEF OneCreator, OthersStay, BookInv
    <3>2. txs[t].op = "cancel" => orders'[o].status # "none"
      BY <1>5, <2>2, <3>1 DEF SessionBook
    <3>3. QED
      BY <2>1, <2>2, <3>1, <3>2 DEF SessionBook, CreatesNow, Running
  <2>3. ASSUME NEW k \in tasks', k.order = o PROVE TaskBook(k)'
    BY <1>2, <1>3, <2>1, <2>3 DEF BookInv, TaskBook, CreatesLater, OneCreator
  <2>4. QED
    BY <2>2, <2>3 DEF PaymentStillTrue
<1>9. QED
  BY <1>2, <1>4, <1>5, <1>6, <1>7, <1>8, PaymentBook

\* A refund that YuKassa accepted: the payment was booked and stays booked,
\* whatever became of it since the task read its status.
LEMMA RefundSaveBook ==
  ASSUME TypeInv, BookInv, NEW s \in Sessions, RefundSaveCommit(s)
  PROVE  BookInv'
<1>1. PICK o \in Orders : o = txs[s].order
  BY SessionOrder DEF RefundSaveCommit, Running
<1>2. /\ Close(s) /\ txs[s].op = "refundSave" /\ UNCHANGED <<orders, tasks>>
      /\ SetPayment(o, "REFUND_PENDING") \/ UNCHANGED payments
  BY <1>1 DEF RefundSaveCommit, Running
<1>3. CASE UNCHANGED payments
  BY <1>2, <1>3, NothingMoves, CloseBook
<1>4. CASE SetPayment(o, "REFUND_PENDING")
  <2>1. Booked(o) /\ orders[o].status # "none"
    BY <1>1, <1>2 DEF BookInv, SessionBook, Booked, Unplaced
  <2>2. /\ Booked(o)' /\ payments'[o].status = "REFUND_PENDING"
        /\ \A p \in Orders \ {o} : payments'[p] = payments[p]
    BY <1>4, <2>1, PaymentWritten DEF Booked, Settled
  <2>3. OthersStay(s) /\ SessionMoves(s) /\ Unplaced(o)'
    BY <1>2, <2>1, CloseMoves DEF Unplaced
  <2>4. PaymentStillTrue(s, o)
    <3>1. ASSUME NEW t \in Sessions \ {s}, txs[t].order = o PROVE SessionBook(t)'
      <4>1. txs'[t] = txs[t] /\ SessionBook(t)
        BY <2>3 DEF OthersStay, BookInv
      <4>2. QED
        BY <1>2, <2>1, <2>2, <3>1, <4>1
           DEF SessionBook, CreatesNow, Running, Unasked, Booked, Settled
    <3>2. ASSUME NEW k \in tasks', k.order = o PROVE TaskBook(k)'
      BY <1>2, <2>1, <2>2, <3>2 DEF BookInv, TaskBook, Unasked, Booked, Settled
    <3>3. QED
      BY <3>1, <3>2 DEF PaymentStillTrue
  <2>5. QED
    BY <1>2, <2>2, <2>3, <2>4, PaymentBook
<1>5. QED
  BY <1>2, <1>3, <1>4

\* The webhook, of which there is one at a time, settles a payment: what it
\* read of the row is still there, because nobody else writes one that waits
\* for its confirmation, or that has a refund under way, to anything else.
LEMMA HookWriteBook ==
  ASSUME TypeInv, BookInv, NEW s \in Sessions, NEW o \in Orders, o = txs[s].order,
         Running(s, "hook", "read"), NEW status, SetPayment(o, status),
         \/ txs[s].pst = "AWAITING_CONFIRMATION"
         \/ txs[s].pst = "REFUND_PENDING" /\ status \in Settled,
         orders'[o].status # "none" \/ orders' = orders,
         \A p \in Orders \ {o} : orders'[p] = orders[p],
         NEW phase \in {"clear", "mark"}, txs' = [txs EXCEPT ![s].phase = phase],
         UNCHANGED tasks
  PROVE  BookInv'
<1>1. payments[o].linked /\ payments[o].status = txs[s].pst
  BY DEF BookInv, SessionBook
<1>2. /\ payments'[o].status = status /\ payments'[o].linked
      /\ \A p \in Orders \ {o} : payments'[p] = payments[p]
  BY <1>1, PaymentWritten
<1>3. Unplaced(o)'
  BY <1>1 DEF BookInv, Unplaced
<1>4. OthersStay(s) /\ SessionMoves(s)
  BY PhaseMoves DEF Running
<1>5. ~Unasked(o) /\ (Booked(o) => Booked(o)')
  BY <1>1, <1>2 DEF Unasked, Booked, Settled
<1>6. PaymentStillTrue(s, o)
  <2>1. ASSUME NEW t \in Sessions \ {s}, txs[t].order = o PROVE SessionBook(t)'
    <3>1. txs'[t] = txs[t] /\ SessionBook(t) /\ txs[t].op # "hook"
      BY <1>4 DEF OthersStay, BookInv, OneHook, Running
    <3>2. txs[t].op = "cancel" => orders'[o].status # "none"
      BY <2>1, <3>1 DEF SessionBook
    <3>3. QED
      BY <1>5, <2>1, <3>1, <3>2 DEF SessionBook, CreatesNow, Running
  <2>2. ASSUME NEW k \in tasks', k.order = o PROVE TaskBook(k)'
    BY <1>5, <2>2 DEF BookInv, TaskBook
  <2>3. QED
    BY <2>1, <2>2 DEF PaymentStillTrue
<1>7. QED
  BY <1>2, <1>3, <1>4, <1>6, PaymentBook

LEMMA HookStepBook ==
  ASSUME TypeInv, BookInv, NEW s \in Sessions,
         \/ HookPaid(s) \/ HookUnpaid(s) \/ HookUnpaidCancelled(s)
         \/ HookRefunded(s) \/ HookRefundCanceled(s)
  PROVE  BookInv'
<1>1. /\ Running(s, "hook", "read") /\ UNCHANGED tasks
  BY DEF HookPaid, HookUnpaid, HookUnpaidCancelled, HookRefunded,
         HookRefundCanceled, SettleRefund, Saw, ApiAndTasks
<1>2. PICK o \in Orders : o = txs[s].order
  BY <1>1, SessionOrder DEF Running
<1>3. CASE HookPaid(s)
  <2>1. /\ SetPayment(o, "SUCCEEDED") /\ SetOrder(o, "PAID")
        /\ txs[s].pst = "AWAITING_CONFIRMATION"
        /\ txs' = [txs EXCEPT ![s].phase = "clear"]
    BY <1>2, <1>3 DEF HookPaid, SeesOpenPayment
  <2>2. QED
    BY <1>1, <1>2, <2>1, SetOrderStays, HookWriteBook DEF OrderStatus
<1>4. CASE HookUnpaid(s)
  <2>1. /\ SetPayment(o, "PAYMENT_FAILED") /\ SetOrder(o, "CANCELLED")
        /\ txs[s].pst = "AWAITING_CONFIRMATION"
        /\ txs' = [txs EXCEPT ![s].phase = "mark"]
    BY <1>2, <1>4 DEF HookUnpaid, SeesOpenPayment
  <2>2. QED
    BY <1>1, <1>2, <2>1, SetOrderStays, HookWriteBook DEF OrderStatus
<1>5. CASE HookUnpaidCancelled(s)
  <2>1. /\ SetPayment(o, "PAYMENT_FAILED") /\ UNCHANGED orders
        /\ txs[s].pst = "AWAITING_CONFIRMATION"
        /\ txs' = [txs EXCEPT ![s].phase = "mark"]
    BY <1>2, <1>5 DEF HookUnpaidCancelled, SeesCancelledOrder
  <2>2. QED
    BY <1>1, <1>2, <2>1, HookWriteBook
<1>6. CASE HookRefunded(s) \/ HookRefundCanceled(s)
  <2>1. PICK status \in Settled : SetPayment(o, status)
    BY <1>2, <1>6 DEF HookRefunded, HookRefundCanceled, SettleRefund, Settled
  <2>2. /\ UNCHANGED orders /\ txs[s].pst = "REFUND_PENDING"
        /\ txs' = [txs EXCEPT ![s].phase = "mark"]
    BY <1>6 DEF HookRefunded, HookRefundCanceled, SettleRefund, SeesPendingRefund
  <2>3. QED
    BY <1>1, <1>2, <2>1, <2>2, HookWriteBook
<1>7. QED
  BY <1>3, <1>4, <1>5, <1>6

-----------------------------------------------------------------------------
(* BookInv is inductive                                                    *)

LEMMA YuKassaBook ==
  ASSUME TypeInv, BookInv, YuKassaStep
  PROVE  BookInv'
<1>1. UNCHANGED <<orders, payments, tasks, txs>>
  BY DEF YuKassaStep, ChargePaid, ChargeCanceled, RefundResolved, Around, tables
<1>2. QED
  BY <1>1, NothingMoves, StillBook

LEMMA InitBook == Init => BookInv
BY DEF Init, BookInv, Unplaced, OneCreator, CreatesLater, CreatesNow, Running,
       SessionBook, OneHook, IdleTx

LEMMA NextBook == TypeInv /\ MoneyInv /\ BookInv /\ [Next]_vars => BookInv'
<1> SUFFICES ASSUME TypeInv, MoneyInv, BookInv, [Next]_vars PROVE BookInv'
  OBVIOUS
<1>1. ASSUME NEW s \in Sessions, Begin(s)
      PROVE  BookInv'
  <2>1. CASE WorkerBegin(s)
    BY <2>1, CompensateReadBook, RefundOpenReadBook DEF WorkerBegin
  <2>2. QED
    BY <1>1, <2>1, CoreApiBeginBook, HookReadBook DEF Begin, HookBegin
<1>2. ASSUME NEW s \in Sessions, Step(s) \/ SessionLost(s)
      PROVE  BookInv'
  <2>1. CASE CoreApiStep(s)
    BY <2>1, CheckoutCommitBook, CheckoutEnqueueBook, CancelFlushBook,
       CoreApiCommitBook DEF CoreApiStep
  <2>2. CASE WorkerStep(s)
    BY <2>2, CompensateCommitBook, RefundOpenCommitBook, RefundSaveBook
       DEF WorkerStep
  <2>3. CASE HookStep(s)
    BY <2>3, HookStepBook, HookEndBook DEF HookStep
  <2>4. CASE IntegrityError(s) \/ SessionLost(s)
    BY <2>4, LossBook
  <2>5. QED
    BY <1>2, <2>1, <2>2, <2>3, <2>4 DEF Step
<1>3. CASE CoreApiAtomic
  BY <1>3, CoreApiAtomicBook
<1>4. CASE TaskStep \/ \E k \in tasks : TaskLost(k)
  BY <1>4, CreateCallBook, CreateSaveBook, TaskStepBook DEF TaskStep
<1>5. CASE YuKassaStep
  BY <1>5, YuKassaBook
<1>6. CASE UNCHANGED vars
  <2>1. UNCHANGED <<orders, payments, tasks, txs>>
    BY <1>6 DEF vars, tables
  <2>2. QED
    BY <2>1, NothingMoves, StillBook
<1>7. QED
  BY <1>1, <1>2, <1>3, <1>4, <1>5, <1>6 DEF Next

\* Whoever is about to write a payment has seen what is still there, or finds
\* it further on and still booked.
THEOREM BookKnown == Spec => []BookInv
BY InitTyped, NextTyped, InitKnows, NextKnows, InitBook, NextBook, PTL DEF Spec

=============================================================================
