----------------------------- MODULE ShopTables -----------------------------
(***************************************************************************)
(* The shared state of Aura Coffee: the PostgreSQL rows that core-api,     *)
(* payment-worker and the YuKassa webhook read and write, the Redis keys   *)
(* they use, the Celery broker, and the database transactions in progress. *)
(*                                                                         *)
(* Every SQLAlchemy session runs at READ COMMITTED and reads most rows     *)
(* without a lock.  A handler is therefore (at least) two steps: one that  *)
(* reads rows and evaluates its guards, and one that commits its writes.   *)
(* txs[s] is what session s has read; any other commit may come between.   *)
(*                                                                         *)
(* One customer, one finite menu item and one promocode: they are the rows *)
(* that different orders contend for.                                      *)
(***************************************************************************)
EXTENDS Integers, Sequences, FiniteSets

CONSTANTS
  Orders,          \* order identifiers
  Sessions,        \* database sessions that may be open at the same time
  Couriers,        \* staff accounts with the courier role
  Requests,        \* what a checkout may ask for, see Request
  InitialStock,    \* menu_items.inventory_quantity of the finite item
  InitialBalance,  \* loyalty_accounts.balance of the customer
  MaxUses,         \* promocodes.max_uses
  MaxUsesPerUser,  \* promocodes.max_uses_per_user
  LoyaltyPercent,  \* shop_settings.loyalty_percent
  RefundQueue,     \* queue in which a send_task without queue= ends up
  MaxRetries,      \* retries of create_payment (3 in the code)
  MaxSends,        \* bound: initiate_refund tasks sent per order
  MaxCrashes,      \* bound: process crashes
  NoOrder,         \* "no row"
  NoCourier

VARIABLES
  req,             \* req[o]: what the customer asks for in checkout o
  orders,          \* table orders
  payments,        \* table payments (1:1 with orders)
  refunds,         \* table refunds, per order in order of created_at
  assignments,     \* table delivery_assignments (at most one per order)
  stock,           \* menu_items.inventory_quantity
  balance,         \* loyalty_accounts.balance
  ledger,          \* table loyalty_transactions, in order of created_at
  uses,            \* promocodes.current_uses
  usages,          \* orders with a promocode_usages row
  notes,           \* table notifications: <<order, status>> told in-app
  cart,            \* Redis cart:{user_id} holds items
  handled,         \* Redis yukassa:event:{id} keys
  tasks,           \* Celery tasks: queued in the broker or being executed
  sends,           \* sends[o]: initiate_refund tasks sent so far
  charge,          \* charge[o]: the YuKassa payment of order o
  returned,        \* returned[o][k]: the YuKassa refund with key k
  txs,             \* txs[s]: the transaction open in session s
  crashes          \* crashes so far

tables == <<orders, payments, refunds, assignments, stock, balance, ledger,
            uses, usages, notes>>
yukassa == <<charge, returned>>
vars == <<req, orders, payments, refunds, assignments, stock, balance, ledger,
          uses, usages, notes, cart, handled, tasks, sends, charge, returned,
          txs, crashes>>

-----------------------------------------------------------------------------
(* Status columns.  "none" is a row that does not exist.                   *)

OrderStatus == {"CREATED", "PAID", "PREPARING", "READY", "IN_DELIVERY",
                "COMPLETED", "CANCELLED"}
PaymentStatus == {"PENDING", "AWAITING_CONFIRMATION", "SUCCEEDED",
                  "PAYMENT_FAILED", "REFUND_PENDING", "REFUNDED",
                  "REFUND_FAILED"}
RefundStatus == {"PENDING", "SUCCEEDED", "FAILED"}
AssignmentStatus == {"AWAITING_COURIER", "COURIER_ASSIGNED", "PICKED_UP",
                     "DELIVERED", "CANCELLED"}
LedgerType == {"ACCRUAL", "REDEMPTION", "REVERSAL", "RESERVATION",
               "ADMIN_ADJUSTMENT"}
ChargeStatus == {"none", "pending", "succeeded", "canceled"}
EventType == {"payment.succeeded", "payment.canceled",
              "refund.succeeded", "refund.canceled"}

\* Mutant of AllowedTransitions: the kitchen may start an unpaid order.
UnpaidTransitions ==
  {<<"CREATED", "PREPARING">>, <<"PAID", "PREPARING">>,
   <<"PAID", "CANCELLED">>, <<"PREPARING", "READY">>,
   <<"PREPARING", "CANCELLED">>, <<"READY", "IN_DELIVERY">>,
   <<"READY", "COMPLETED">>, <<"READY", "CANCELLED">>,
   <<"IN_DELIVERY", "COMPLETED">>}

\* order_lifecycle.py: the pairs that some staff role may take.
AllowedTransitions ==
  {<<"PAID", "PREPARING">>, <<"PAID", "CANCELLED">>,
   <<"PREPARING", "READY">>, <<"PREPARING", "CANCELLED">>,
   <<"READY", "IN_DELIVERY">>, <<"READY", "COMPLETED">>,
   <<"READY", "CANCELLED">>, <<"IN_DELIVERY", "COMPLETED">>}

\* Mutants of AdminForbidden: one status is missing.
AdminMayCancelTwice == {"IN_DELIVERY", "COMPLETED"}
AdminMayCancelDelivery == {"COMPLETED", "CANCELLED"}

AdminForbidden == {"IN_DELIVERY", "COMPLETED", "CANCELLED"}
InventoryRestoreStatuses == {"CREATED", "PAID"}
RefundSources == {"SUCCEEDED", "REFUND_FAILED"}

-----------------------------------------------------------------------------
(* Rows.  A refund key is 0 for the deterministic key of a cancellation,   *)
(* and the number of the send for the fresh key of an admin retry; YuKassa *)
(* makes one refund per key, so the key also names the refund.             *)

Keys == 0 .. MaxSends - 1
NoKey == -1

\* price: goods after promocode; fee: delivery; points: the client's
\* points_to_use; qty: units of the finite item.
Request == [type : {"PICKUP", "DELIVERY"}, price : Nat, fee : Nat,
            points : Nat, promo : BOOLEAN, qty : Nat]

OrderRow == [status : OrderStatus \cup {"none"},
             cancelled_by : {"nobody", "customer", "admin"},
             points_used : Nat, total : Nat]
PaymentRow == [status : PaymentStatus \cup {"none"}, linked : BOOLEAN]
RefundRow == [status : RefundStatus, key : Keys \cup {NoKey}]
AssignmentRow == [status : AssignmentStatus \cup {"none"},
                  courier : Couriers \cup {NoCourier}]
LedgerRow == [order : Orders \cup {NoOrder}, type : LedgerType, amount : Int,
              after : Int]

\* A Celery task; phase follows the body of the task function.
Task == [kind : {"create", "refund"}, order : Orders,
         queue : {"payments", "celery"}, send : Nat, key : Keys,
         phase : {"queued", "calling", "accepted", "failed"},
         try : Nat, row : Nat]

Event == [type : EventType, order : Orders, key : Keys]

\* A transaction and what it has read: order, payment and refund status,
\* balance, promocode counter.  phase "read": nothing flushed yet; "locked":
\* rows flushed and locked, not committed; later phases come after commit.
Tx == [op : {"idle", "checkout", "cancel", "transition", "courier",
             "compensate", "refundOpen", "refundSave", "hook"},
       phase : {"none", "read", "locked", "enqueue", "clear", "mark"},
       order : Orders \cup {NoOrder},
       ost : OrderStatus \cup {"none"},
       pst : PaymentStatus \cup {"none"},
       rst : RefundStatus \cup {"none"},
       to : OrderStatus \cup {"none"},
       by : {"nobody", "customer", "admin"},
       event : EventType \cup {"none"},
       bal : Nat, uses : Nat, send : Nat, key : Keys, row : Nat]

IdleTx == [op |-> "idle", phase |-> "none", order |-> NoOrder,
           ost |-> "none", pst |-> "none", rst |-> "none", to |-> "none",
           by |-> "nobody", event |-> "none",
           bal |-> 0, uses |-> 0, send |-> 0, key |-> 0, row |-> 0]

ASSUME ConstantsOK ==
  /\ Requests \subseteq Request
  /\ InitialStock \in Nat /\ InitialBalance \in Nat
  /\ MaxUses \in Nat /\ MaxUsesPerUser \in Nat
  /\ LoyaltyPercent \in 0 .. 100
  /\ RefundQueue \in {"payments", "celery"}
  /\ MaxRetries \in Nat /\ MaxSends \in Nat \ {0} /\ MaxCrashes \in Nat
  /\ NoOrder \notin Orders /\ NoCourier \notin Couriers

TypeOK ==
  /\ req \in [Orders -> Requests]
  /\ orders \in [Orders -> OrderRow]
  /\ payments \in [Orders -> PaymentRow]
  /\ refunds \in [Orders -> Seq(RefundRow)]
  /\ assignments \in [Orders -> AssignmentRow]
  /\ stock \in Nat /\ balance \in Nat /\ uses \in Nat
  /\ ledger \in Seq(LedgerRow)
  /\ usages \subseteq Orders
  /\ notes \subseteq (Orders \X (OrderStatus \cup {"REFUND_FAILED"}))
  /\ cart \in BOOLEAN
  /\ handled \subseteq Event
  /\ tasks \subseteq Task
  /\ sends \in [Orders -> Nat]
  /\ charge \in [Orders -> ChargeStatus]
  /\ returned \in [Orders -> [Keys -> ChargeStatus]]
  /\ txs \in [Sessions -> Tx]
  /\ crashes \in 0 .. MaxCrashes

-----------------------------------------------------------------------------
(* Sessions                                                                *)

Open(s, tx) == txs[s] = IdleTx /\ txs' = [txs EXCEPT ![s] = tx]
Close(s) == txs' = [txs EXCEPT ![s] = IdleTx]
Running(s, op, phase) == txs[s].op = op /\ txs[s].phase = phase

\* A transaction that the model takes in one step needs a session too.
SessionFree == \E s \in Sessions : txs[s] = IdleTx

\* cancel_order keeps its row locks from its flushes to its commit, with the
\* Celery send in between; nobody else writes those rows meanwhile.
RowsUnlocked(s) == \A t \in Sessions \ {s} : txs[t].phase # "locked"

\* A Python read-modify-write of loyalty_accounts.balance reads without a
\* lock somewhere between the session's first SELECT and its flush.
BalanceReads(s) == {txs[s].bal, balance}
UsesReads(s) == {txs[s].uses, uses}

\* PAID -> PREPARING of a delivery order inserts the assignment.
StartsDelivery(s) ==
  /\ txs[s].op = "transition" /\ txs[s].ost = "PAID"
  /\ txs[s].to = "PREPARING" /\ req[txs[s].order].type = "DELIVERY"

\* The session writes a refund's id into its row.
WritesRefundKey(s) ==
  \/ txs[s].op = "refundSave"
  \/ /\ txs[s].op = "hook" /\ txs[s].phase = "read"
     /\ txs[s].event \in {"refund.succeeded", "refund.canceled"}
     /\ txs[s].pst = "REFUND_PENDING" /\ txs[s].rst = "PENDING"

\* UNIQUE: delivery_assignments.order_id, refunds.yukassa_refund_id.
ViolatesUnique(s) ==
  LET o == txs[s].order IN
  \/ StartsDelivery(s) /\ assignments[o].status # "none"
  \/ /\ WritesRefundKey(s)
     /\ \E i \in DOMAIN refunds[o] :
          i # txs[s].row /\ refunds[o][i].key = txs[s].key

\* IntegrityError: the transaction is rolled back.
IntegrityError(s) ==
  /\ txs[s].op # "idle"
  /\ ViolatesUnique(s)
  /\ Close(s)
  /\ UNCHANGED <<req, tables, cart, handled, tasks, sends, yukassa, crashes>>

-----------------------------------------------------------------------------
(* Effects on the rows that orders share                                   *)

AppliedPoints(o, bal) ==
  LET r == req[o]
      wanted == IF r.points < bal THEN r.points ELSE bal
  IN  IF wanted < r.price THEN wanted ELSE r.price

OrderTotal(o, bal) == req[o].price - AppliedPoints(o, bal) + req[o].fee

LatestBalance == IF ledger = <<>> THEN 0 ELSE ledger[Len(ledger)].after

LedgerEntry(o, type, amount, after) ==
  [order |-> o, type |-> type, amount |-> amount, after |-> after]

RestoreInventory(o) == stock' = stock + req[o].qty

\* Mutant of ReturnPromocode: the usage row stays.
ReturnPromocodeCounterOnly(o) ==
  /\ uses' = IF req[o].promo /\ uses > 0 THEN uses - 1 ELSE uses
  /\ UNCHANGED usages

\* order_cancel._return_promocode: conditional UPDATE and DELETE of the row.
ReturnPromocode(o) ==
  /\ uses' = IF req[o].promo /\ uses > 0 THEN uses - 1 ELSE uses
  /\ usages' = usages \ {o}

\* The payment path: a read-modify-write of the counter; the row stays.
DecrementPromocode(s, o) ==
  /\ IF req[o].promo
     THEN \E seen \in UsesReads(s) :
            uses' = IF seen > 0 THEN seen - 1 ELSE uses
     ELSE uses' = uses
  /\ UNCHANGED usages

\* Mutant of ReversePoints: the account is forgotten.
ReversePointsLedgerOnly(o, bal) ==
  /\ ledger' = IF orders[o].points_used > 0
               THEN Append(ledger, LedgerEntry(o, "REVERSAL",
                      orders[o].points_used, bal + orders[o].points_used))
               ELSE ledger
  /\ UNCHANGED balance

\* order_cancel._reverse_points from the balance the session has read.
ReversePoints(o, bal) ==
  IF orders[o].points_used > 0
  THEN /\ balance' = bal + orders[o].points_used
       /\ ledger' = Append(ledger, LedgerEntry(o, "REVERSAL",
                      orders[o].points_used, bal + orders[o].points_used))
  ELSE UNCHANGED <<balance, ledger>>

\* The payment path appends the REVERSAL and leaves the account alone.
ReverseInLedger(o) ==
  /\ ledger' = IF orders[o].points_used > 0
               THEN Append(ledger, LedgerEntry(o, "REVERSAL",
                      orders[o].points_used,
                      LatestBalance + orders[o].points_used))
               ELSE ledger
  /\ UNCHANGED balance

Accrual(o) == ((orders[o].total - req[o].fee) * LoyaltyPercent) \div 100

\* order_lifecycle._accrue_loyalty from a balance that the session may read.
AccrueLoyalty(o, reads) ==
  IF Accrual(o) > 0
  THEN \E bal \in reads :
         /\ balance' = bal + Accrual(o)
         /\ ledger' = Append(ledger, LedgerEntry(o, "ACCRUAL", Accrual(o),
                                                 bal + Accrual(o)))
  ELSE UNCHANGED <<balance, ledger>>

ConfirmReservation(o) ==
  ledger' = [i \in DOMAIN ledger |->
              IF ledger[i].order = o /\ ledger[i].type = "RESERVATION"
              THEN [ledger[i] EXCEPT !.type = "REDEMPTION"] ELSE ledger[i]]

SetOrder(o, status) == orders' = [orders EXCEPT ![o].status = status]
SetPayment(o, status) == payments' = [payments EXCEPT ![o].status = status]
Notify(o, status) == notes' = notes \cup {<<o, status>>}

=============================================================================
