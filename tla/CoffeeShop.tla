----------------------------- MODULE CoffeeShop -----------------------------
(***************************************************************************)
(* Aura Coffee's order and payment core: core-api, the payment worker and  *)
(* the YuKassa webhook over one database, one broker and one Redis.        *)
(***************************************************************************)
EXTENDS CoreApi, PaymentWorker, Webhook

Init ==
  /\ req \in [Orders -> Requests]
  /\ orders = [o \in Orders |-> [status |-> "none", cancelled_by |-> "nobody",
                                 points_used |-> 0, total |-> 0]]
  /\ payments = [o \in Orders |-> [status |-> "none", linked |-> FALSE]]
  /\ refunds = [o \in Orders |-> <<>>]
  /\ assignments = [o \in Orders |-> [status |-> "none",
                                      courier |-> NoCourier]]
  /\ stock = InitialStock
  /\ balance = InitialBalance
  /\ ledger = IF InitialBalance = 0 THEN <<>>
              ELSE <<LedgerEntry(NoOrder, "ADMIN_ADJUSTMENT", InitialBalance,
                                 InitialBalance)>>
  /\ uses = 0 /\ usages = {} /\ notes = {}
  /\ cart = FALSE
  /\ handled = {} /\ tasks = {}
  /\ sends = [o \in Orders |-> 0]
  /\ charge = [o \in Orders |-> "none"]
  /\ returned = [o \in Orders |-> [k \in Keys |-> "none"]]
  /\ txs = [s \in Sessions |-> IdleTx]
  /\ crashes = 0

\* The process that serves session s dies: what is not committed is lost.
SessionLost(s) ==
  /\ crashes < MaxCrashes /\ crashes' = crashes + 1
  /\ txs[s] # IdleTx
  /\ Close(s)
  /\ UNCHANGED <<req, tables, cart, handled, tasks, sends, yukassa>>

Begin(s) == CoreApiBegin(s) \/ WorkerBegin(s) \/ HookBegin(s)
Step(s) == CoreApiStep(s) \/ WorkerStep(s) \/ HookStep(s) \/ IntegrityError(s)

Next ==
  \/ \E s \in Sessions : Begin(s) \/ Step(s) \/ SessionLost(s)
  \/ CoreApiAtomic
  \/ TaskStep
  \/ \E k \in tasks : TaskLost(k)
  \/ YuKassaStep

Spec == Init /\ [][Next]_vars

-----------------------------------------------------------------------------
(* Fairness.  A transaction that has begun ends; celery redelivers queued  *)
(* work to a live worker; YuKassa repeats an event until it is answered and *)
(* settles what is pending.  Sessions are a bound of the model, not of the *)
(* system, so whoever waits for one is treated strongly fairly.  Customers *)
(* and staff owe nothing.                                                  *)

WorkerTurn(o) ==
  \E k \in tasks :
    /\ k.order = o
    /\ \/ CreateAccepted(k) \/ CreateUnreachable(k) \/ CreateRefused(k)
       \/ CreateSave(k) \/ CompensateSkip(k)
       \/ RefundSkip(k) \/ RefundAccepted(k) \/ RefundUnreachable(k)
       \/ RefundFail(k)
       \/ \E s \in Sessions : \/ CompensateRead(s, k) \/ RefundOpenRead(s, k)
                               \/ RefundSaveRead(s, k)

Fairness ==
  /\ \A s \in Sessions : WF_vars(Step(s))
  /\ \A o \in Orders : SF_vars(WorkerTurn(o))
  /\ \A e \in Event : SF_vars(\E s \in Sessions : HookRead(s, e))
  /\ \A o \in Orders :
       /\ WF_vars(ChargePaid(o) \/ ChargeCanceled(o))
       /\ \A key \in Keys : WF_vars(RefundResolved(o, key))

FairSpec == Spec /\ Fairness

-----------------------------------------------------------------------------
(* Safety that holds whatever the transactions interleave.                 *)

Served == {"PAID", "PREPARING", "READY", "IN_DELIVERY", "COMPLETED"}
Settled == {"SUCCEEDED", "REFUND_PENDING", "REFUNDED", "REFUND_FAILED"}

\* An order that costs money is in the kitchen, or its payment counts as
\* received, only if YuKassa has captured the money: stale reads in the
\* webhook, the lifecycle and the courier's endpoints never get ahead of it.
PrepaidBeforeServed ==
  \A o \in Orders :
    /\ orders[o].total > 0
    /\ orders[o].status \in Served \/ payments[o].status \in Settled
    => charge[o] = "succeeded"

\* A payment is marked refunded (or its refund failed) only after YuKassa
\* has announced that outcome for one of the order's refunds, although the
\* webhook attributes events to rows by guesswork and tasks write late.
RefundOutcomeAnnounced ==
  \A o \in Orders :
    /\ payments[o].status = "REFUNDED" =>
         \E key \in Keys : returned[o][key] = "succeeded"
    /\ payments[o].status = "REFUND_FAILED" =>
         \E key \in Keys : returned[o][key] = "canceled"

\* Once the webhook will not look at payment.succeeded again, the order is
\* not waiting for that payment any more, whatever died in between.
CaptureNotForgotten ==
  \A e \in handled :
    e.type = "payment.succeeded" =>
      ~ /\ orders[e.order].status = "CREATED"
        /\ payments[e.order].status = "AWAITING_CONFIRMATION"

\* The conditional UPDATE keeps the last use of a promocode from being
\* granted twice to checkouts that both found it valid, and no return of a
\* promocode, however stale the counter it read, frees more than it may.
PromocodeCapHolds == uses <= MaxUses

-----------------------------------------------------------------------------
(* The inductive strengthening: what an open transaction still knows when  *)
(* it commits, whatever has been committed since it read.                  *)

Captured(o) ==
  /\ orders[o].status # "none"
  /\ orders[o].total > 0 => charge[o] = "succeeded"

TablesKnow ==
  \A o \in Orders :
    orders[o].status \in Served \/ payments[o].status \in Settled => Captured(o)

SessionKnows(s) ==
  LET o == txs[s].order IN
  /\ txs[s].op # "idle" => o \in Orders
  /\ txs[s].op = "transition" =>
       <<txs[s].ost, txs[s].to>> \in AllowedTransitions
  /\ txs[s].op \in {"transition", "courier"} => Captured(o)
  /\ txs[s].op = "refundSave" /\ txs[s].pst \in RefundSources => Captured(o)
  /\ txs[s].op = "hook" /\ txs[s].phase = "read" =>
       /\ txs[s].event # "none"
       /\ txs[s].event = "payment.succeeded" => charge[o] = "succeeded"
       /\ txs[s].event = "refund.succeeded" =>
            returned[o][txs[s].key] = "succeeded"
       /\ txs[s].event = "refund.canceled" =>
            returned[o][txs[s].key] = "canceled"
       /\ txs[s].pst = "REFUND_PENDING" => Captured(o)

MoneyInv ==
  /\ TablesKnow
  /\ RefundOutcomeAnnounced
  /\ \A s \in Sessions : SessionKnows(s)

-----------------------------------------------------------------------------
(* Why the books never go back: a payment has one writer at a time until   *)
(* it is linked to YuKassa, and whoever writes it later has seen it so.    *)

Booked(o) == payments[o].linked /\ payments[o].status \in Settled
Unasked(o) == payments[o] = [status |-> "PENDING", linked |-> FALSE]

\* Who is on the way to create, or to give up, the payment of order o.
CreatesLater(k, o) == k.kind = "create" /\ k.order = o
CreatesNow(s, o) ==
  /\ txs[s].order = o
  /\ txs[s].op = "compensate" \/ Running(s, "checkout", "enqueue")

OneCreator(o) ==
  /\ \A k, l \in tasks : CreatesLater(k, o) /\ CreatesLater(l, o) => k = l
  /\ \A s, t \in Sessions : CreatesNow(s, o) /\ CreatesNow(t, o) => s = t
  /\ \A k \in tasks, s \in Sessions : ~(CreatesLater(k, o) /\ CreatesNow(s, o))

Unplaced(o) ==
  orders[o].status = "none" =>
    orders[o].total = 0 /\ payments[o] = [status |-> "none", linked |-> FALSE]

SessionBook(s) ==
  LET o == txs[s].order IN
  /\ txs[s].op = "cancel" => orders[o].status # "none"
  /\ CreatesNow(s, o) => Unasked(o)
  /\ txs[s].op \in {"refundOpen", "refundSave"} => Booked(o)
  /\ Running(s, "hook", "read")
       /\ txs[s].pst \in {"AWAITING_CONFIRMATION", "REFUND_PENDING"} =>
       payments[o].linked /\ payments[o].status = txs[s].pst

TaskBook(k) == /\ k.kind = "create" => Unasked(k.order)
               /\ k.kind = "refund" /\ k.phase # "queued" => Booked(k.order)

OneHook == \A s, t \in Sessions : txs[s].op = "hook" /\ txs[t].op = "hook" => s = t

BookInv ==
  /\ \A o \in Orders : Unplaced(o) /\ OneCreator(o)
  /\ \A s \in Sessions : SessionBook(s)
  /\ \A k \in tasks : TaskBook(k)
  /\ OneHook

-----------------------------------------------------------------------------
(* The abstract contract that the shop keeps.                              *)

StageOf(status) ==
  CASE status = "none" -> "none" [] status = "CREATED" -> "waiting"
    [] status = "CANCELLED" -> "cancelled" [] OTHER -> "served"
BookOf(status) ==
  CASE status \in {"SUCCEEDED", "REFUND_PENDING"} -> "received"
    [] status = "REFUNDED" -> "returned" [] status = "REFUND_FAILED" -> "refused"
    [] OTHER -> "open"

Contract == INSTANCE MoneyContract WITH
  Refunds <- Keys,
  stage <- [o \in Orders |-> StageOf(orders[o].status)],
  due <- [o \in Orders |-> orders[o].total > 0],
  money <- charge,
  back <- returned,
  book <- [o \in Orders |-> BookOf(payments[o].status)]

\* Every behaviour of the shop, with stale reads, late tasks, guessed refund
\* rows and crashes, keeps the contract.
ContractKept == Contract!ContractSpec

=============================================================================
