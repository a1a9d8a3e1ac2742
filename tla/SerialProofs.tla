---------------------------- MODULE SerialProofs ----------------------------
(***************************************************************************)
(* What the shop keeps when transactions do not overlap: the first half of *)
(* ShopProperties, for any number of orders, any order of requests, tasks  *)
(* and events, and a crash at any point.                                   *)
(*                                                                         *)
(* With one session, what a transaction has read is what the rows still    *)
(* hold when it commits (Fresh): the argument that is missing when two     *)
(* overlap.  The rest of SerialInv says how the rows of one order move     *)
(* together, which no single handler's guard does.                         *)
(*                                                                         *)
(* Stock and ledger are sums over all orders.  A fold is first shown to be *)
(* a number of cells (Total), of which the provers can count; a step then  *)
(* moves the cells of one order between the order and the shelf, or the    *)
(* ledger and the account (FreshBalance: as the session has read it).      *)
(***************************************************************************)
EXTENDS ContractProofs, ShopProperties, FiniteSetTheorems, WellFoundedInduction

\* Transactions do not overlap: there is one session.
OneSession == \A s, t \in Sessions : s = t

\* What the session has read is what the rows hold.
FreshOrder(s) == txs[s].ost = orders[txs[s].order].status

Fresh(s) ==
  LET o == txs[s].order IN
  /\ txs[s].op = "cancel" =>
       /\ FreshOrder(s) /\ orders[o].status \notin AdminForbidden \cup {"none"}
       /\ txs[s].by # "nobody"
  /\ txs[s].op = "transition" => FreshOrder(s) /\ TypeAllows(o, txs[s].ost, txs[s].to)
  /\ txs[s].op = "courier" =>
       \/ /\ txs[s].to = "IN_DELIVERY" /\ orders[o].status = "READY"
          /\ assignments[o].status = "COURIER_ASSIGNED"
       \/ /\ txs[s].to = "COMPLETED" /\ orders[o].status = "IN_DELIVERY"
          /\ assignments[o].status = "PICKED_UP"
  /\ txs[s].op = "compensate" \/ Running(s, "hook", "read") =>
       FreshOrder(s) /\ txs[s].uses = uses
  /\ txs[s].op = "refundOpen" =>
       \A i \in DOMAIN refunds[o] : refunds[o][i].status # "PENDING"
  /\ txs[s].op = "refundSave" => txs[s].pst = payments[o].status

\* An order and its payment move together.
PaymentFollows(o) ==
  /\ orders[o].cancelled_by # "nobody" => orders[o].status = "CANCELLED"
  /\ orders[o].status = "CREATED" =>
       payments[o].status \in {"PENDING", "AWAITING_CONFIRMATION"}
  /\ orders[o].status \in Served => payments[o].status \in Settled
  /\ orders[o].status = "CANCELLED" /\ orders[o].cancelled_by = "nobody" =>
       payments[o].status \in Settled \cup {"PAYMENT_FAILED"}

AssignmentFollows(o) == assignments[o].status \in DeliveryStates(o)

OneOpen(o) ==
  \A i, j \in DOMAIN refunds[o] :
    refunds[o][i].status = "PENDING" /\ refunds[o][j].status = "PENDING" => i = j

PointsOnce(o) ==
  /\ \A i, j \in Entries(o, "REVERSAL") : i = j
  /\ \A i, j \in Entries(o, "ACCRUAL") : i = j
  /\ Entries(o, "REVERSAL") # {} => orders[o].status = "CANCELLED"
  /\ Entries(o, "ACCRUAL") # {} => orders[o].status = "COMPLETED"

UsageFollows(o) ==
  /\ orders[o].status = "none" => o \notin usages
  /\ Live(o) => (o \in usages <=> req[o].promo)

UsesCounted == IsFiniteSet(usages) /\ UsagesExplainUses

SerialInv ==
  /\ \A s \in Sessions : Fresh(s)
  /\ \A o \in Orders : /\ PaymentFollows(o) /\ AssignmentFollows(o) /\ OneOpen(o)
                       /\ PointsOnce(o) /\ UsageFollows(o)
  /\ UsesCounted

-----------------------------------------------------------------------------
(* The rows, when nothing or something else is written                     *)

RowsOf(o) == /\ PaymentFollows(o) /\ AssignmentFollows(o) /\ OneOpen(o)
             /\ PointsOnce(o) /\ UsageFollows(o)

LEMMA AtMostOne ==
  ASSUME NEW S, \A x, y \in S : x = y
  PROVE  IsFiniteSet(S) /\ Cardinality(S) <= 1
<1>1. CASE S = {}
  BY <1>1, FS_EmptySet
<1>2. ASSUME NEW x \in S PROVE IsFiniteSet(S) /\ Cardinality(S) <= 1
  <2>1. S = {x}
    BY <1>2
  <2>2. IsFiniteSet(S) /\ Cardinality(S) = 1
    BY <2>1, FS_Singleton
  <2>3. QED
    BY <2>2
<1>3. QED
  BY <1>1, <1>2

\* A session that claims nothing of the rows.
LEMMA NoClaim ==
  ASSUME NEW s \in Sessions,
         \/ txs'[s].op \in {"idle", "checkout"}
         \/ txs'[s].op = "hook" /\ txs'[s].phase # "read"
  PROVE  Fresh(s)'
BY DEF Fresh, Running

LEMMA ClosedClaims ==
  ASSUME TypeInv, NEW s \in Sessions, Close(s)
  PROVE  Fresh(s)'
<1>1. txs'[s] = IdleTx
  BY DEF Close, TypeInv, TypeOK
<1>2. QED
  BY <1>1, NoClaim DEF IdleTx

LEMMA PhaseClaims ==
  ASSUME TypeInv, NEW s \in Sessions, NEW phase \in {"clear", "mark", "enqueue"},
         txs[s].op \in {"hook", "checkout"}, txs' = [txs EXCEPT ![s].phase = phase]
  PROVE  Fresh(s)'
<1>1. txs'[s].op = txs[s].op /\ txs'[s].phase = phase
  BY DEF TypeInv, TypeOK, Tx
<1>2. QED
  BY <1>1, NoClaim

LEMMA QuietRows ==
  ASSUME SerialInv, UNCHANGED <<req, tables>>
  PROVE  (\A o \in Orders : RowsOf(o)') /\ UsesCounted'
BY DEF SerialInv, RowsOf, tables, PaymentFollows, AssignmentFollows, DeliveryStates,
       OneOpen, PointsOnce, UsageFollows, UsesCounted, UsagesExplainUses, FailedByPayment,
       Entries, Live

\* The one session has claims that hold, and nothing else is written.
LEMMA QuietSerial ==
  ASSUME OneSession, SerialInv, UNCHANGED <<req, tables>>, NEW s \in Sessions, Fresh(s)'
  PROVE  SerialInv'
BY QuietRows DEF OneSession, SerialInv, RowsOf

\* No session is in a transaction, or none changes.
LEMMA StillSerial ==
  ASSUME OneSession, SerialInv, UNCHANGED <<req, tables, txs>>
  PROVE  SerialInv'
<1>1. \A s \in Sessions : Fresh(s)'
  BY DEF SerialInv, Fresh, FreshOrder, Running, tables, TypeAllows
<1>2. QED
  BY <1>1, QuietRows DEF SerialInv, RowsOf

LEMMA FreeClaims ==
  ASSUME OneSession, SessionFree, UNCHANGED txs
  PROVE  \A s \in Sessions : Fresh(s)'
<1>1. \A s \in Sessions : txs'[s] = IdleTx
  BY DEF OneSession, SessionFree
<1>2. QED
  BY <1>1, NoClaim DEF IdleTx

-----------------------------------------------------------------------------
(* Reading                                                                 *)

LEMMA OpenedAs ==
  ASSUME TypeInv, NEW s \in Sessions, NEW tx, Open(s, tx)
  PROVE  txs'[s] = tx
BY DEF Open, TypeInv, TypeOK

LEMMA CoreApiReads ==
  ASSUME TypeInv, NEW s \in Sessions, CoreApiBegin(s)
  PROVE  UNCHANGED <<req, tables>> /\ Fresh(s)'
<1>1. PICK o \in Orders :
        \/ CheckoutQuote(s, o)
        \/ \E by \in {"customer", "admin"} : CancelRead(s, o, by)
        \/ \E to \in OrderStatus : TransitionRead(s, o, to)
        \/ \E c \in Couriers : PickupRead(s, o, c) \/ DeliverRead(s, o, c)
  BY DEF CoreApiBegin
<1>2. UNCHANGED <<req, tables>>
  BY <1>1 DEF CheckoutQuote, CancelRead, TransitionRead, PickupRead, DeliverRead,
              CourierRead
<1>3. CASE CheckoutQuote(s, o)
  <2> DEFINE tx == [IdleTx EXCEPT !.op = "checkout", !.phase = "read", !.order = o,
                                  !.bal = balance]
  <2>1. Open(s, tx) /\ tx.op = "checkout"
    BY <1>3 DEF CheckoutQuote, IdleTx
  <2> HIDE DEF tx
  <2>2. QED
    BY <1>2, <2>1, OpenedAs, NoClaim
<1>4. ASSUME NEW by \in {"customer", "admin"}, CancelRead(s, o, by)
      PROVE  Fresh(s)'
  <2> DEFINE tx == [IdleTx EXCEPT !.op = "cancel", !.phase = "read", !.order = o,
                      !.ost = orders[o].status, !.by = by, !.bal = balance]
  <2>1. /\ Open(s, tx) /\ tx.op = "cancel" /\ tx.order = o /\ tx.by = by
        /\ tx.ost = orders[o].status
    BY <1>4 DEF CancelRead, IdleTx
  <2>2. orders[o].status \notin AdminForbidden \cup {"none"}
    BY <1>4 DEF CancelRead, MayCancel, AdminForbidden
  <2> HIDE DEF tx
  <2>3. QED
    BY <1>2, <2>1, <2>2, OpenedAs DEF Fresh, FreshOrder, Running, tables
<1>5. ASSUME NEW to \in OrderStatus, TransitionRead(s, o, to)
      PROVE  Fresh(s)'
  <2> DEFINE tx == [IdleTx EXCEPT !.op = "transition", !.phase = "read", !.order = o,
                      !.ost = orders[o].status, !.to = to, !.bal = balance]
  <2>1. /\ Open(s, tx) /\ tx.op = "transition" /\ tx.order = o /\ tx.to = to
        /\ tx.ost = orders[o].status
    BY <1>5 DEF TransitionRead, IdleTx
  <2>2. TypeAllows(o, orders[o].status, to)
    BY <1>5 DEF TransitionRead
  <2> HIDE DEF tx
  <2>3. QED
    BY <1>2, <2>1, <2>2, OpenedAs DEF Fresh, FreshOrder, Running, tables, TypeAllows
<1>6. ASSUME NEW c \in Couriers, PickupRead(s, o, c) \/ DeliverRead(s, o, c)
      PROVE  Fresh(s)'
  <2> DEFINE tx(at, to) == [IdleTx EXCEPT !.op = "courier", !.phase = "read",
                              !.order = o, !.ost = at, !.to = to, !.bal = balance]
  <2>1. PICK at, to :
          /\ CourierRead(s, o, c, IF at = "READY" THEN "COURIER_ASSIGNED" ELSE "PICKED_UP",
                         at, to)
          /\ <<at, to>> \in {<<"READY", "IN_DELIVERY">>, <<"IN_DELIVERY", "COMPLETED">>}
    BY <1>6 DEF PickupRead, DeliverRead
  <2>2. /\ tx(at, to).op = "courier" /\ tx(at, to).order = o /\ tx(at, to).to = to
    BY DEF IdleTx
  <2>3. Open(s, tx(at, to)) /\ orders[o].status = at
    BY <2>1 DEF CourierRead
  <2>4. assignments[o].status = IF at = "READY" THEN "COURIER_ASSIGNED" ELSE "PICKED_UP"
    BY <2>1 DEF CourierRead
  <2> HIDE DEF tx
  <2>5. QED
    BY <1>2, <2>1, <2>2, <2>3, <2>4, OpenedAs DEF Fresh, Running, tables
<1>7. QED
  BY <1>1, <1>2, <1>3, <1>4, <1>5, <1>6

LEMMA WorkerReads ==
  ASSUME TypeInv, NEW s \in Sessions, WorkerBegin(s)
  PROVE  UNCHANGED <<req, tables>> /\ Fresh(s)'
<1>1. PICK k \in tasks : \/ CompensateRead(s, k) \/ RefundOpenRead(s, k)
                         \/ RefundSaveRead(s, k)
  BY DEF WorkerBegin
<1>2. UNCHANGED <<req, tables>>
  BY <1>1 DEF CompensateRead, RefundOpenRead, RefundSaveRead, ApiSide
<1> DEFINE o == k.order
<1>3. CASE CompensateRead(s, k)
  <2> DEFINE tx == [IdleTx EXCEPT !.op = "compensate", !.phase = "read", !.order = o,
                      !.ost = orders[o].status, !.pst = payments[o].status,
                      !.bal = balance, !.uses = uses]
  <2>1. /\ Open(s, tx) /\ tx.op = "compensate" /\ tx.order = o /\ tx.uses = uses
        /\ tx.ost = orders[o].status
    BY <1>3 DEF CompensateRead, IdleTx
  <2> HIDE DEF tx
  <2>2. QED
    BY <1>2, <2>1, OpenedAs DEF Fresh, FreshOrder, Running, tables
<1>4. CASE RefundOpenRead(s, k)
  <2> DEFINE tx == [IdleTx EXCEPT !.op = "refundOpen", !.phase = "read", !.order = o,
                      !.send = k.send, !.key = k.key]
  <2>1. Open(s, tx) /\ tx.op = "refundOpen" /\ tx.order = o
    BY <1>4 DEF RefundOpenRead, IdleTx
  <2>2. \A i \in DOMAIN refunds[o] : refunds[o][i].status # "PENDING"
    BY <1>4 DEF RefundOpenRead, RefundAllowed
  <2> HIDE DEF tx
  <2>3. QED
    BY <1>2, <2>1, <2>2, OpenedAs DEF Fresh, Running, tables
<1>5. CASE RefundSaveRead(s, k)
  <2> DEFINE tx == [IdleTx EXCEPT !.op = "refundSave", !.phase = "read", !.order = o,
                      !.key = k.key, !.row = k.row, !.pst = payments[o].status]
  <2>1. /\ Open(s, tx) /\ tx.op = "refundSave" /\ tx.order = o
        /\ tx.pst = payments[o].status
    BY <1>5 DEF RefundSaveRead, IdleTx
  <2> HIDE DEF tx
  <2>2. QED
    BY <1>2, <2>1, OpenedAs DEF Fresh, Running, tables
<1>6. QED
  BY <1>1, <1>2, <1>3, <1>4, <1>5

LEMMA HookReads ==
  ASSUME TypeInv, NEW s \in Sessions, HookBegin(s)
  PROVE  UNCHANGED <<req, tables>> /\ Fresh(s)'
<1>1. PICK e \in Event : HookRead(s, e)
  BY DEF HookBegin
<1>2. UNCHANGED <<req, tables>>
  BY <1>1 DEF HookRead, ApiAndTasks
<1> DEFINE o == e.order
           row == RefundOf(o, e.key)
           refundEvent == e.type \in {"refund.succeeded", "refund.canceled"}
           tx == [IdleTx EXCEPT
             !.op = "hook", !.phase = "read", !.order = o, !.event = e.type,
             !.key = e.key, !.ost = orders[o].status, !.bal = balance,
             !.uses = uses,
             !.pst = IF Known(o) THEN payments[o].status ELSE "none",
             !.row = IF refundEvent THEN row ELSE 0,
             !.rst = IF refundEvent THEN RefundSeen(o, row) ELSE "none"]
<1>3. /\ tx.op = "hook" /\ tx.order = o /\ tx.ost = orders[o].status
      /\ tx.uses = uses
  BY DEF IdleTx
<1>4. Open(s, tx)
  BY <1>1 DEF HookRead
<1> HIDE DEF tx
<1>5. QED
  BY <1>2, <1>3, <1>4, OpenedAs DEF Fresh, FreshOrder, Running, tables

-----------------------------------------------------------------------------
(* Steps that write no row                                                 *)

LEMMA CancelFlushSerial ==
  ASSUME TypeInv, NEW s \in Sessions, SerialInv, CancelFlush(s)
  PROVE  UNCHANGED <<req, tables>> /\ Fresh(s)'
<1>1. /\ UNCHANGED <<req, tables>> /\ txs[s].op = "cancel"
      /\ \E bal : txs' = [txs EXCEPT ![s].phase = "locked", ![s].bal = bal]
  BY DEF CancelFlush, Running
<1>2. /\ txs'[s].op = "cancel" /\ txs'[s].order = txs[s].order
      /\ txs'[s].ost = txs[s].ost /\ txs'[s].by = txs[s].by
  BY <1>1 DEF TypeInv, TypeOK, Tx
<1>3. QED
  BY <1>1, <1>2 DEF SerialInv, Fresh, FreshOrder, Running, tables

LEMMA SessionQuiet ==
  ASSUME TypeInv, SerialInv, OneSession, NEW s \in Sessions,
         \/ Begin(s) \/ SessionLost(s) \/ IntegrityError(s) \/ CheckoutReject(s)
         \/ CheckoutEnqueue(s) \/ CheckoutClearCart(s) \/ CancelFlush(s)
         \/ HookIgnored(s) \/ HookClearCart(s) \/ HookMark(s)
  PROVE  SerialInv'
<1>1. UNCHANGED <<req, tables>> /\ Fresh(s)'
  <2>1. CASE Begin(s)
    BY <2>1, CoreApiReads, WorkerReads, HookReads DEF Begin
  <2>2. CASE \/ SessionLost(s) \/ IntegrityError(s) \/ CheckoutReject(s)
             \/ CheckoutEnqueue(s) \/ CheckoutClearCart(s) \/ HookMark(s)
    BY <2>2, ClosedClaims DEF SessionLost, IntegrityError, CheckoutReject,
       CheckoutEnqueue, CheckoutClearCart, HookMark, ApiAndTasks
  <2>3. CASE CancelFlush(s)
    BY <2>3, CancelFlushSerial
  <2>4. CASE HookIgnored(s) \/ HookClearCart(s)
    BY <2>4, PhaseClaims DEF HookIgnored, HookClearCart, Running, ApiAndTasks
  <2>5. QED
    BY <2>1, <2>2, <2>3, <2>4
<1>2. QED
  BY <1>1, QuietSerial

LEMMA AroundQuiet ==
  ASSUME SerialInv, OneSession,
         \/ FillCart \/ \E o \in Orders : RetryRefund(o)
         \/ YuKassaStep \/ UNCHANGED vars
         \/ \E k \in tasks :
              \/ CreateAccepted(k) \/ CreateUnreachable(k) \/ CreateRefused(k)
              \/ CompensateSkip(k) \/ RefundSkip(k) \/ RefundAccepted(k)
              \/ RefundUnreachable(k) \/ TaskLost(k)
  PROVE  SerialInv'
<1>1. UNCHANGED <<req, tables, txs>>
  BY DEF FillCart, RetryRefund, YuKassaStep, ChargePaid, ChargeCanceled, RefundResolved,
         Around, vars, tables, CreateAccepted, CreateUnreachable, CreateRefused,
         CompensateSkip, RefundSkip, RefundAccepted, RefundUnreachable, TaskLost, ApiSide
<1>2. QED
  BY <1>1, StillSerial

-----------------------------------------------------------------------------
(* Steps that write the rows of one order                                  *)

SameRows(p) == /\ orders'[p] = orders[p] /\ payments'[p] = payments[p]
               /\ assignments'[p] = assignments[p] /\ refunds'[p] = refunds[p]

\* What is left to show of a step that writes the rows of order o.
LEMMA WrittenSerial ==
  ASSUME SerialInv, UNCHANGED req, NEW o \in Orders,
         \A p \in Orders \ {o} : SameRows(p) /\ (p \in usages' <=> p \in usages),
         PaymentFollows(o)', AssignmentFollows(o)', OneOpen(o)', UsageFollows(o)',
         \A p \in Orders : PointsOnce(p)', UsesCounted', \A s \in Sessions : Fresh(s)'
  PROVE  SerialInv'
<1>1. ASSUME NEW p \in Orders \ {o}
      PROVE  /\ PaymentFollows(p)' /\ AssignmentFollows(p)' /\ OneOpen(p)'
             /\ UsageFollows(p)'
  <2>1. SameRows(p) /\ (p \in usages' <=> p \in usages)
    OBVIOUS
  <2>2. PaymentFollows(p) /\ AssignmentFollows(p) /\ OneOpen(p) /\ UsageFollows(p)
    BY DEF SerialInv
  <2>3. QED
    BY <2>1, <2>2 DEF SameRows, PaymentFollows, AssignmentFollows, DeliveryStates, OneOpen, UsageFollows,
                      Live
<1>2. QED
  BY <1>1 DEF SerialInv

\* The entries of the ledger that give points back or earn them.
EntriesStay ==
  \A p \in Orders : /\ Entries(p, "REVERSAL")' = Entries(p, "REVERSAL")
                    /\ Entries(p, "ACCRUAL")' = Entries(p, "ACCRUAL")

EntriesGain(o, type) ==
  /\ \A p \in Orders, t \in {"REVERSAL", "ACCRUAL"} :
       p # o \/ t # type => Entries(p, t)' = Entries(p, t)
  /\ Entries(o, type) = {} => \A i, j \in Entries(o, type)' : i = j

LEMMA LedgerAppended ==
  ASSUME TypeInv, NEW e, ledger' = Append(ledger, e)
  PROVE  /\ DOMAIN ledger' = DOMAIN ledger \cup {Len(ledger) + 1}
         /\ \A i \in DOMAIN ledger : ledger'[i] = ledger[i]
         /\ ledger'[Len(ledger) + 1] = e
<1>1. ledger \in Seq(LedgerRow)
  BY DEF TypeInv, TypeOK
<1>2. Len(ledger) \in Nat /\ DOMAIN ledger = 1 .. Len(ledger)
  BY <1>1
<1>3. /\ DOMAIN ledger' = 1 .. Len(ledger) + 1
      /\ \A i \in 1 .. Len(ledger) : ledger'[i] = ledger[i]
      /\ ledger'[Len(ledger) + 1] = e
  BY <1>1
<1>4. QED
  BY <1>2, <1>3

LEMMA AppendGains ==
  ASSUME TypeInv, NEW o \in Orders, NEW type, NEW amount, NEW after,
         ledger' = Append(ledger, LedgerEntry(o, type, amount, after))
  PROVE  /\ EntriesGain(o, type)
         /\ type \notin {"REVERSAL", "ACCRUAL"} => EntriesStay
<1> DEFINE e == LedgerEntry(o, type, amount, after)
           n == Len(ledger) + 1
<1>1. e.order = o /\ e.type = type
  BY DEF LedgerEntry
<1> HIDE DEF e
<1>2. /\ DOMAIN ledger' = DOMAIN ledger \cup {n}
      /\ \A i \in DOMAIN ledger : ledger'[i] = ledger[i]
      /\ ledger'[n] = e
  BY LedgerAppended DEF e
<1>3. n \notin DOMAIN ledger
  <2>1. ledger \in Seq(LedgerRow)
    BY DEF TypeInv, TypeOK
  <2>2. QED
    BY <2>1
<1> HIDE DEF n
<1>4. ASSUME NEW p \in Orders, NEW t, p # o \/ t # type
      PROVE  Entries(p, t)' = Entries(p, t)
  BY <1>1, <1>2, <1>3, <1>4 DEF Entries
<1>5. Entries(o, type) = {} => Entries(o, type)' \subseteq {n}
  BY <1>1, <1>2 DEF Entries
<1>6. QED
  BY <1>4, <1>5 DEF EntriesGain, EntriesStay

LEMMA LedgerKeeps ==
  ASSUME UNCHANGED ledger
  PROVE  EntriesStay /\ \A o \in Orders : \A type : EntriesGain(o, type)
BY DEF EntriesStay, EntriesGain, Entries

LEMMA ConfirmKeeps ==
  ASSUME NEW o \in Orders, ConfirmReservation(o), TypeInv
  PROVE  EntriesStay
<1>1. \A i \in DOMAIN ledger : ledger[i] \in LedgerRow
  <2>1. ledger \in Seq(LedgerRow)
    BY DEF TypeInv, TypeOK
  <2>2. QED
    BY <2>1
<1>2. /\ DOMAIN ledger' = DOMAIN ledger
      /\ \A i \in DOMAIN ledger :
           \/ ledger'[i] = ledger[i]
           \/ /\ ledger[i].type = "RESERVATION" /\ ledger'[i].type = "REDEMPTION"
              /\ ledger'[i].order = ledger[i].order
  BY <1>1 DEF ConfirmReservation, LedgerRow
<1>3. QED
  BY <1>2 DEF EntriesStay, Entries

LEMMA ReverseGains ==
  ASSUME TypeInv, NEW o \in Orders,
         ReverseInLedger(o) \/ \E bal : ReversePoints(o, bal)
  PROVE  EntriesGain(o, "REVERSAL")
<1>1. \/ UNCHANGED ledger
      \/ \E amount, after : ledger' = Append(ledger,
                              LedgerEntry(o, "REVERSAL", amount, after))
  BY DEF ReverseInLedger, ReversePoints
<1>2. QED
  BY <1>1, AppendGains, LedgerKeeps

LEMMA AccrueGains ==
  ASSUME TypeInv, NEW o \in Orders, NEW reads, AccrueLoyalty(o, reads)
  PROVE  EntriesGain(o, "ACCRUAL")
<1>1. \/ UNCHANGED ledger
      \/ \E amount, after : ledger' = Append(ledger,
                              LedgerEntry(o, "ACCRUAL", amount, after))
  BY DEF AccrueLoyalty
<1>2. QED
  BY <1>1, AppendGains, LedgerKeeps

\* An order is completed, or cancelled, once.
Ended(o) == orders[o].status \in {"CANCELLED", "COMPLETED"}

LEMMA PointsGained ==
  ASSUME SerialInv, NEW o \in Orders, NEW type, EntriesGain(o, type), ~Ended(o),
         \A p \in Orders \ {o} : orders'[p] = orders[p],
         \/ type = "REVERSAL" /\ orders'[o].status = "CANCELLED"
         \/ type = "ACCRUAL" /\ orders'[o].status = "COMPLETED"
  PROVE  \A p \in Orders : PointsOnce(p)'
<1>1. ASSUME NEW p \in Orders, p # o PROVE PointsOnce(p)'
  <2>1. /\ Entries(p, "REVERSAL")' = Entries(p, "REVERSAL")
        /\ Entries(p, "ACCRUAL")' = Entries(p, "ACCRUAL")
    BY <1>1 DEF EntriesGain
  <2>2. PointsOnce(p) /\ orders'[p] = orders[p]
    BY <1>1 DEF SerialInv
  <2>3. QED
    BY <2>1, <2>2 DEF PointsOnce
<1>2. PointsOnce(o)'
  <2>1. Entries(o, "REVERSAL") = {} /\ Entries(o, "ACCRUAL") = {}
    BY DEF SerialInv, PointsOnce, Ended
  <2>2. /\ \A i, j \in Entries(o, type)' : i = j
        /\ \A t \in {"REVERSAL", "ACCRUAL"} : t # type => Entries(o, t)' = {}
    BY <2>1 DEF EntriesGain
  <2>3. CASE type = "REVERSAL"
    <3>1. (\A i, j \in Entries(o, "REVERSAL")' : i = j) /\ Entries(o, "ACCRUAL")' = {}
      BY <2>2, <2>3
    <3>2. QED
      BY <2>3, <3>1 DEF PointsOnce
  <2>4. CASE type = "ACCRUAL"
    <3>1. (\A i, j \in Entries(o, "ACCRUAL")' : i = j) /\ Entries(o, "REVERSAL")' = {}
      BY <2>2, <2>4
    <3>2. QED
      BY <2>4, <3>1 DEF PointsOnce
  <2>5. QED
    BY <2>3, <2>4
<1>3. QED
  BY <1>1, <1>2

LEMMA PointsKept ==
  ASSUME SerialInv, EntriesStay,
         \A p \in Orders : orders'[p].status = orders[p].status \/ ~Ended(p)
  PROVE  \A p \in Orders : PointsOnce(p)'
BY DEF SerialInv, EntriesStay, PointsOnce, Ended

\* The uses that count.
Counted == {o \in usages : ~FailedByPayment(o)}

LEMMA FailedStays ==
  ASSUME NEW p \in Orders, orders'[p] = orders[p], payments'[p] = payments[p]
  PROVE  FailedByPayment(p)' <=> FailedByPayment(p)
BY DEF FailedByPayment

LEMMA UsesKept ==
  ASSUME TypeInv, SerialInv, UNCHANGED <<uses, usages>>,
         \A p \in Orders : FailedByPayment(p)' <=> FailedByPayment(p)
  PROVE  UsesCounted'
<1>1. usages \subseteq Orders
  BY DEF TypeInv, TypeOK
<1>2. {o \in usages : ~FailedByPayment(o)}' = {o \in usages : ~FailedByPayment(o)}
  BY <1>1
<1>3. QED
  BY <1>2 DEF SerialInv, UsesCounted, UsagesExplainUses

LEMMA UsesLost ==
  ASSUME TypeInv, SerialInv, NEW o \in Orders, o \in Counted <=> req[o].promo,
         usages' \in SUBSET usages, Counted' = Counted \ {o},
         uses' = IF req[o].promo THEN uses - 1 ELSE uses
  PROVE  UsesCounted'
<1>1. IsFiniteSet(usages) /\ uses = Cardinality(Counted)
  BY DEF SerialInv, UsesCounted, UsagesExplainUses, Counted
<1>2. IsFiniteSet(Counted) /\ IsFiniteSet(usages')
  <2>1. Counted \in SUBSET usages
    BY DEF Counted
  <2>2. QED
    BY <1>1, <2>1, FS_Subset
<1>3. Cardinality(Counted \ {o}) = IF o \in Counted THEN Cardinality(Counted) - 1
                                   ELSE Cardinality(Counted)
  BY <1>2, FS_RemoveElement
<1>4. uses' = Cardinality(Counted')
  BY <1>1, <1>3
<1>5. QED
  BY <1>2, <1>4 DEF UsesCounted, UsagesExplainUses, Counted

\* A live order counts iff it has the promocode, and then the counter is not
\* zero.
LEMMA LiveCounts ==
  ASSUME TypeInv, SerialInv, NEW o \in Orders, Live(o)
  PROVE  (o \in Counted <=> req[o].promo) /\ (req[o].promo => uses > 0)
<1>1. o \in Counted <=> req[o].promo
  BY DEF SerialInv, UsageFollows, Counted, FailedByPayment, Live
<1>2. uses = Cardinality(Counted) /\ IsFiniteSet(Counted) /\ uses \in Nat
  <2>1. Counted \in SUBSET usages /\ IsFiniteSet(usages)
    BY DEF Counted, SerialInv, UsesCounted
  <2>2. uses = Cardinality(Counted) /\ uses \in Nat
    BY DEF SerialInv, UsesCounted, UsagesExplainUses, Counted, TypeInv, TypeOK
  <2>3. QED
    BY <2>1, <2>2, FS_Subset
<1>3. o \in Counted => uses # 0
  BY <1>2, FS_EmptySet
<1>4. QED
  BY <1>1, <1>2, <1>3

-----------------------------------------------------------------------------
(* core-api                                                                *)

LEMMA OthersSame ==
  ASSUME TypeInv, NEW o \in Orders,
         UNCHANGED orders \/ \E row : orders' = [orders EXCEPT ![o] = row],
         UNCHANGED payments \/ \E row : payments' = [payments EXCEPT ![o] = row],
         UNCHANGED assignments \/ \E row : assignments' = [assignments EXCEPT ![o] = row],
         UNCHANGED refunds \/ \E rows : refunds' = [refunds EXCEPT ![o] = rows]
  PROVE  \A p \in Orders \ {o} : SameRows(p)
BY DEF SameRows, TypeInv, TypeOK

LEMMA CheckoutCommitSerial ==
  ASSUME TypeInv, BookInv, SerialInv, OneSession, NEW s \in Sessions, CheckoutCommit(s)
  PROVE  SerialInv'
<1>1. PICK o \in Orders : o = txs[s].order
  BY SessionOrder DEF CheckoutCommit, Running
<1> DEFINE total == OrderTotal(o, txs[s].bal)
           points == AppliedPoints(o, txs[s].bal)
<1>2. /\ orders[o].status = "none" /\ txs[s].op = "checkout"
      /\ orders' = [orders EXCEPT ![o] =
           [status |-> IF total = 0 THEN "PAID" ELSE "CREATED",
            cancelled_by |-> "nobody", points_used |-> points, total |-> total]]
      /\ payments' = [payments EXCEPT ![o] =
           [status |-> IF total = 0 THEN "SUCCEEDED" ELSE "PENDING",
            linked |-> FALSE]]
      /\ txs' = [txs EXCEPT ![s].phase = IF total = 0 THEN "clear" ELSE "enqueue"]
      /\ uses' = IF req[o].promo THEN uses + 1 ELSE uses
      /\ usages' = IF req[o].promo THEN usages \cup {o} ELSE usages
      /\ UNCHANGED <<req, assignments, refunds>>
      /\ \/ UNCHANGED ledger
         \/ \E amount, after : \E type \in {"REDEMPTION", "RESERVATION"} :
              ledger' = Append(ledger, LedgerEntry(o, type, amount, after))
  BY <1>1 DEF CheckoutCommit, Running, PaymentSide
<1> HIDE DEF total, points
<1>3. /\ orders'[o].status = IF total = 0 THEN "PAID" ELSE "CREATED"
      /\ orders'[o].cancelled_by = "nobody"
      /\ payments'[o].status = IF total = 0 THEN "SUCCEEDED" ELSE "PENDING"
      /\ \A p \in Orders \ {o} : SameRows(p)
  BY <1>2, OthersSame DEF TypeInv, TypeOK
<1>4. \A t \in Sessions : Fresh(t)'
  BY <1>2, PhaseClaims DEF OneSession
<1>5. EntriesStay
  BY <1>2, AppendGains, LedgerKeeps
<1>6. \A p \in Orders : PointsOnce(p)'
  BY <1>2, <1>3, <1>5, PointsKept DEF Ended, SameRows
<1>7. o \notin usages /\ ~FailedByPayment(o)'
  BY <1>2, <1>3 DEF SerialInv, UsageFollows, FailedByPayment
<1>8. UsesCounted'
  <2>1. Counted' = IF req[o].promo THEN Counted \cup {o} ELSE Counted
    <3>1. \A p \in usages : FailedByPayment(p)' <=> FailedByPayment(p)
      BY <1>3, <1>7, FailedStays DEF SameRows, TypeInv, TypeOK
    <3>2. QED
      BY <1>2, <1>7, <3>1 DEF Counted
  <2>2. /\ IsFiniteSet(usages) /\ uses = Cardinality(Counted) /\ Counted \in SUBSET usages
        /\ uses \in Nat
    BY DEF SerialInv, UsesCounted, UsagesExplainUses, Counted, TypeInv, TypeOK
  <2>3. IsFiniteSet(Counted) /\ IsFiniteSet(usages \cup {o})
    BY <2>2, FS_Subset, FS_AddElement
  <2>4. Cardinality(Counted \cup {o}) = Cardinality(Counted) + 1
    BY <1>7, <2>3, FS_AddElement DEF Counted
  <2>5. uses' = Cardinality(Counted') /\ IsFiniteSet(usages')
    BY <1>2, <2>1, <2>2, <2>3, <2>4
  <2>6. QED
    BY <2>5 DEF UsesCounted, UsagesExplainUses, Counted
<1>9. PaymentFollows(o)' /\ UsageFollows(o)'
  BY <1>2, <1>3, <1>7 DEF PaymentFollows, UsageFollows, Served, Settled, Live
<1>10. AssignmentFollows(o)' /\ OneOpen(o)'
  BY <1>2, <1>3 DEF SerialInv, AssignmentFollows, DeliveryStates, OneOpen
<1>11. \A p \in Orders \ {o} : p \in usages' <=> p \in usages
  BY <1>2
<1>12. QED
  BY <1>2, <1>3, <1>4, <1>6, <1>8, <1>9, <1>10, <1>11, WrittenSerial

\* A live order is cancelled, by a person or for its failed payment: the
\* points go back once, and the promocode stops counting.
LEMMA CancelledSerial ==
  ASSUME TypeInv, SerialInv, UNCHANGED <<req, refunds>>, NEW o \in Orders, Live(o),
         ~Ended(o), orders[o].status # "IN_DELIVERY",
         orders'[o].status = "CANCELLED", \A p \in Orders \ {o} : SameRows(p),
         \/ /\ orders'[o].cancelled_by # "nobody" /\ usages' = usages \ {o}
            /\ assignments'[o].status \in {"none", "CANCELLED"}
         \/ /\ orders'[o].cancelled_by = "nobody" /\ payments'[o].status = "PAYMENT_FAILED"
            /\ orders[o].status = "CREATED" /\ UNCHANGED <<assignments, usages>>,
         uses' = IF req[o].promo THEN uses - 1 ELSE uses,
         assignments'[o].status = "CANCELLED" => assignments[o].status # "none",
         EntriesGain(o, "REVERSAL"), \A s \in Sessions : Fresh(s)'
  PROVE  SerialInv'
<1>1. \A p \in Orders : PointsOnce(p)'
  BY PointsGained DEF SameRows
<1>2. UsesCounted'
  <2>1. \A p \in usages \ {o} : FailedByPayment(p)' <=> FailedByPayment(p)
    BY FailedStays DEF SameRows, TypeInv, TypeOK
  <2>2. Counted' = Counted \ {o}
    <3>1. CASE usages' = usages \ {o}
      BY <2>1, <3>1 DEF Counted
    <3>2. CASE FailedByPayment(o)' /\ usages' = usages
      BY <2>1, <3>2 DEF Counted
    <3>3. QED
      BY <3>1, <3>2 DEF FailedByPayment
  <2>3. usages' \in SUBSET usages
    OBVIOUS
  <2>4. QED
    BY <2>2, <2>3, LiveCounts, UsesLost
<1>3. PaymentFollows(o)' /\ UsageFollows(o)'
  BY DEF PaymentFollows, UsageFollows, Served, Live
<1>4. AssignmentFollows(o)' /\ OneOpen(o)'
  BY DEF SerialInv, AssignmentFollows, DeliveryStates, OneOpen, Ended
<1>5. \A p \in Orders \ {o} : p \in usages' <=> p \in usages
  OBVIOUS
<1>6. QED
  BY <1>1, <1>2, <1>3, <1>4, <1>5, WrittenSerial

LEMMA CancelCommitSerial ==
  ASSUME TypeInv, BookInv, SerialInv, OneSession, NEW s \in Sessions, CancelCommit(s)
  PROVE  SerialInv'
<1>1. PICK o \in Orders : o = txs[s].order
  BY SessionOrder DEF CancelCommit, Running
<1>2. /\ txs[s].op = "cancel" /\ Close(s) /\ UNCHANGED <<req, payments, refunds>>
      /\ orders' = [orders EXCEPT ![o].status = "CANCELLED",
                                  ![o].cancelled_by = txs[s].by]
      /\ CancelAssignment(o) /\ ReturnPromocode(o) /\ ReversePoints(o, txs[s].bal)
  BY <1>1 DEF CancelCommit, Running, PaymentSide
<1>3. orders[o].status \notin AdminForbidden \cup {"none"} /\ txs[s].by # "nobody"
  BY <1>1, <1>2 DEF SerialInv, Fresh
<1>4. /\ orders'[o].status = "CANCELLED" /\ orders'[o].cancelled_by # "nobody"
      /\ \A p \in Orders \ {o} : orders'[p] = orders[p]
  BY <1>2, <1>3 DEF TypeInv, TypeOK, OrderRow
<1>5. /\ \A p \in Orders \ {o} : assignments'[p] = assignments[p]
      /\ assignments'[o].status \in {"none", "CANCELLED"}
      /\ assignments'[o].status = "CANCELLED" => assignments[o].status # "none"
  <2>1. assignments \in [Orders -> AssignmentRow]
    BY AssignmentTyped
  <2>2. CASE /\ assignments[o].status \notin {"AWAITING_COURIER", "COURIER_ASSIGNED"}
             /\ UNCHANGED assignments
    <3>1. assignments[o].status \in {"none", "CANCELLED"}
      BY <1>3, <2>2 DEF SerialInv, AssignmentFollows, DeliveryStates, AdminForbidden, TypeInv,
         TypeOK, OrderRow, OrderStatus, Request
    <3>2. QED
      BY <2>2, <3>1
  <2>3. CASE /\ assignments[o].status \in {"AWAITING_COURIER", "COURIER_ASSIGNED"}
             /\ assignments' = [assignments EXCEPT ![o].status = "CANCELLED"]
    BY <2>1, <2>3 DEF AssignmentRow
  <2>4. QED
    BY <1>2, <2>2, <2>3 DEF CancelAssignment
<1>6. Live(o) /\ ~Ended(o) /\ orders[o].status # "IN_DELIVERY"
  BY <1>3 DEF Live, Ended, AdminForbidden
<1>7. usages' = usages \ {o} /\ uses' = IF req[o].promo THEN uses - 1 ELSE uses
  BY <1>2, <1>6, LiveCounts DEF ReturnPromocode
<1>8. \A p \in Orders \ {o} : SameRows(p)
  BY <1>2, <1>4, <1>5 DEF SameRows
<1>9. EntriesGain(o, "REVERSAL")
  BY <1>2, ReverseGains
<1>10. \A t \in Sessions : Fresh(t)'
  BY <1>2, ClosedClaims DEF OneSession
<1>11. QED
  BY <1>2, <1>4, <1>5, <1>6, <1>7, <1>8, <1>9, <1>10, CancelledSerial

LEMMA SetOrderEffect ==
  ASSUME TypeInv, NEW o \in Orders, NEW status, SetOrder(o, status)
  PROVE  /\ orders'[o].status = status
         /\ orders'[o].cancelled_by = orders[o].cancelled_by
         /\ \A p \in Orders \ {o} : orders'[p] = orders[p]
BY DEF SetOrder, TypeInv, TypeOK, OrderRow

\* An order moves on in the kitchen or on its way, by whoever may.
LEMMA ServedSerial ==
  ASSUME TypeInv, SerialInv, NEW o \in Orders,
         UNCHANGED <<req, payments, refunds, uses, usages>>,
         orders[o].status \in Served, ~Ended(o),
         orders'[o].status \in Served \cup {"CANCELLED"},
         orders'[o].cancelled_by = orders[o].cancelled_by,
         \/ UNCHANGED ledger
         \/ orders'[o].status = "COMPLETED" /\ EntriesGain(o, "ACCRUAL"),
         \A p \in Orders \ {o} : SameRows(p), AssignmentFollows(o)',
         \A s \in Sessions : Fresh(s)'
  PROVE  SerialInv'
<1>1. \A p \in Orders : PointsOnce(p)'
  <2>1. CASE UNCHANGED ledger
    BY <2>1, LedgerKeeps, PointsKept DEF SameRows
  <2>2. CASE orders'[o].status = "COMPLETED" /\ EntriesGain(o, "ACCRUAL")
    BY <2>2, PointsGained DEF SameRows
  <2>3. QED
    BY <2>1, <2>2
<1>2. payments[o].status \in Settled
  BY DEF SerialInv, PaymentFollows
<1>3. PaymentFollows(o)'
  BY <1>2 DEF SerialInv, PaymentFollows, Served
<1>4. UsageFollows(o)' /\ OneOpen(o)'
  BY DEF SerialInv, UsageFollows, OneOpen, Live, Served
<1>5. UsesCounted'
  <2>1. ~FailedByPayment(o) /\ ~FailedByPayment(o)'
    BY <1>2 DEF FailedByPayment, Settled
  <2>2. \A p \in Orders : FailedByPayment(p)' <=> FailedByPayment(p)
    BY <2>1, FailedStays DEF SameRows
  <2>3. QED
    BY <2>2, UsesKept
<1>6. QED
  BY <1>1, <1>3, <1>4, <1>5, WrittenSerial

LEMMA TransitionSerial ==
  ASSUME TypeInv, MoneyInv, SerialInv, OneSession, NEW s \in Sessions,
         TransitionCommit(s)
  PROVE  SerialInv'
<1>1. PICK o \in Orders : o = txs[s].order
  BY SessionOrder DEF TransitionCommit, Running
<1> DEFINE to == txs[s].to
<1>2. /\ txs[s].op = "transition" /\ Close(s) /\ SetOrder(o, to) /\ ~ViolatesUnique(s)
      /\ UNCHANGED <<req, payments, refunds, uses, usages>>
      /\ IF StartsDelivery(s)
         THEN assignments' = [assignments EXCEPT ![o] =
                [status |-> "AWAITING_COURIER", courier |-> NoCourier]]
         ELSE UNCHANGED assignments
      /\ IF to = "COMPLETED" THEN AccrueLoyalty(o, BalanceReads(s))
         ELSE UNCHANGED <<balance, ledger>>
  BY <1>1 DEF TransitionCommit, Running, PaymentSide
<1>3. /\ <<orders[o].status, to>> \in AllowedTransitions
      /\ TypeAllows(o, orders[o].status, to) /\ txs[s].ost = orders[o].status
  BY <1>1, <1>2 DEF SerialInv, Fresh, FreshOrder, MoneyInv, SessionKnows
<1>4. to \in OrderStatus /\ orders[o].status \in Served /\ ~Ended(o)
  BY <1>3 DEF AllowedTransitions, OrderStatus, Served, Ended
<1>5. /\ orders'[o].status = to /\ orders'[o].cancelled_by = orders[o].cancelled_by
      /\ \A p \in Orders \ {o} : orders'[p] = orders[p]
  BY <1>2, <1>4, SetOrderEffect
<1>6. /\ \A p \in Orders \ {o} : SameRows(p)
      /\ IF orders[o].status = "PAID" /\ to = "PREPARING" /\ req[o].type = "DELIVERY"
         THEN assignments'[o].status = "AWAITING_COURIER" ELSE UNCHANGED assignments
  BY <1>1, <1>2, <1>3, <1>5 DEF SameRows, StartsDelivery, TypeInv, TypeOK
<1>7. AssignmentFollows(o)'
  <2>1. orders'[o].cancelled_by = "nobody"
    BY <1>4, <1>5 DEF SerialInv, PaymentFollows, Served
  <2>2. CASE req[o].type # "DELIVERY"
    BY <1>2, <1>6, <2>2 DEF SerialInv, AssignmentFollows, DeliveryStates
  <2>3. CASE req[o].type = "DELIVERY"
    <3>1. /\ assignments[o].status \in DeliveryStates(o) /\ req'[o].type = "DELIVERY"
          /\ orders'[o].status = to
      BY <1>2, <1>5, <2>3 DEF SerialInv, AssignmentFollows
    <3>2. CASE orders[o].status = "PAID"
      BY <1>3, <1>6, <2>1, <2>3, <3>1, <3>2
         DEF AssignmentFollows, DeliveryStates, AllowedTransitions
    <3>3. CASE orders[o].status # "PAID"
      <4>1. assignments'[o] = assignments[o]
        BY <1>6, <3>3
      <4>2. QED
        BY <1>3, <2>1, <2>3, <3>1, <3>3, <4>1
           DEF AssignmentFollows, DeliveryStates, AllowedTransitions, TypeAllows
    <3>4. QED
      BY <3>2, <3>3
  <2>4. QED
    BY <2>2, <2>3
<1>8. \/ UNCHANGED ledger
      \/ orders'[o].status = "COMPLETED" /\ EntriesGain(o, "ACCRUAL")
  <2>1. CASE to = "COMPLETED"
    <3>1. AccrueLoyalty(o, BalanceReads(s))
      BY <1>2, <2>1
    <3>2. QED
      BY <1>5, <2>1, <3>1, AccrueGains
  <2>2. CASE to # "COMPLETED"
    <3>1. UNCHANGED <<balance, ledger>>
      BY <1>2, <2>2
    <3>2. QED
      BY <3>1
  <2>3. QED
    BY <2>1, <2>2
<1>9. orders'[o].status \in Served \cup {"CANCELLED"}
  BY <1>3, <1>5 DEF AllowedTransitions, Served
<1>10. \A t \in Sessions : Fresh(t)'
  BY <1>2, ClosedClaims DEF OneSession
<1>11. QED
  BY <1>2, <1>4, <1>5, <1>6, <1>7, <1>8, <1>9, <1>10, ServedSerial

LEMMA CourierSerial ==
  ASSUME TypeInv, SerialInv, OneSession, NEW s \in Sessions,
         PickupCommit(s) \/ DeliverCommit(s)
  PROVE  SerialInv'
<1>1. PICK o \in Orders : o = txs[s].order
  BY SessionOrder DEF PickupCommit, DeliverCommit, Running
<1>2. /\ txs[s].op = "courier" /\ Close(s)
      /\ UNCHANGED <<req, payments, refunds, uses, usages>>
  BY DEF PickupCommit, DeliverCommit, Running, PaymentSide
<1>3. \A t \in Sessions : Fresh(t)'
  BY <1>2, ClosedClaims DEF OneSession
<1>4. assignments \in [Orders -> AssignmentRow]
  BY AssignmentTyped
<1>5. CASE PickupCommit(s)
  <2>1. /\ SetOrder(o, "IN_DELIVERY") /\ UNCHANGED ledger
        /\ assignments' = [assignments EXCEPT ![o].status = "PICKED_UP"]
        /\ txs[s].to = "IN_DELIVERY"
    BY <1>1, <1>5 DEF PickupCommit
  <2>2. orders[o].status = "READY" /\ assignments[o].status = "COURIER_ASSIGNED"
    BY <1>1, <1>2, <2>1 DEF SerialInv, Fresh
  <2>3. /\ orders'[o].status = "IN_DELIVERY" /\ assignments'[o].status = "PICKED_UP"
        /\ orders'[o].cancelled_by = orders[o].cancelled_by
        /\ \A p \in Orders \ {o} : SameRows(p)
    BY <1>2, <1>4, <2>1, SetOrderEffect DEF SameRows, AssignmentRow
  <2>4. AssignmentFollows(o)'
    BY <1>2, <2>2, <2>3 DEF SerialInv, AssignmentFollows, DeliveryStates
  <2>5. QED
    BY <1>2, <1>3, <2>1, <2>2, <2>3, <2>4, ServedSerial DEF Served, Ended
<1>6. CASE DeliverCommit(s)
  <2>1. /\ SetOrder(o, "COMPLETED") /\ AccrueLoyalty(o, BalanceReads(s))
        /\ assignments' = [assignments EXCEPT ![o].status = "DELIVERED"]
        /\ txs[s].to = "COMPLETED"
    BY <1>1, <1>6 DEF DeliverCommit
  <2>2. orders[o].status = "IN_DELIVERY" /\ assignments[o].status = "PICKED_UP"
    BY <1>1, <1>2, <2>1 DEF SerialInv, Fresh
  <2>3. /\ orders'[o].status = "COMPLETED" /\ assignments'[o].status = "DELIVERED"
        /\ orders'[o].cancelled_by = orders[o].cancelled_by
        /\ \A p \in Orders \ {o} : SameRows(p)
    BY <1>2, <1>4, <2>1, SetOrderEffect DEF SameRows, AssignmentRow
  <2>4. AssignmentFollows(o)'
    BY <1>2, <2>2, <2>3 DEF SerialInv, AssignmentFollows, DeliveryStates
  <2>5. EntriesGain(o, "ACCRUAL")
    BY <2>1, AccrueGains
  <2>6. QED
    BY <1>2, <1>3, <2>1, <2>2, <2>3, <2>4, <2>5, ServedSerial DEF Served, Ended
<1>7. QED
  BY <1>5, <1>6

LEMMA AtomicSerial ==
  ASSUME TypeInv, SerialInv, OneSession, NEW o \in Orders,
         AutoClose(o) \/ \E c \in Couriers : TakeAssignment(o, c)
  PROVE  SerialInv'
<1>1. /\ SessionFree /\ orders[o].status = "READY"
      /\ UNCHANGED <<req, payments, refunds, uses, usages, txs>>
  BY DEF AutoClose, TakeAssignment, PaymentSide
<1>2. \A t \in Sessions : Fresh(t)'
  BY <1>1, FreeClaims
<1>3. CASE AutoClose(o)
  <2>1. /\ SetOrder(o, "COMPLETED") /\ AccrueLoyalty(o, {balance})
        /\ req[o].type = "PICKUP" /\ UNCHANGED assignments
    BY <1>3 DEF AutoClose
  <2>2. /\ orders'[o].status = "COMPLETED"
        /\ orders'[o].cancelled_by = orders[o].cancelled_by
        /\ \A p \in Orders \ {o} : SameRows(p)
    BY <1>1, <2>1, SetOrderEffect DEF SameRows
  <2>3. AssignmentFollows(o)' /\ EntriesGain(o, "ACCRUAL")
    BY <1>1, <2>1, <2>2, AccrueGains DEF SerialInv, AssignmentFollows, DeliveryStates
  <2>4. QED
    BY <1>1, <1>2, <2>2, <2>3, ServedSerial DEF Served, Ended
<1>4. ASSUME NEW c \in Couriers, TakeAssignment(o, c)
      PROVE  SerialInv'
  <2>1. /\ assignments' = [assignments EXCEPT ![o] =
             [status |-> "COURIER_ASSIGNED", courier |-> c]]
        /\ assignments[o].status = "AWAITING_COURIER" /\ UNCHANGED <<orders, ledger>>
    BY <1>4 DEF TakeAssignment
  <2>2. /\ assignments'[o].status = "COURIER_ASSIGNED"
        /\ \A p \in Orders \ {o} : SameRows(p)
    BY <1>1, <2>1, AssignmentTyped DEF SameRows
  <2>3. AssignmentFollows(o)'
    BY <1>1, <2>1, <2>2 DEF SerialInv, AssignmentFollows, DeliveryStates
  <2>4. QED
    BY <1>1, <1>2, <2>1, <2>2, <2>3, ServedSerial DEF Served, Ended
<1>5. QED
  BY <1>3, <1>4

-----------------------------------------------------------------------------
(* The payment worker and the webhook                                      *)

\* The payment of order o and its refunds are written, the order is not.
LEMMA PaymentSerial ==
  ASSUME TypeInv, SerialInv, NEW o \in Orders,
         UNCHANGED <<req, orders, assignments, ledger, uses, usages>>,
         \A p \in Orders \ {o} : payments'[p] = payments[p] /\ refunds'[p] = refunds[p],
         PaymentFollows(o)', OneOpen(o)', FailedByPayment(o)' <=> FailedByPayment(o),
         \A s \in Sessions : Fresh(s)'
  PROVE  SerialInv'
<1>1. \A p \in Orders \ {o} : SameRows(p)
  BY DEF SameRows
<1>2. \A p \in Orders : PointsOnce(p)'
  BY LedgerKeeps, PointsKept
<1>3. UsesCounted'
  <2>1. \A p \in Orders : FailedByPayment(p)' <=> FailedByPayment(p)
    BY FailedStays
  <2>2. QED
    BY <2>1, UsesKept
<1>4. AssignmentFollows(o)' /\ UsageFollows(o)'
  BY DEF SerialInv, AssignmentFollows, DeliveryStates, UsageFollows, Live
<1>5. QED
  BY <1>1, <1>2, <1>3, <1>4, WrittenSerial

\* A created order is cancelled because its payment failed.
LEMMA FailedSerial ==
  ASSUME TypeInv, SerialInv, NEW s \in Sessions, NEW o \in Orders,
         orders[o].status = "CREATED", txs[s].uses = uses,
         SetPayment(o, "PAYMENT_FAILED"), SetOrder(o, "CANCELLED"), ReverseInLedger(o),
         DecrementPromocode(s, o), UNCHANGED <<req, assignments, refunds>>,
         \A t \in Sessions : Fresh(t)'
  PROVE  SerialInv'
<1>1. Live(o) /\ ~Ended(o) /\ orders[o].status # "IN_DELIVERY"
  BY DEF Live, Ended
<1>2. /\ orders'[o].status = "CANCELLED" /\ orders'[o].cancelled_by = "nobody"
      /\ payments'[o].status = "PAYMENT_FAILED"
      /\ \A p \in Orders \ {o} : SameRows(p)
  BY SetOrderEffect, PaymentWritten DEF SameRows, SerialInv, PaymentFollows
<1>3. uses' = (IF req[o].promo THEN uses - 1 ELSE uses) /\ UNCHANGED usages
  BY <1>1, LiveCounts DEF DecrementPromocode, UsesReads
<1>4. EntriesGain(o, "REVERSAL")
  BY ReverseGains
<1>5. UNCHANGED <<req, refunds>> /\ UNCHANGED assignments
  OBVIOUS
<1>6. QED
  BY <1>1, <1>2, <1>3, <1>4, <1>5, CancelledSerial

LEMMA CreateSaveSerial ==
  ASSUME TypeInv, BookInv, SerialInv, OneSession, NEW k \in tasks, CreateSave(k)
  PROVE  SerialInv'
<1> DEFINE o == k.order
<1>1. /\ k.kind = "create" /\ SessionFree
      /\ UNCHANGED <<req, orders, assignments, refunds, ledger, uses, usages, txs>>
      /\ payments' = [payments EXCEPT ![o] =
           [status |-> "AWAITING_CONFIRMATION", linked |-> TRUE]]
  BY DEF CreateSave, ApiSide
<1>2. Unasked(o) /\ o \in Orders
  BY <1>1, CreateTaskKnows
<1> HIDE DEF o
<1>3. /\ payments'[o].status = "AWAITING_CONFIRMATION" /\ payments[o].status = "PENDING"
      /\ \A p \in Orders \ {o} : payments'[p] = payments[p]
  BY <1>1, <1>2 DEF TypeInv, TypeOK, Unasked
<1>4. PaymentFollows(o)' /\ OneOpen(o)' /\ (FailedByPayment(o)' <=> FailedByPayment(o))
  BY <1>1, <1>2, <1>3
     DEF SerialInv, PaymentFollows, OneOpen, FailedByPayment, Settled
<1>5. \A t \in Sessions : Fresh(t)'
  BY <1>1, FreeClaims
<1>6. QED
  BY <1>1, <1>2, <1>3, <1>4, <1>5, PaymentSerial

\* An order whose payment was not asked for, or not paid, when it was
\* cancelled: its payment fails afterwards.
LEMMA FailsCancelled ==
  ASSUME TypeInv, SerialInv, NEW o \in Orders, orders[o].status = "CANCELLED",
         payments[o].status \in {"PENDING", "AWAITING_CONFIRMATION"},
         SetPayment(o, "PAYMENT_FAILED"),
         UNCHANGED <<req, orders, assignments, refunds, ledger, uses, usages>>,
         \A t \in Sessions : Fresh(t)'
  PROVE  SerialInv'
<1>1. orders[o].cancelled_by # "nobody"
  BY DEF SerialInv, PaymentFollows, Settled
<1>2. \A p \in Orders \ {o} : payments'[p] = payments[p]
  BY PaymentWritten
<1>3. PaymentFollows(o)' /\ OneOpen(o)' /\ ~FailedByPayment(o) /\ ~FailedByPayment(o)'
  BY <1>1 DEF SerialInv, PaymentFollows, OneOpen, FailedByPayment, Served
<1>4. QED
  BY <1>2, <1>3, PaymentSerial

LEMMA CompensateSerial ==
  ASSUME TypeInv, BookInv, SerialInv, OneSession, NEW s \in Sessions,
         CompensateCommit(s)
  PROVE  SerialInv'
<1>1. PICK o \in Orders : o = txs[s].order
  BY SessionOrder DEF CompensateCommit, Running
<1>2. /\ txs[s].op = "compensate" /\ SetPayment(o, "PAYMENT_FAILED") /\ Close(s)
      /\ UNCHANGED <<req, assignments, refunds>>
  BY <1>1 DEF CompensateCommit, Running, ApiSide
<1>3. /\ payments[o].status = "PENDING" /\ orders[o].status # "none"
      /\ txs[s].ost = orders[o].status /\ txs[s].uses = uses
  BY <1>1, <1>2
     DEF BookInv, SessionBook, CreatesNow, Unasked, Unplaced, SerialInv, Fresh, FreshOrder
<1>4. \A t \in Sessions : Fresh(t)'
  BY <1>2, ClosedClaims DEF OneSession
<1>5. CASE orders[o].status = "CANCELLED"
  <2>1. UNCHANGED <<orders, stock, balance, ledger, uses, usages>>
    BY <1>3, <1>5 DEF CompensateCommit
  <2>2. QED
    BY <1>2, <1>3, <1>4, <1>5, <2>1, FailsCancelled
<1>6. CASE orders[o].status # "CANCELLED"
  <2>1. orders[o].status = "CREATED"
    <3>1. orders[o].status \notin Served
      BY <1>3 DEF SerialInv, PaymentFollows, Settled
    <3>2. orders[o].status \in OrderStatus \cup {"none"}
      BY DEF TypeInv, TypeOK, OrderRow
    <3>3. QED
      BY <1>3, <1>6, <3>1, <3>2 DEF Served, OrderStatus
  <2>2. /\ SetOrder(o, "CANCELLED") /\ ReverseInLedger(o) /\ DecrementPromocode(s, o)
    BY <1>1, <1>3, <1>6 DEF CompensateCommit, FailOrder
  <2>3. QED
    BY <1>2, <1>3, <1>4, <2>1, <2>2, FailedSerial
<1>7. QED
  BY <1>5, <1>6

\* Refund rows of one order, as the tasks and the webhook write them.
LEMMA RefundsTyped ==
  ASSUME TypeInv, NEW o \in Orders
  PROVE  /\ refunds \in [Orders -> Seq(RefundRow)]
         /\ \A i \in DOMAIN refunds[o] : refunds[o][i] \in RefundRow
<1>1. refunds \in [Orders -> Seq(RefundRow)]
  BY DEF TypeInv, TypeOK
<1>2. refunds[o] \in Seq(RefundRow)
  BY <1>1
<1>3. QED
  BY <1>1, <1>2

\* A row is written that is not open afterwards, or was open before.
LEMMA RowWritten ==
  ASSUME TypeInv, SerialInv, NEW o \in Orders, NEW row,
         \/ \E key : refunds' = [refunds EXCEPT ![o][row].key = key]
         \/ refunds' = [refunds EXCEPT ![o][row].status = "FAILED"]
         \/ \E key : \E status \in {"SUCCEEDED", "FAILED"} :
              refunds' = [refunds EXCEPT ![o][row] = [status |-> status, key |-> key]]
  PROVE  OneOpen(o)' /\ \A p \in Orders \ {o} : refunds'[p] = refunds[p]
<1>1. /\ refunds \in [Orders -> Seq(RefundRow)]
      /\ \A i \in DOMAIN refunds[o] : refunds[o][i] \in RefundRow
  BY RefundsTyped
<1>2. refunds[o] \in Seq(RefundRow)
  BY <1>1
<1>3. \A p \in Orders \ {o} : refunds'[p] = refunds[p]
  BY <1>1
<1>4. PICK new : refunds'[o] = [refunds[o] EXCEPT ![row] = new]
  BY <1>1
<1>5. DOMAIN refunds'[o] = DOMAIN refunds[o]
  BY <1>2, <1>4
<1>6. \A i \in DOMAIN refunds[o] :
        refunds'[o][i].status = "PENDING" => refunds[o][i].status = "PENDING"
  <2> SUFFICES ASSUME NEW i \in DOMAIN refunds[o], refunds'[o][i].status = "PENDING"
               PROVE  refunds[o][i].status = "PENDING"
    OBVIOUS
  <2>1. CASE \E key : refunds' = [refunds EXCEPT ![o][row].key = key]
    BY <1>1, <1>2, <2>1 DEF RefundRow
  <2>2. CASE refunds' = [refunds EXCEPT ![o][row].status = "FAILED"]
    BY <1>1, <1>2, <2>2 DEF RefundRow
  <2>3. CASE \E key : \E status \in {"SUCCEEDED", "FAILED"} :
               refunds' = [refunds EXCEPT ![o][row] = [status |-> status, key |-> key]]
    BY <1>1, <1>2, <2>3
  <2>4. QED
    BY <2>1, <2>2, <2>3
<1>7. OneOpen(o)'
  BY <1>5, <1>6 DEF SerialInv, OneOpen
<1>8. QED
  BY <1>3, <1>7

\* What a booked payment becomes when it stays booked.
LEMMA SettledSerial ==
  ASSUME TypeInv, SerialInv, NEW o \in Orders, payments[o].status \in Settled,
         UNCHANGED payments \/ (\E status \in Settled : SetPayment(o, status)),
         UNCHANGED <<req, orders, assignments, ledger, uses, usages>>,
         OneOpen(o)', \A p \in Orders \ {o} : refunds'[p] = refunds[p],
         \A t \in Sessions : Fresh(t)'
  PROVE  SerialInv'
<1>1. /\ payments'[o].status \in Settled
      /\ \A p \in Orders \ {o} : payments'[p] = payments[p]
  BY PaymentWritten
<1>2. PaymentFollows(o)' /\ ~FailedByPayment(o) /\ ~FailedByPayment(o)'
  BY <1>1 DEF SerialInv, PaymentFollows, FailedByPayment, Settled
<1>3. QED
  BY <1>1, <1>2, PaymentSerial

LEMMA RefundSerial ==
  ASSUME TypeInv, BookInv, SerialInv, OneSession, NEW s \in Sessions,
         RefundOpenCommit(s) \/ RefundSaveCommit(s)
  PROVE  SerialInv'
<1>1. PICK o \in Orders : o = txs[s].order
  BY SessionOrder DEF RefundOpenCommit, RefundSaveCommit, Running
<1>2. /\ Close(s) /\ UNCHANGED <<req, orders, assignments, ledger, uses, usages>>
  BY DEF RefundOpenCommit, RefundSaveCommit, ApiSide
<1>3. payments[o].status \in Settled
  BY <1>1 DEF RefundOpenCommit, RefundSaveCommit, Running, BookInv, SessionBook, Booked
<1>4. \A t \in Sessions : Fresh(t)'
  BY <1>2, ClosedClaims DEF OneSession
<1>5. CASE RefundOpenCommit(s)
  <2> DEFINE new == [status |-> "PENDING", key |-> NoKey]
  <2>1. /\ refunds' = [refunds EXCEPT ![o] = Append(refunds[o], new)]
        /\ UNCHANGED payments /\ txs[s].op = "refundOpen"
    BY <1>1, <1>5 DEF RefundOpenCommit, Running
  <2>2. \A i \in DOMAIN refunds[o] : refunds[o][i].status # "PENDING"
    BY <1>1, <2>1 DEF SerialInv, Fresh
  <2> HIDE DEF new
  <2>3. refunds \in [Orders -> Seq(RefundRow)] /\ refunds[o] \in Seq(RefundRow)
    BY DEF TypeInv, TypeOK
  <2>4. /\ refunds'[o] = Append(refunds[o], new)
        /\ \A p \in Orders \ {o} : refunds'[p] = refunds[p]
    BY <2>1, <2>3
  <2>5. /\ DOMAIN refunds[o] = 1 .. Len(refunds[o])
        /\ DOMAIN refunds'[o] = 1 .. Len(refunds[o]) + 1
        /\ \A i \in 1 .. Len(refunds[o]) : refunds'[o][i] = refunds[o][i]
    BY <2>3, <2>4
  <2>6. Len(refunds[o]) \in Nat
    BY <2>3
  <2>7. OneOpen(o)'
    BY <2>2, <2>5, <2>6 DEF OneOpen
  <2>8. QED
    BY <1>2, <1>3, <1>4, <2>1, <2>4, <2>7, SettledSerial
<1>6. CASE RefundSaveCommit(s)
  <2>1. /\ refunds' = [refunds EXCEPT ![o][txs[s].row].key = txs[s].key]
        /\ UNCHANGED payments \/ SetPayment(o, "REFUND_PENDING")
    BY <1>1, <1>6 DEF RefundSaveCommit
  <2>2. OneOpen(o)' /\ \A p \in Orders \ {o} : refunds'[p] = refunds[p]
    BY <2>1, RowWritten
  <2>3. UNCHANGED payments \/ (\E status \in Settled : SetPayment(o, status))
    BY <2>1 DEF Settled
  <2>4. QED
    BY <1>2, <1>3, <1>4, <2>2, <2>3, SettledSerial
<1>7. QED
  BY <1>5, <1>6

LEMMA RefundFailSerial ==
  ASSUME TypeInv, BookInv, SerialInv, OneSession, NEW k \in tasks, RefundFail(k)
  PROVE  SerialInv'
<1>1. /\ refunds' = [refunds EXCEPT ![k.order][k.row].status = "FAILED"]
      /\ k.kind = "refund" /\ k.phase = "failed" /\ SessionFree
      /\ UNCHANGED <<req, orders, payments, assignments, ledger, uses, usages, txs>>
  BY DEF RefundFail, ApiSide
<1>2. PICK o \in Orders : o = k.order
  BY TaskTyped
<1>3. payments[o].status \in Settled
  BY <1>1, <1>2 DEF BookInv, TaskBook, Booked
<1>4. OneOpen(o)' /\ \A p \in Orders \ {o} : refunds'[p] = refunds[p]
  BY <1>1, <1>2, RowWritten
<1>5. \A t \in Sessions : Fresh(t)'
  BY <1>1, FreeClaims
<1>6. QED
  BY <1>1, <1>3, <1>4, <1>5, SettledSerial

LEMMA HookSerial ==
  ASSUME TypeInv, BookInv, SerialInv, OneSession, NEW s \in Sessions,
         \/ HookPaid(s) \/ HookUnpaid(s) \/ HookUnpaidCancelled(s)
         \/ HookRefunded(s) \/ HookRefundCanceled(s)
  PROVE  SerialInv'
<1>1. /\ Running(s, "hook", "read") /\ UNCHANGED <<req, assignments>>
      /\ \E phase \in {"clear", "mark"} : txs' = [txs EXCEPT ![s].phase = phase]
  BY DEF HookPaid, HookUnpaid, HookUnpaidCancelled, HookRefunded,
         HookRefundCanceled, SettleRefund, Saw, ApiAndTasks
<1>2. PICK o \in Orders : o = txs[s].order
  BY <1>1, SessionOrder DEF Running
<1>3. \A t \in Sessions : Fresh(t)'
  BY <1>1, PhaseClaims DEF OneSession, Running
<1>4. /\ txs[s].ost = orders[o].status /\ txs[s].uses = uses
      /\ txs[s].pst \in {"AWAITING_CONFIRMATION", "REFUND_PENDING"} =>
           payments[o].status = txs[s].pst
  BY <1>1, <1>2 DEF SerialInv, Fresh, FreshOrder, BookInv, SessionBook
<1>5. CASE HookPaid(s)
  <2>1. /\ SetPayment(o, "SUCCEEDED") /\ SetOrder(o, "PAID") /\ ConfirmReservation(o)
        /\ txs[s].ost = "CREATED" /\ txs[s].pst = "AWAITING_CONFIRMATION"
        /\ UNCHANGED <<refunds, uses, usages>>
    BY <1>2, <1>5 DEF HookPaid, SeesOpenPayment
  <2>2. /\ orders'[o].status = "PAID" /\ orders'[o].cancelled_by = "nobody"
        /\ orders[o].status = "CREATED" /\ payments'[o].status = "SUCCEEDED"
        /\ \A p \in Orders \ {o} : SameRows(p)
    <3>1. /\ orders'[o].status = "PAID" /\ orders'[o].cancelled_by = orders[o].cancelled_by
          /\ \A p \in Orders \ {o} : orders'[p] = orders[p]
      BY <2>1, SetOrderEffect
    <3>2. orders[o].status = "CREATED" /\ orders[o].cancelled_by = "nobody"
      BY <1>4, <2>1 DEF SerialInv, PaymentFollows
    <3>3. /\ payments'[o].status = "SUCCEEDED"
          /\ \A p \in Orders \ {o} : payments'[p] = payments[p]
      BY <2>1, PaymentWritten
    <3>4. QED
      BY <1>1, <2>1, <3>1, <3>2, <3>3 DEF SameRows
  <2>3. \A p \in Orders : PointsOnce(p)'
    BY <2>1, <2>2, ConfirmKeeps, PointsKept DEF SameRows, Ended
  <2>4. UsesCounted'
    <3>1. \A p \in Orders : FailedByPayment(p)' <=> FailedByPayment(p)
      <4>1. ~FailedByPayment(o) /\ ~FailedByPayment(o)'
        BY <2>2 DEF FailedByPayment
      <4>2. QED
        BY <2>2, <4>1, FailedStays DEF SameRows
    <3>2. QED
      BY <2>1, <3>1, UsesKept
  <2>5. PaymentFollows(o)' /\ AssignmentFollows(o)' /\ OneOpen(o)' /\ UsageFollows(o)'
    BY <1>1, <2>1, <2>2 DEF SerialInv, PaymentFollows, AssignmentFollows, DeliveryStates, OneOpen,
       UsageFollows, Live, Settled
  <2>6. QED
    BY <1>1, <1>3, <2>1, <2>2, <2>3, <2>4, <2>5, WrittenSerial
<1>6. CASE HookUnpaid(s)
  <2>1. /\ SetPayment(o, "PAYMENT_FAILED") /\ SetOrder(o, "CANCELLED")
        /\ ReverseInLedger(o) /\ DecrementPromocode(s, o)
        /\ txs[s].ost = "CREATED" /\ UNCHANGED refunds
    BY <1>2, <1>6 DEF HookUnpaid, SeesOpenPayment
  <2>2. UNCHANGED <<req, assignments, refunds>>
    BY <1>1, <2>1
  <2>3. QED
    BY <1>3, <1>4, <2>1, <2>2, FailedSerial
<1>7. CASE HookUnpaidCancelled(s)
  <2>1. /\ SetPayment(o, "PAYMENT_FAILED") /\ txs[s].pst = "AWAITING_CONFIRMATION"
        /\ txs[s].ost = "CANCELLED"
        /\ UNCHANGED <<req, orders, assignments, refunds, ledger, uses, usages>>
    BY <1>1, <1>2, <1>7 DEF HookUnpaidCancelled, SeesCancelledOrder
  <2>2. QED
    BY <1>3, <1>4, <2>1, FailsCancelled
<1>8. CASE HookRefunded(s) \/ HookRefundCanceled(s)
  <2>1. /\ txs[s].pst = "REFUND_PENDING"
        /\ UNCHANGED <<req, orders, assignments, ledger, uses, usages>>
        /\ \E key : \E status \in {"SUCCEEDED", "FAILED"} :
             refunds' = [refunds EXCEPT ![o][txs[s].row] =
                           [status |-> status, key |-> key]]
        /\ \E status \in Settled : SetPayment(o, status)
    BY <1>1, <1>2, <1>8 DEF HookRefunded, HookRefundCanceled, SettleRefund,
       SeesPendingRefund, Settled
  <2>2. OneOpen(o)' /\ \A p \in Orders \ {o} : refunds'[p] = refunds[p]
    BY <2>1, RowWritten
  <2>3. payments[o].status \in Settled
    BY <1>4, <2>1 DEF Settled
  <2>4. QED
    BY <1>3, <2>1, <2>2, <2>3, SettledSerial
<1>9. QED
  BY <1>5, <1>6, <1>7, <1>8

-----------------------------------------------------------------------------
(* SerialInv is inductive, and what it is for                              *)

LEMMA InitSerial == TypeInv /\ Init => SerialInv
<1> SUFFICES ASSUME TypeInv, Init PROVE SerialInv
  OBVIOUS
<1>1. \A s \in Sessions : Fresh(s)
  BY DEF Init, Fresh, FreshOrder, Running, IdleTx
<1>2. ASSUME NEW o \in Orders
      PROVE  PaymentFollows(o) /\ AssignmentFollows(o) /\ OneOpen(o) /\ UsageFollows(o)
  BY DEF Init, PaymentFollows, AssignmentFollows, DeliveryStates, OneOpen, UsageFollows, Served, Live
<1>3. ASSUME NEW o \in Orders PROVE PointsOnce(o)
  <2>1. \A i \in DOMAIN ledger : ledger[i].type = "ADMIN_ADJUSTMENT"
    <3>1. CASE ledger = <<>>
      BY <3>1
    <3>2. CASE ledger = <<LedgerEntry(NoOrder, "ADMIN_ADJUSTMENT", InitialBalance,
                                      InitialBalance)>>
      BY <3>2 DEF LedgerEntry
    <3>3. QED
      BY <3>1, <3>2 DEF Init
  <2>2. Entries(o, "REVERSAL") = {} /\ Entries(o, "ACCRUAL") = {}
    BY <2>1 DEF Entries
  <2>3. QED
    BY <2>2 DEF PointsOnce
<1>4. UsesCounted
  <2>1. usages = {} /\ uses = 0
    BY DEF Init
  <2>2. {o \in usages : ~FailedByPayment(o)} = {}
    BY <2>1
  <2>3. QED
    BY <2>1, <2>2, FS_EmptySet DEF UsesCounted, UsagesExplainUses
<1>5. QED
  BY <1>1, <1>2, <1>3, <1>4 DEF SerialInv

LEMMA NextSerial ==
  OneSession /\ TypeInv /\ MoneyInv /\ BookInv /\ SerialInv /\ [Next]_vars => SerialInv'
<1> SUFFICES ASSUME OneSession, TypeInv, MoneyInv, BookInv, SerialInv, [Next]_vars
             PROVE  SerialInv'
  OBVIOUS
<1>1. ASSUME NEW s \in Sessions, Begin(s) \/ Step(s) \/ SessionLost(s)
      PROVE  SerialInv'
  <2>1. CASE Begin(s) \/ SessionLost(s) \/ IntegrityError(s)
    BY <2>1, SessionQuiet
  <2>2. CASE CoreApiStep(s)
    BY <2>2, SessionQuiet, CheckoutCommitSerial, CancelCommitSerial, TransitionSerial,
       CourierSerial DEF CoreApiStep
  <2>3. CASE WorkerStep(s)
    BY <2>3, CompensateSerial, RefundSerial DEF WorkerStep
  <2>4. CASE HookStep(s)
    BY <2>4, SessionQuiet, HookSerial DEF HookStep
  <2>5. QED
    BY <1>1, <2>1, <2>2, <2>3, <2>4 DEF Step
<1>2. CASE CoreApiAtomic
  BY <1>2, AroundQuiet, AtomicSerial DEF CoreApiAtomic
<1>3. CASE TaskStep \/ (\E k \in tasks : TaskLost(k))
  BY <1>3, AroundQuiet, CreateSaveSerial, RefundFailSerial DEF TaskStep
<1>4. CASE YuKassaStep \/ UNCHANGED vars
  BY <1>4, AroundQuiet
<1>5. QED
  BY <1>1, <1>2, <1>3, <1>4 DEF Next

\* With one session, the rows of an order move together.
THEOREM SerialKnown == OneSession => (Spec => []SerialInv)
<1> SUFFICES ASSUME OneSession PROVE Spec => []SerialInv
  OBVIOUS
<1>1. TypeInv /\ MoneyInv /\ BookInv /\ SerialInv /\ [Next]_vars => SerialInv'
  BY NextSerial
<1>2. QED
  BY <1>1, InitTyped, NextTyped, InitKnows, NextKnows, InitBook, NextBook, InitSerial, PTL
     DEF Spec

\* Over every handler that moves an order, cancels it, or moves its courier on:
\* a delivery is where its order lets it be.  What PATCH leaves behind on
\* cancelled and completed orders is in DeliveryStates.
THEOREM AssignmentsFollow == OneSession => (Spec => []AssignmentFollowsOrder)
<1>1. SerialInv => AssignmentFollowsOrder
  BY DEF SerialInv, AssignmentFollows, AssignmentFollowsOrder
<1>2. QED
  BY <1>1, SerialKnown, PTL

\* However often a refund is asked for, one at most is open.
THEOREM RefundsOneByOne == OneSession => (Spec => []OneOpenRefund)
<1>1. SerialInv => OneOpenRefund
  <2> SUFFICES ASSUME SerialInv, NEW o \in Orders
               PROVE  Cardinality({i \in DOMAIN refunds[o] :
                                     refunds[o][i].status = "PENDING"}) <= 1
    BY DEF OneOpenRefund
  <2> DEFINE open == {i \in DOMAIN refunds[o] : refunds[o][i].status = "PENDING"}
  <2>1. \A i, j \in open : i = j
    BY DEF SerialInv, OneOpen
  <2> HIDE DEF open
  <2>2. Cardinality(open) <= 1
    BY <2>1, AtMostOne
  <2>3. QED
    BY <2>2 DEF open
<1>2. QED
  BY <1>1, SerialKnown, PTL

\* Points go back, or are earned, once, and by an order that ended so.
THEOREM PointsKnown == OneSession => (Spec => []PointsMovedOnce)
<1>1. SerialInv => PointsMovedOnce
  <2> SUFFICES ASSUME SerialInv, NEW o \in Orders
               PROVE  /\ Cardinality(Entries(o, "REVERSAL")) <= 1
                      /\ Cardinality(Entries(o, "ACCRUAL")) <= 1
                      /\ Entries(o, "REVERSAL") # {} => orders[o].status = "CANCELLED"
                      /\ Entries(o, "ACCRUAL") # {} => orders[o].status = "COMPLETED"
    BY DEF PointsMovedOnce
  <2>1. PointsOnce(o)
    BY DEF SerialInv
  <2>2. QED
    BY <2>1, AtMostOne DEF PointsOnce
<1>2. QED
  BY <1>1, SerialKnown, PTL

\* The counter of a promocode is the number of its usage rows, short of the
\* orders that a failed payment cancelled.
THEOREM UsesKnown == OneSession => (Spec => []UsagesExplainUses)
<1>1. SerialInv => UsagesExplainUses
  BY DEF SerialInv, UsesCounted
<1>2. QED
  BY <1>1, SerialKnown, PTL

-----------------------------------------------------------------------------
(* The statuses that follow each other                                     *)

LegalStep(o) ==
  /\ orders'[o].status # orders[o].status =>
       <<orders[o].status, orders'[o].status>> \in LegalSteps(o)
  /\ payments'[o].status # payments[o].status =>
       <<payments[o].status, payments'[o].status>> \in LegalPayments

\* The rows of one order are written, and go on to a legal status.
LEMMA LegalWrite ==
  ASSUME NEW o \in Orders,
         \A p \in Orders \ {o} : /\ orders'[p].status = orders[p].status
                                 /\ payments'[p].status = payments[p].status,
         LegalStep(o)
  PROVE  \A p \in Orders : LegalStep(p)
BY DEF LegalStep

LEMMA CheckoutLegal ==
  ASSUME TypeInv, BookInv, NEW s \in Sessions, CheckoutCommit(s)
  PROVE  \A p \in Orders : LegalStep(p)
<1>1. PICK o \in Orders : o = txs[s].order
  BY SessionOrder DEF CheckoutCommit, Running
<1> DEFINE total == OrderTotal(o, txs[s].bal)
           points == AppliedPoints(o, txs[s].bal)
<1>2. /\ orders[o].status = "none"
      /\ orders' = [orders EXCEPT ![o] =
           [status |-> IF total = 0 THEN "PAID" ELSE "CREATED",
            cancelled_by |-> "nobody", points_used |-> points, total |-> total]]
      /\ payments' = [payments EXCEPT ![o] =
           [status |-> IF total = 0 THEN "SUCCEEDED" ELSE "PENDING",
            linked |-> FALSE]]
  BY <1>1 DEF CheckoutCommit
<1>3. payments[o].status = "none"
  BY <1>2 DEF BookInv, Unplaced
<1> HIDE DEF total, points
<1>4. /\ orders'[o].status = IF total = 0 THEN "PAID" ELSE "CREATED"
      /\ payments'[o].status = IF total = 0 THEN "SUCCEEDED" ELSE "PENDING"
      /\ \A p \in Orders \ {o} : orders'[p] = orders[p] /\ payments'[p] = payments[p]
  BY <1>2 DEF TypeInv, TypeOK
<1>5. LegalStep(o)
  BY <1>2, <1>3, <1>4 DEF LegalStep, LegalSteps, LegalPayments
<1>6. QED
  BY <1>4, <1>5, LegalWrite

\* Staff, couriers and the auto-close job.
LEMMA StaffLegal ==
  ASSUME TypeInv, MoneyInv, SerialInv, NEW s \in Sessions,
         \/ CancelCommit(s) \/ TransitionCommit(s) \/ PickupCommit(s) \/ DeliverCommit(s)
  PROVE  \A p \in Orders : LegalStep(p)
<1>1. PICK o \in Orders : o = txs[s].order
  BY SessionOrder
     DEF CancelCommit, TransitionCommit, PickupCommit, DeliverCommit, Running
<1>2. UNCHANGED <<req, payments>>
  BY DEF CancelCommit, TransitionCommit, PickupCommit, DeliverCommit
<1>3. orders[o].status \in OrderStatus \cup {"none"}
  BY DEF TypeInv, TypeOK, OrderRow
<1>4. req[o].type \in {"PICKUP", "DELIVERY"}
  BY ConstantsOK DEF TypeInv, TypeOK, Request
<1>5. PICK to :
        /\ orders'[o].status = to
        /\ \A p \in Orders \ {o} : orders'[p] = orders[p]
        /\ <<orders[o].status, to>> \in LegalSteps(o)
  <2>1. CASE CancelCommit(s)
    <3>1. /\ orders' = [orders EXCEPT ![o].status = "CANCELLED",
                                      ![o].cancelled_by = txs[s].by]
          /\ txs[s].op = "cancel"
      BY <1>1, <2>1 DEF CancelCommit, Running
    <3>2. orders[o].status \notin AdminForbidden \cup {"none"}
      BY <1>1, <3>1 DEF SerialInv, Fresh
    <3>3. <<orders[o].status, "CANCELLED">> \in LegalSteps(o)
      BY <1>3, <3>2 DEF AdminForbidden, OrderStatus, LegalSteps
    <3>4. /\ orders'[o].status = "CANCELLED"
          /\ \A p \in Orders \ {o} : orders'[p] = orders[p]
      BY <3>1 DEF TypeInv, TypeOK, OrderRow
    <3>5. QED
      BY <3>3, <3>4
  <2>2. CASE TransitionCommit(s)
    <3>1. SetOrder(o, txs[s].to) /\ txs[s].op = "transition"
      BY <1>1, <2>2 DEF TransitionCommit, Running
    <3>2. /\ <<orders[o].status, txs[s].to>> \in AllowedTransitions
          /\ TypeAllows(o, orders[o].status, txs[s].to)
      BY <1>1, <3>1 DEF SerialInv, Fresh, FreshOrder, MoneyInv, SessionKnows
    <3>3. <<orders[o].status, txs[s].to>> \in LegalSteps(o)
      BY <1>4, <3>2 DEF AllowedTransitions, TypeAllows, LegalSteps
    <3>4. QED
      BY <3>1, <3>3, SetOrderEffect
  <2>3. CASE PickupCommit(s)
    <3>1. SetOrder(o, "IN_DELIVERY") /\ txs[s].op = "courier" /\ txs[s].to = "IN_DELIVERY"
      BY <1>1, <2>3 DEF PickupCommit, Running
    <3>2. orders[o].status = "READY" /\ assignments[o].status = "COURIER_ASSIGNED"
      BY <1>1, <3>1 DEF SerialInv, Fresh
    <3>3. req[o].type = "DELIVERY"
      BY <3>2 DEF SerialInv, AssignmentFollows, DeliveryStates
    <3>4. <<orders[o].status, "IN_DELIVERY">> \in LegalSteps(o)
      BY <3>2, <3>3 DEF LegalSteps
    <3>5. QED
      BY <3>1, <3>4, SetOrderEffect
  <2>4. CASE DeliverCommit(s)
    <3>1. SetOrder(o, "COMPLETED") /\ txs[s].op = "courier" /\ txs[s].to = "COMPLETED"
      BY <1>1, <2>4 DEF DeliverCommit, Running
    <3>2. orders[o].status = "IN_DELIVERY"
      BY <1>1, <3>1 DEF SerialInv, Fresh
    <3>3. <<orders[o].status, "COMPLETED">> \in LegalSteps(o)
      BY <3>2 DEF LegalSteps
    <3>4. QED
      BY <3>1, <3>3, SetOrderEffect
  <2>5. QED
    BY <2>1, <2>2, <2>3, <2>4
<1>6. LegalStep(o)
  BY <1>2, <1>5 DEF LegalStep
<1>7. QED
  BY <1>2, <1>5, <1>6, LegalWrite

LEMMA AutoCloseLegal ==
  ASSUME TypeInv, NEW o \in Orders, AutoClose(o)
  PROVE  \A p \in Orders : LegalStep(p)
<1>1. /\ SetOrder(o, "COMPLETED") /\ UNCHANGED payments
      /\ orders[o].status = "READY" /\ req[o].type = "PICKUP"
  BY DEF AutoClose
<1>2. LegalStep(o)
  BY <1>1, SetOrderEffect DEF LegalStep, LegalSteps
<1>3. QED
  BY <1>1, <1>2, SetOrderEffect, LegalWrite

\* The worker's and the webhook's writes of a payment, and of its order.
LEMMA TasksLegal ==
  ASSUME TypeInv, BookInv, SerialInv, NEW k \in tasks, CreateSave(k)
  PROVE  \A p \in Orders : LegalStep(p)
<1> DEFINE o == k.order
<1>1. /\ k.kind = "create" /\ UNCHANGED orders
      /\ payments' = [payments EXCEPT ![o] =
           [status |-> "AWAITING_CONFIRMATION", linked |-> TRUE]]
  BY DEF CreateSave
<1>2. Unasked(o) /\ o \in Orders
  BY <1>1, CreateTaskKnows
<1> HIDE DEF o
<1>3. /\ payments'[o].status = "AWAITING_CONFIRMATION" /\ payments[o].status = "PENDING"
      /\ \A p \in Orders \ {o} : payments'[p] = payments[p]
  BY <1>1, <1>2 DEF TypeInv, TypeOK, Unasked
<1>4. LegalStep(o)
  BY <1>1, <1>3 DEF LegalStep, LegalPayments
<1>5. QED
  BY <1>1, <1>2, <1>3, <1>4, LegalWrite

LEMMA WorkerLegal ==
  ASSUME TypeInv, BookInv, SerialInv, NEW s \in Sessions,
         CompensateCommit(s) \/ RefundSaveCommit(s)
  PROVE  \A p \in Orders : LegalStep(p)
<1>1. PICK o \in Orders : o = txs[s].order
  BY SessionOrder DEF CompensateCommit, RefundSaveCommit, Running
<1>2. CASE CompensateCommit(s)
  <2>1. txs[s].op = "compensate" /\ SetPayment(o, "PAYMENT_FAILED")
    BY <1>1, <1>2 DEF CompensateCommit, Running
  <2>2. /\ payments[o].status = "PENDING" /\ orders[o].status # "none"
        /\ txs[s].ost = orders[o].status
    BY <1>1, <2>1
       DEF BookInv, SessionBook, CreatesNow, Unasked, Unplaced, SerialInv, Fresh,
           FreshOrder
  <2>3. orders[o].status \in {"CREATED", "CANCELLED"}
    <3>1. orders[o].status \notin Served
      BY <2>2 DEF SerialInv, PaymentFollows, Settled
    <3>2. orders[o].status \in OrderStatus \cup {"none"}
      BY DEF TypeInv, TypeOK, OrderRow
    <3>3. QED
      BY <2>2, <3>1, <3>2 DEF Served, OrderStatus
  <2>4. /\ UNCHANGED orders \/ SetOrder(o, "CANCELLED")
    BY <1>1, <1>2 DEF CompensateCommit, FailOrder
  <2>5. /\ orders'[o].status = orders[o].status \/ orders'[o].status = "CANCELLED"
        /\ \A p \in Orders \ {o} : orders'[p] = orders[p]
    BY <2>4, SetOrderEffect
  <2>6. /\ payments'[o].status = "PAYMENT_FAILED"
        /\ \A p \in Orders \ {o} : payments'[p] = payments[p]
    BY <2>1, PaymentWritten
  <2>7. LegalStep(o)
    BY <2>2, <2>3, <2>5, <2>6 DEF LegalStep, LegalSteps, LegalPayments
  <2>8. QED
    BY <2>5, <2>6, <2>7, LegalWrite
<1>3. CASE RefundSaveCommit(s)
  <2>1. /\ txs[s].op = "refundSave" /\ UNCHANGED orders
        /\ \/ UNCHANGED payments
           \/ txs[s].pst \in RefundSources /\ SetPayment(o, "REFUND_PENDING")
    BY <1>1, <1>3 DEF RefundSaveCommit, Running
  <2>2. txs[s].pst = payments[o].status
    BY <1>1, <2>1 DEF SerialInv, Fresh
  <2>3. CASE UNCHANGED payments
    BY <2>1, <2>3 DEF LegalStep
  <2>4. CASE txs[s].pst \in RefundSources /\ SetPayment(o, "REFUND_PENDING")
    <3>1. /\ payments'[o].status = "REFUND_PENDING"
          /\ \A p \in Orders \ {o} : payments'[p] = payments[p]
      BY <2>4, PaymentWritten
    <3>2. LegalStep(o)
      BY <2>1, <2>2, <2>4, <3>1 DEF LegalStep, LegalPayments, RefundSources
    <3>3. QED
      BY <2>1, <3>1, <3>2, LegalWrite
  <2>5. QED
    BY <2>1, <2>3, <2>4
<1>4. QED
  BY <1>2, <1>3

LEMMA HookLegal ==
  ASSUME TypeInv, BookInv, SerialInv, NEW s \in Sessions,
         \/ HookPaid(s) \/ HookUnpaid(s) \/ HookUnpaidCancelled(s)
         \/ HookRefunded(s) \/ HookRefundCanceled(s)
  PROVE  \A p \in Orders : LegalStep(p)
<1>1. Running(s, "hook", "read")
  BY DEF HookPaid, HookUnpaid, HookUnpaidCancelled, HookRefunded,
         HookRefundCanceled, Saw
<1>2. PICK o \in Orders : o = txs[s].order
  BY <1>1, SessionOrder DEF Running
<1>3. /\ txs[s].ost = orders[o].status
      /\ txs[s].pst \in {"AWAITING_CONFIRMATION", "REFUND_PENDING"} =>
           payments[o].status = txs[s].pst
  BY <1>1, <1>2 DEF SerialInv, Fresh, FreshOrder, BookInv, SessionBook
<1>4. PICK status :
        /\ SetPayment(o, status)
        /\ <<txs[s].pst, status>> \in LegalPayments
        /\ txs[s].pst \in {"AWAITING_CONFIRMATION", "REFUND_PENDING"}
  <2>1. CASE HookPaid(s)
    <3>1. SetPayment(o, "SUCCEEDED") /\ txs[s].pst = "AWAITING_CONFIRMATION"
      BY <1>2, <2>1 DEF HookPaid, SeesOpenPayment
    <3>2. QED
      BY <3>1 DEF LegalPayments
  <2>2. CASE HookUnpaid(s) \/ HookUnpaidCancelled(s)
    <3>1. SetPayment(o, "PAYMENT_FAILED") /\ txs[s].pst = "AWAITING_CONFIRMATION"
      BY <1>2, <2>2
         DEF HookUnpaid, HookUnpaidCancelled, SeesOpenPayment, SeesCancelledOrder
    <3>2. QED
      BY <3>1 DEF LegalPayments
  <2>3. CASE HookRefunded(s) \/ HookRefundCanceled(s)
    <3>1. /\ SetPayment(o, "REFUNDED") \/ SetPayment(o, "REFUND_FAILED")
          /\ txs[s].pst = "REFUND_PENDING"
      BY <1>2, <2>3 DEF HookRefunded, HookRefundCanceled, SettleRefund, SeesPendingRefund
    <3>2. QED
      BY <3>1 DEF LegalPayments
  <2>4. QED
    BY <2>1, <2>2, <2>3
<1>5. /\ payments'[o].status = status
      /\ \A p \in Orders \ {o} : payments'[p] = payments[p]
  BY <1>4, PaymentWritten
<1>6. \/ UNCHANGED orders
      \/ \E to \in {"PAID", "CANCELLED"} : SetOrder(o, to) /\ txs[s].ost = "CREATED"
  BY <1>2 DEF HookPaid, HookUnpaid, HookUnpaidCancelled, HookRefunded,
     HookRefundCanceled, SettleRefund, SeesOpenPayment
<1>7. /\ \A p \in Orders \ {o} : orders'[p] = orders[p]
      /\ orders'[o].status # orders[o].status =>
           <<orders[o].status, orders'[o].status>> \in LegalSteps(o)
  <2>1. CASE UNCHANGED orders
    BY <2>1
  <2>2. ASSUME NEW to \in {"PAID", "CANCELLED"}, SetOrder(o, to), txs[s].ost = "CREATED"
        PROVE  /\ \A p \in Orders \ {o} : orders'[p] = orders[p]
               /\ <<orders[o].status, orders'[o].status>> \in LegalSteps(o)
    BY <1>3, <2>2, SetOrderEffect DEF LegalSteps
  <2>3. QED
    BY <1>6, <2>1, <2>2
<1>8. LegalStep(o)
  BY <1>3, <1>4, <1>5, <1>7 DEF LegalStep
<1>9. QED
  BY <1>5, <1>7, <1>8, LegalWrite

LEMMA NextLegal ==
  TypeInv /\ MoneyInv /\ BookInv /\ SerialInv /\ [Next]_vars =>
    \A o \in Orders : LegalStep(o)
<1> SUFFICES ASSUME TypeInv, MoneyInv, BookInv, SerialInv, [Next]_vars
             PROVE  \A o \in Orders : LegalStep(o)
  OBVIOUS
<1>1. CASE UNCHANGED <<orders, payments>>
  BY <1>1 DEF LegalStep
<1>2. ASSUME NEW s \in Sessions, Begin(s) \/ Step(s) \/ SessionLost(s)
      PROVE  \/ UNCHANGED <<orders, payments>>
             \/ \A o \in Orders : LegalStep(o)
  <2>1. CASE Begin(s)
    BY <2>1, CoreApiReads, WorkerReads, HookReads DEF Begin, tables
  <2>2. CASE SessionLost(s) \/ IntegrityError(s)
    BY <2>2 DEF SessionLost, IntegrityError, tables
  <2>3. CASE CoreApiStep(s)
    BY <2>3, CheckoutLegal, StaffLegal
       DEF CoreApiStep, CheckoutReject, CheckoutEnqueue, CheckoutClearCart, CancelFlush,
           tables
  <2>4. CASE WorkerStep(s)
    BY <2>4, WorkerLegal DEF WorkerStep, RefundOpenCommit
  <2>5. CASE HookStep(s)
    BY <2>5, HookLegal DEF HookStep, HookIgnored, HookClearCart, HookMark, tables
  <2>6. QED
    BY <1>2, <2>1, <2>2, <2>3, <2>4, <2>5 DEF Step
<1>3. CASE CoreApiAtomic
  BY <1>1, <1>3, AutoCloseLegal
     DEF CoreApiAtomic, FillCart, RetryRefund, TakeAssignment, tables
<1>4. CASE TaskStep
  BY <1>1, <1>4, TasksLegal
     DEF TaskStep, CreateAccepted, CreateUnreachable, CreateRefused, CompensateSkip,
         RefundSkip, RefundAccepted, RefundUnreachable, RefundFail, tables
<1>5. CASE (\E k \in tasks : TaskLost(k)) \/ YuKassaStep \/ UNCHANGED vars
  BY <1>1, <1>5 DEF TaskLost, YuKassaStep, ChargePaid, ChargeCanceled, RefundResolved,
     Around, vars, tables
<1>6. QED
  BY <1>1, <1>2, <1>3, <1>4, <1>5 DEF Next

\* Over every handler that writes a status: no order and no payment takes a
\* step that the shop does not know, when transactions do not overlap.
THEOREM StatusesLegal == OneSession => (Spec => LegalStatusSteps)
<1> SUFFICES ASSUME OneSession PROVE Spec => LegalStatusSteps
  OBVIOUS
<1>1. TypeInv /\ MoneyInv /\ BookInv /\ SerialInv /\ [Next]_vars =>
        [\A o \in Orders :
           /\ orders'[o].status # orders[o].status =>
                <<orders[o].status, orders'[o].status>> \in LegalSteps(o)
           /\ payments'[o].status # payments[o].status =>
                <<payments[o].status, payments'[o].status>> \in LegalPayments]_vars
  BY NextLegal DEF LegalStep
<1>2. QED
  BY <1>1, SerialKnown, InitTyped, NextTyped, InitKnows, NextKnows, InitBook, NextBook, PTL
     DEF Spec, LegalStatusSteps

-----------------------------------------------------------------------------
(* Sums over finite sets                                                   *)

\* The sum of v over S, without recursion: as many cells as its positive numbers
\* add up to, less those of its negative ones.
Cells(v, S) == {p \in S \X Nat : p[2] < v[p[1]]}
Minus(v, S) == [y \in S |-> -v[y]]
Total(v, S) == Cardinality(Cells(v, S)) - Cardinality(Cells(Minus(v, S), S))

\* A set of numbers has a least one.
LEMMA LeastOf ==
  ASSUME NEW S \in SUBSET Nat, S # {}
  PROVE  \E a \in S : \A y \in S : a <= y
<1>1. PICK R : R = OpToRel(<, Nat)
  OBVIOUS
<1>2. IsWellFoundedOn(R, Nat)
  BY <1>1, NatLessThanWellFounded
<1>3. PICK a \in S : \A y \in S : ~(<<y, a>> \in R)
  BY <1>2, WFMin
<1>4. R = {ss \in Nat \X Nat : ss[1] < ss[2]}
  BY <1>1 DEF OpToRel
<1>5. \A y \in S : ~(y < a)
  BY <1>3, <1>4
<1>6. QED
  BY <1>3, <1>5

\* One column of cells, of height h.
LEMMA Column ==
  ASSUME NEW x, NEW h \in Int
  PROVE  LET C == {p \in {x} \X Nat : p[2] < h} IN
         IsFiniteSet(C) /\ Cardinality(C) = IF h > 0 THEN h ELSE 0
<1>1. PICK C : C = {p \in {x} \X Nat : p[2] < h}
  OBVIOUS
<1>2. PICK I : I = 0..(h - 1)
  OBVIOUS
<1>3. PICK b : b = h - 1
  OBVIOUS
<1>4. IsFiniteSet(I) /\ Cardinality(I) = IF h > 0 THEN h ELSE 0
  <2>1. b \in Int /\ I = 0..b
    BY <1>2, <1>3
  <2>2. IsFiniteSet(0..b) /\ Cardinality(0..b) = IF 0 > b THEN 0 ELSE b - 0 + 1
    BY <2>1, FS_Interval
  <2>3. QED
    BY <1>3, <2>1, <2>2
<1>5. PICK f : f = [i \in I |-> <<x, i>>]
  OBVIOUS
<1>6. f \in Bijection(I, C)
  <2>1. \A i \in I : f[i] \in C
    BY <1>1, <1>2, <1>5
  <2>2. \A i, j \in I : f[i] = f[j] => i = j
    BY <1>5
  <2>3. \A p \in C : \E i \in I : f[i] = p
    BY <1>1, <1>2, <1>5
  <2>4. QED
    BY <1>5, <2>1, <2>2, <2>3 DEF Bijection, Injection, Surjection, IsInjective
<1>7. ExistsBijection(I, C)
  BY <1>6 DEF ExistsBijection
<1>8. QED
  BY <1>1, <1>4, <1>7, FS_Bijection

LEMMA CellsStep ==
  ASSUME NEW v, NEW S, \A y \in S : v[y] \in Int, NEW x \in S,
         IsFiniteSet(Cells(v, S \ {x}))
  PROVE  /\ IsFiniteSet(Cells(v, S))
         /\ Cardinality(Cells(v, S)) =
              (IF v[x] > 0 THEN v[x] ELSE 0) + Cardinality(Cells(v, S \ {x}))
<1>1. PICK C : C = {p \in {x} \X Nat : p[2] < v[x]}
  OBVIOUS
<1>2. PICK D : D = Cells(v, S \ {x})
  OBVIOUS
<1>3. IsFiniteSet(C) /\ Cardinality(C) = IF v[x] > 0 THEN v[x] ELSE 0
  BY <1>1, Column
<1>4. Cells(v, S) = C \cup D /\ C \cap D = {}
  BY <1>1, <1>2 DEF Cells
<1>5. /\ IsFiniteSet(C \cup D)
      /\ Cardinality(C \cup D) = Cardinality(C) + Cardinality(D) - Cardinality(C \cap D)
  BY <1>2, <1>3, FS_Union
<1>6. Cardinality(C \cap D) = 0
  BY <1>4, FS_EmptySet
<1>7. Cardinality(C) \in Nat /\ Cardinality(D) \in Nat
  BY <1>2, <1>3, FS_CardinalityType
<1>8. Cardinality(C \cup D) = Cardinality(C) + Cardinality(D)
  BY <1>5, <1>6, <1>7
<1>9. QED
  BY <1>2, <1>3, <1>4, <1>5, <1>8

LEMMA CellsFinite ==
  ASSUME NEW S, IsFiniteSet(S), NEW v, \A y \in S : v[y] \in Int
  PROVE  IsFiniteSet(Cells(v, S))
<1>1. PICK B : B = {s \in SUBSET S : ~IsFiniteSet(Cells(v, s))}
  OBVIOUS
<1>2. PICK N : N = {Cardinality(s) : s \in B}
  OBVIOUS
<1>3. SUFFICES ASSUME B # {} PROVE FALSE
  BY <1>1
<1>4. \A s \in SUBSET S : IsFiniteSet(s) /\ Cardinality(s) \in Nat
  BY FS_Subset, FS_CardinalityType
<1>5. N \in SUBSET Nat /\ N # {}
  BY <1>1, <1>2, <1>3, <1>4
<1>6. PICK n \in N : \A m \in N : n <= m
  BY <1>5, LeastOf
<1>7. PICK s \in B : n = Cardinality(s)
  BY <1>2, <1>6
<1>8. s \in SUBSET S /\ ~IsFiniteSet(Cells(v, s)) /\ IsFiniteSet(s)
  BY <1>1, <1>4, <1>7
<1>9. s # {}
  <2>1. Cells(v, {}) = {}
    BY DEF Cells
  <2>2. QED
    BY <1>8, <2>1, FS_EmptySet
<1>10. PICK x \in s : TRUE
  BY <1>9
<1>11. Cardinality(s \ {x}) = n - 1 /\ n \in Nat
  BY <1>4, <1>7, <1>8, <1>10, FS_RemoveElement
<1>12. s \ {x} \in SUBSET S /\ s \ {x} \notin B
  <2>1. s \ {x} \in SUBSET S
    BY <1>8
  <2>2. s \ {x} \in B => n <= n - 1
    BY <1>2, <1>6, <1>11
  <2>3. QED
    BY <1>11, <2>1, <2>2
<1>13. IsFiniteSet(Cells(v, s \ {x}))
  BY <1>1, <1>12
<1>14. QED
  BY <1>8, <1>10, <1>13, CellsStep

LEMMA CellsSame ==
  ASSUME NEW S, NEW v, NEW w, \A y \in S : v[y] = w[y]
  PROVE  Cells(v, S) = Cells(w, S)
BY DEF Cells

LEMMA TotalSame ==
  ASSUME NEW S, NEW v, NEW w, \A y \in S : v[y] = w[y]
  PROVE  Total(v, S) = Total(w, S)
<1>1. \A y \in S : Minus(v, S)[y] = Minus(w, S)[y]
  BY DEF Minus
<1>2. QED
  BY <1>1, CellsSame DEF Total

LEMMA TotalEmpty == ASSUME NEW v PROVE Total(v, {}) = 0
<1>1. Cells(v, {}) = {} /\ Cells(Minus(v, {}), {}) = {}
  BY DEF Cells
<1>2. QED
  BY <1>1, FS_EmptySet DEF Total

LEMMA TotalStep ==
  ASSUME NEW S, IsFiniteSet(S), NEW v, \A y \in S : v[y] \in Int, NEW x \in S
  PROVE  /\ Total(v, S) = v[x] + Total(v, S \ {x})
         /\ Total(v, S) \in Int /\ Total(v, S \ {x}) \in Int
<1>1. PICK R : R = S \ {x}
  OBVIOUS
<1>2. IsFiniteSet(R)
  BY <1>1, FS_RemoveElement
<1>3. PICK w : w = Minus(v, S)
  OBVIOUS
<1>4. /\ \A y \in S : w[y] \in Int /\ w[y] = -v[y]
      /\ \A y \in R : w[y] \in Int /\ w[y] = Minus(v, R)[y]
  BY <1>1, <1>3 DEF Minus
<1>5. Cells(Minus(v, R), R) = Cells(w, R)
  BY <1>4, CellsSame
<1>6. IsFiniteSet(Cells(v, R)) /\ IsFiniteSet(Cells(w, R))
  BY <1>1, <1>2, <1>4, CellsFinite
<1>7. PICK a, b, c, d : /\ a = Cardinality(Cells(v, S)) /\ b = Cardinality(Cells(v, R))
                        /\ c = Cardinality(Cells(w, S)) /\ d = Cardinality(Cells(w, R))
  OBVIOUS
<1>8. b \in Nat /\ d \in Nat
  BY <1>6, <1>7, FS_CardinalityType
<1>9. a = (IF v[x] > 0 THEN v[x] ELSE 0) + b
  BY <1>1, <1>6, <1>7, CellsStep
<1>10. c = (IF w[x] > 0 THEN w[x] ELSE 0) + d
  BY <1>1, <1>4, <1>6, <1>7, CellsStep
<1>11. w[x] = -v[x] /\ v[x] \in Int
  BY <1>4
<1>12. a - c = v[x] + (b - d) /\ a - c \in Int /\ b - d \in Int
  BY <1>8, <1>9, <1>10, <1>11
<1>13. Total(v, S) = a - c /\ Total(v, R) = b - d
  BY <1>3, <1>5, <1>7 DEF Total
<1>14. QED
  BY <1>1, <1>12, <1>13

\* The one solution of the recursion of the folds.
LEMMA FoldIsTotal ==
  ASSUME NEW S, IsFiniteSet(S), NEW v, \A y \in S : v[y] \in Int, NEW g,
         \A s \in SUBSET S :
           g[s] = IF s = {} THEN 0
                  ELSE v[CHOOSE x \in s : TRUE] + g[s \ {CHOOSE x \in s : TRUE}]
  PROVE  g[S] = Total(v, S)
<1>1. PICK B : B = {s \in SUBSET S : g[s] # Total(v, s)}
  OBVIOUS
<1>2. PICK N : N = {Cardinality(s) : s \in B}
  OBVIOUS
<1>3. SUFFICES ASSUME B # {} PROVE FALSE
  BY <1>1
<1>4. \A s \in SUBSET S : IsFiniteSet(s) /\ Cardinality(s) \in Nat
  BY FS_Subset, FS_CardinalityType
<1>5. N \in SUBSET Nat /\ N # {}
  BY <1>1, <1>2, <1>3, <1>4
<1>6. PICK n \in N : \A m \in N : n <= m
  BY <1>5, LeastOf
<1>7. PICK s \in B : n = Cardinality(s)
  BY <1>2, <1>6
<1>8. s \in SUBSET S /\ g[s] # Total(v, s) /\ IsFiniteSet(s) /\ \A y \in s : v[y] \in Int
  BY <1>1, <1>4, <1>7
<1>9. s # {}
  BY <1>8, TotalEmpty
<1>10. PICK x : x = CHOOSE y \in s : TRUE
  OBVIOUS
<1>11. x \in s
  BY <1>9, <1>10
<1>12. Cardinality(s \ {x}) = n - 1 /\ n \in Nat
  BY <1>4, <1>7, <1>8, <1>11, FS_RemoveElement
<1>13. s \ {x} \in SUBSET S /\ s \ {x} \notin B
  <2>1. s \ {x} \in SUBSET S
    BY <1>8
  <2>2. s \ {x} \in B => n <= n - 1
    BY <1>2, <1>6, <1>12
  <2>3. QED
    BY <1>12, <2>1, <2>2
<1>14. g[s \ {x}] = Total(v, s \ {x})
  BY <1>1, <1>13
<1>15. g[s] = v[x] + g[s \ {x}]
  BY <1>8, <1>9, <1>10
<1>16. Total(v, s) = v[x] + Total(v, s \ {x})
  BY <1>8, <1>11, TotalStep
<1>17. QED
  BY <1>8, <1>14, <1>15, <1>16

\* The sums when one member's number changes, or a member comes or goes.
At(v, S, x) == IF x \in S THEN v[x] ELSE 0

LEMMA TotalChanges ==
  ASSUME NEW S, NEW T, NEW x, IsFiniteSet(S), IsFiniteSet(T), S \ {x} = T \ {x},
         NEW v, \A y \in S : v[y] \in Int, NEW w, \A y \in T : w[y] \in Int,
         \A y \in S \ {x} : v[y] = w[y]
  PROVE  /\ Total(v, S) \in Int /\ Total(w, T) \in Int
         /\ Total(w, T) = Total(v, S) - At(v, S, x) + At(w, T, x)
<1>1. PICK R, m : R = S \ {x} /\ m = Total(v, R)
  OBVIOUS
<1>2. m = Total(w, R)
  BY <1>1, TotalSame
<1>3. m \in Int
  <2>1. IsFiniteSet(R) /\ \A y \in R : v[y] \in Int
    BY <1>1, FS_RemoveElement, FS_Subset
  <2>2. CASE R = {}
    BY <1>1, <2>2, TotalEmpty
  <2>3. CASE R # {}
    <3>1. PICK y \in R : TRUE
      BY <2>3
    <3>2. QED
      BY <1>1, <2>1, <3>1, TotalStep
  <2>4. QED
    BY <2>2, <2>3
<1>4. Total(v, S) = At(v, S, x) + m /\ At(v, S, x) \in Int
  <2>1. CASE x \in S
    <3>1. Total(v, S) = v[x] + Total(v, R) /\ v[x] \in Int
      BY <1>1, <2>1, TotalStep
    <3>2. QED
      BY <1>1, <2>1, <3>1 DEF At
  <2>2. CASE x \notin S
    <3>1. S = R
      BY <1>1, <2>2
    <3>2. At(v, S, x) = 0
      BY <2>2 DEF At
    <3>3. Total(v, S) = m
      BY <1>1, <3>1
    <3>4. QED
      BY <1>3, <3>2, <3>3
  <2>3. QED
    BY <2>1, <2>2
<1>5. Total(w, T) = At(w, T, x) + m /\ At(w, T, x) \in Int
  <2>1. R = T \ {x}
    BY <1>1
  <2>2. CASE x \in T
    BY <1>2, <2>1, <2>2, TotalStep DEF At
  <2>3. CASE x \notin T
    <3>1. T = R
      BY <2>1, <2>3
    <3>2. QED
      BY <1>2, <1>3, <2>3, <3>1 DEF At
  <2>4. QED
    BY <2>2, <2>3
<1>6. QED
  BY <1>3, <1>4, <1>5

-----------------------------------------------------------------------------
(* The sums of the shop: each is a fold over a column of a table           *)

FoldRule(r, f, S, g) ==
  g = [s \in SUBSET S |->
         IF s = {} THEN 0
         ELSE r[CHOOSE x \in s : TRUE][f] + g[s \ {CHOOSE x \in s : TRUE}]]

\* What the fold computes.
SumOf(r, f, S) == (CHOOSE g : FoldRule(r, f, S, g))[S]

LEMMA SumIsTotal ==
  ASSUME NEW S, IsFiniteSet(S), NEW r, NEW f, \A y \in S : r[y][f] \in Int
  PROVE  SumOf(r, f, S) = Total([y \in S |-> r[y][f]], S)
<1>1. PICK v : v = [y \in S |-> r[y][f]]
  OBVIOUS
<1>2. \A y \in S : v[y] \in Int /\ v[y] = r[y][f]
  BY <1>1
<1>3. PICK g : g = CHOOSE rule : FoldRule(r, f, S, rule)
  OBVIOUS
<1>4. PICK h : h = [s \in SUBSET S |-> Total(v, s)]
  OBVIOUS
<1>5. ASSUME NEW s \in SUBSET S
      PROVE  h[s] = IF s = {} THEN 0
                    ELSE r[CHOOSE x \in s : TRUE][f] + h[s \ {CHOOSE x \in s : TRUE}]
  <2>1. CASE s = {}
    BY <1>4, <2>1, TotalEmpty
  <2>2. CASE s # {}
    <3>1. PICK x : x = CHOOSE y \in s : TRUE
      OBVIOUS
    <3>2. x \in s /\ x \in S /\ IsFiniteSet(s)
      BY <2>2, <3>1, FS_Subset
    <3>3. Total(v, s) = v[x] + Total(v, s \ {x})
      BY <1>2, <3>2, TotalStep
    <3>4. h[s] = Total(v, s) /\ h[s \ {x}] = Total(v, s \ {x})
      BY <1>4
    <3>5. QED
      BY <1>2, <2>2, <3>1, <3>2, <3>3, <3>4
  <2>3. QED
    BY <2>1, <2>2
<1>6. FoldRule(r, f, S, h)
  BY <1>4, <1>5 DEF FoldRule
<1>7. FoldRule(r, f, S, g)
  BY <1>3, <1>6, Zenon
<1>8. ASSUME NEW s \in SUBSET S
      PROVE  g[s] = IF s = {} THEN 0
                    ELSE v[CHOOSE x \in s : TRUE] + g[s \ {CHOOSE x \in s : TRUE}]
  <2>1. g[s] = IF s = {} THEN 0
               ELSE r[CHOOSE x \in s : TRUE][f] + g[s \ {CHOOSE x \in s : TRUE}]
    BY <1>7 DEF FoldRule
  <2>2. s # {} => (CHOOSE x \in s : TRUE) \in S
    OBVIOUS
  <2>3. QED
    BY <1>2, <2>1, <2>2
<1>9. g[S] = Total(v, S)
  BY <1>2, <1>8, FoldIsTotal
<1>10. QED
  BY <1>1, <1>3, <1>9 DEF SumOf

LiveOrders == {o \in Orders : Live(o)}
FailedOrders == {o \in Orders : FailedByPayment(o)}

LEMMA SumsOfTheShop ==
  /\ UnitsHeld = SumOf(req, "qty", LiveOrders)
  /\ PointsAdrift = SumOf(orders, "points_used", FailedOrders)
  /\ LedgerSum = SumOf(ledger, "amount", DOMAIN ledger)
  /\ UnitsHeld' = SumOf(req', "qty", LiveOrders')
  /\ PointsAdrift' = SumOf(orders', "points_used", FailedOrders')
  /\ LedgerSum' = SumOf(ledger', "amount", DOMAIN ledger')
<1>1. UnitsHeld = SumOf(req, "qty", LiveOrders)
  BY DEF UnitsHeld, SumOf, FoldRule, LiveOrders, MapThenSumSet, MapThenFoldSet
<1>2. PointsAdrift = SumOf(orders, "points_used", FailedOrders)
  BY DEF PointsAdrift, SumOf, FoldRule, FailedOrders, MapThenSumSet, MapThenFoldSet
<1>3. LedgerSum = SumOf(ledger, "amount", DOMAIN ledger)
  BY DEF LedgerSum, SumOf, FoldRule, MapThenSumSet, MapThenFoldSet
<1>4. UnitsHeld' = SumOf(req', "qty", LiveOrders')
  BY DEF UnitsHeld, SumOf, FoldRule, LiveOrders, MapThenSumSet, MapThenFoldSet
<1>5. PointsAdrift' = SumOf(orders', "points_used", FailedOrders')
  BY DEF PointsAdrift, SumOf, FoldRule, FailedOrders, MapThenSumSet, MapThenFoldSet
<1>6. LedgerSum' = SumOf(ledger', "amount", DOMAIN ledger')
  BY DEF LedgerSum, SumOf, FoldRule, MapThenSumSet, MapThenFoldSet
<1>7. QED
  BY <1>1, <1>2, <1>3, <1>4, <1>5, <1>6

\* A row comes, goes or changes its number.
LEMMA SumChanges ==
  ASSUME NEW S, NEW T, NEW x, IsFiniteSet(S), IsFiniteSet(T), S \ {x} = T \ {x},
         NEW f, NEW r, \A y \in S : r[y][f] \in Int, NEW q, \A y \in T : q[y][f] \in Int,
         \A y \in S \ {x} : r[y][f] = q[y][f],
         NEW a, a = IF x \in S THEN r[x][f] ELSE 0,
         NEW b, b = IF x \in T THEN q[x][f] ELSE 0
  PROVE  /\ SumOf(r, f, S) \in Int /\ SumOf(q, f, T) \in Int
         /\ SumOf(q, f, T) = SumOf(r, f, S) - a + b
<1>1. PICK v, w : v = [y \in S |-> r[y][f]] /\ w = [y \in T |-> q[y][f]]
  OBVIOUS
<1>2. SumOf(r, f, S) = Total(v, S) /\ SumOf(q, f, T) = Total(w, T)
  BY <1>1, SumIsTotal
<1>3. /\ \A y \in S : v[y] \in Int /\ v[y] = r[y][f]
      /\ \A y \in T : w[y] \in Int /\ w[y] = q[y][f]
      /\ \A y \in S \ {x} : v[y] = w[y]
  BY <1>1
<1>4. a = At(v, S, x) /\ b = At(w, T, x)
  BY <1>3 DEF At
<1>5. /\ Total(v, S) \in Int /\ Total(w, T) \in Int
      /\ Total(w, T) = Total(v, S) - At(v, S, x) + At(w, T, x)
  BY <1>3, TotalChanges
<1>6. QED
  BY <1>2, <1>4, <1>5

-----------------------------------------------------------------------------
(* Why the sums agree                                                      *)

Placed == {o \in Orders : orders[o].status # "none"}
HeldBy(o) == IF Live(o) THEN req[o].qty ELSE 0
AdriftOf(o) == IF FailedByPayment(o) THEN orders[o].points_used ELSE 0

\* Who will write the balance has read the one there is.
FreshBalance(s) ==
  /\ txs[s].op \in {"checkout", "cancel", "transition", "courier"}
  /\ txs[s].phase \in {"read", "locked"}
  => txs[s].bal = balance

SumsInv ==
  /\ IsFiniteSet(Placed)
  /\ NoPhantomStock /\ LedgerExplainsBalance
  /\ \A s \in Sessions : FreshBalance(s)

\* The rows of one order are written.
LEMMA OrderMovesSums ==
  ASSUME TypeInv, TypeInv', IsFiniteSet(Placed), NEW o \in Orders, UNCHANGED req,
         \A p \in Orders \ {o} : orders'[p] = orders[p] /\ payments'[p] = payments[p]
  PROVE  /\ IsFiniteSet(Placed')
         /\ UnitsHeld \in Int /\ UnitsHeld' = UnitsHeld - HeldBy(o) + HeldBy(o)'
         /\ PointsAdrift \in Int
         /\ PointsAdrift' = PointsAdrift - AdriftOf(o) + AdriftOf(o)'
<1>1. IsFiniteSet(Placed')
  <2>1. Placed' \subseteq Placed \cup {o} /\ IsFiniteSet(Placed \cup {o})
    BY FS_AddElement DEF Placed
  <2>2. QED
    BY <2>1, FS_Subset
<1>2. /\ LiveOrders \subseteq Placed /\ LiveOrders' \subseteq Placed'
      /\ FailedOrders \subseteq Placed /\ FailedOrders' \subseteq Placed'
  BY DEF LiveOrders, FailedOrders, Placed, Live, FailedByPayment
<1>3. /\ IsFiniteSet(LiveOrders) /\ IsFiniteSet(LiveOrders')
      /\ IsFiniteSet(FailedOrders) /\ IsFiniteSet(FailedOrders')
  BY <1>1, <1>2, FS_Subset
<1>4. LiveOrders \ {o} = LiveOrders' \ {o} /\ FailedOrders \ {o} = FailedOrders' \ {o}
  BY DEF LiveOrders, FailedOrders, Live, FailedByPayment
<1>5. /\ \A p \in Orders : /\ req[p].qty \in Int /\ req'[p].qty \in Int
                           /\ orders[p].points_used \in Int
                           /\ orders'[p].points_used \in Int
  <2>1. \A p \in Orders : req[p].qty \in Int /\ orders[p].points_used \in Int
    BY OrderNumbers
  <2>2. \A p \in Orders : orders'[p].points_used \in Int
    BY DEF TypeInv, TypeOK, OrderRow
  <2>3. QED
    BY <2>1, <2>2
<1>6. /\ HeldBy(o) = IF o \in LiveOrders THEN req[o].qty ELSE 0
      /\ HeldBy(o)' = IF o \in LiveOrders' THEN req'[o].qty ELSE 0
      /\ AdriftOf(o) = IF o \in FailedOrders THEN orders[o].points_used ELSE 0
      /\ AdriftOf(o)' = IF o \in FailedOrders' THEN orders'[o].points_used ELSE 0
  BY DEF HeldBy, AdriftOf, LiveOrders, FailedOrders
<1>7. /\ \A p \in LiveOrders : p \in Orders
      /\ \A p \in LiveOrders' : p \in Orders
      /\ \A p \in FailedOrders : p \in Orders
      /\ \A p \in FailedOrders' : p \in Orders
  BY DEF LiveOrders, FailedOrders
<1>8. /\ UnitsHeld \in Int /\ UnitsHeld' = UnitsHeld - HeldBy(o) + HeldBy(o)'
  <2>1. PICK S, T, r, q, a, b :
          /\ S = LiveOrders /\ T = LiveOrders' /\ r = req /\ q = req'
          /\ a = HeldBy(o) /\ b = HeldBy(o)'
    OBVIOUS
  <2>2. /\ \A y \in S : r[y].qty \in Int
        /\ \A y \in T : q[y].qty \in Int
        /\ \A y \in S \ {o} : r[y].qty = q[y].qty
        /\ a = IF o \in S THEN r[o].qty ELSE 0
        /\ b = IF o \in T THEN q[o].qty ELSE 0
    BY <1>5, <1>6, <1>7, <2>1
  <2>3. /\ SumOf(r, "qty", S) \in Int
        /\ SumOf(q, "qty", T) = SumOf(r, "qty", S) - a + b
    BY <1>3, <1>4, <2>1, <2>2, SumChanges
  <2>4. QED
    BY <2>1, <2>3, SumsOfTheShop
<1>9. /\ PointsAdrift \in Int
      /\ PointsAdrift' = PointsAdrift - AdriftOf(o) + AdriftOf(o)'
  <2>1. PICK S, T, r, q, a, b :
          /\ S = FailedOrders /\ T = FailedOrders' /\ r = orders /\ q = orders'
          /\ a = AdriftOf(o) /\ b = AdriftOf(o)'
    OBVIOUS
  <2>2. /\ \A y \in S : r[y].points_used \in Int
        /\ \A y \in T : q[y].points_used \in Int
        /\ \A y \in S \ {o} : r[y].points_used = q[y].points_used
        /\ a = IF o \in S THEN r[o].points_used ELSE 0
        /\ b = IF o \in T THEN q[o].points_used ELSE 0
    BY <1>5, <1>6, <1>7, <2>1
  <2>3. /\ SumOf(r, "points_used", S) \in Int
        /\ SumOf(q, "points_used", T) = SumOf(r, "points_used", S) - a + b
    BY <1>3, <1>4, <2>1, <2>2, SumChanges
  <2>4. QED
    BY <2>1, <2>3, SumsOfTheShop
<1>10. QED
  BY <1>1, <1>8, <1>9

LEMMA LedgerIs ==
  ASSUME TypeInv
  PROVE  /\ IsFiniteSet(DOMAIN ledger) /\ Len(ledger) \in Nat
         /\ DOMAIN ledger = 1 .. Len(ledger)
         /\ \A i \in DOMAIN ledger : ledger[i] \in LedgerRow /\ ledger[i].amount \in Int
<1>1. ledger \in Seq(LedgerRow)
  BY DEF TypeInv, TypeOK
<1>2. PICK n : n = Len(ledger)
  OBVIOUS
<1>3. n \in Nat /\ DOMAIN ledger = 1 .. n
  BY <1>1, <1>2
<1>4. IsFiniteSet(1 .. n)
  BY <1>3, FS_Interval
<1>5. \A i \in DOMAIN ledger : ledger[i] \in LedgerRow /\ ledger[i].amount \in Int
  <2>1. \A i \in DOMAIN ledger : ledger[i] \in LedgerRow
    BY <1>1
  <2>2. QED
    BY <2>1 DEF LedgerRow
<1>6. QED
  BY <1>2, <1>3, <1>4, <1>5

\* Entries keep their amounts, and one of amount d may be appended.
Adds(d) ==
  \/ /\ d = 0 /\ DOMAIN ledger' = DOMAIN ledger
     /\ \A i \in DOMAIN ledger : ledger'[i].amount = ledger[i].amount
  \/ \E e : e.amount = d /\ ledger' = Append(ledger, e)

LEMMA LedgerMoves ==
  ASSUME TypeInv, TypeInv', NEW d \in Int, Adds(d)
  PROVE  LedgerSum \in Int /\ LedgerSum' = LedgerSum + d
<1>1. PICK S, T, r, q, n :
        /\ S = DOMAIN ledger /\ T = DOMAIN ledger' /\ r = ledger /\ q = ledger'
        /\ n = Len(ledger) + 1
  OBVIOUS
<1>2. IsFiniteSet(S) /\ n \notin S /\ \A i \in S : r[i].amount \in Int
  BY <1>1, LedgerIs
<1>3. CASE /\ d = 0 /\ T = S /\ \A i \in S : q[i].amount = r[i].amount
  <2>1. \A i \in T : q[i].amount \in Int
    BY <1>2, <1>3
  <2>2. SumOf(r, "amount", S) \in Int /\ SumOf(q, "amount", T) = SumOf(r, "amount", S) - 0 + 0
    BY <1>2, <1>3, <2>1, SumChanges
  <2>3. LedgerSum = SumOf(r, "amount", S) /\ LedgerSum' = SumOf(q, "amount", T)
    BY <1>1, SumsOfTheShop
  <2>4. QED
    BY <1>3, <2>2, <2>3
<1>4. ASSUME NEW e, e.amount = d, ledger' = Append(ledger, e)
      PROVE  LedgerSum \in Int /\ LedgerSum' = LedgerSum + d
  <2>1. T = S \cup {n} /\ (\A i \in S : q[i] = r[i]) /\ q[n] = e
    BY <1>1, <1>4, LedgerAppended
  <2>2. /\ IsFiniteSet(T) /\ S \ {n} = T \ {n}
        /\ \A i \in T : q[i].amount \in Int
        /\ \A i \in S \ {n} : r[i].amount = q[i].amount
    BY <1>2, <1>4, <2>1, FS_AddElement
  <2>3. 0 = (IF n \in S THEN r[n].amount ELSE 0) /\ d = IF n \in T THEN q[n].amount ELSE 0
    BY <1>2, <1>4, <2>1
  <2>4. SumOf(r, "amount", S) \in Int /\ SumOf(q, "amount", T) = SumOf(r, "amount", S) - 0 + d
    BY <1>2, <2>2, <2>3, SumChanges
  <2>5. QED
    BY <1>1, <2>4, SumsOfTheShop
<1>5. QED
  BY <1>1, <1>3, <1>4 DEF Adds

\* A step that moves units and points between the order, the stock, the
\* account and the ledger.
LEMMA SumsMove ==
  ASSUME TypeInv, TypeInv', SumsInv, NEW o \in Orders, UNCHANGED req,
         \A p \in Orders \ {o} : orders'[p] = orders[p] /\ payments'[p] = payments[p],
         NEW d \in Int, Adds(d),
         stock' + HeldBy(o)' <= stock + HeldBy(o),
         balance' + AdriftOf(o)' = balance + AdriftOf(o) + d,
         \A s \in Sessions : FreshBalance(s)'
  PROVE  SumsInv'
<1>1. /\ IsFiniteSet(Placed')
      /\ UnitsHeld \in Int /\ UnitsHeld' = UnitsHeld - HeldBy(o) + HeldBy(o)'
      /\ PointsAdrift \in Int
      /\ PointsAdrift' = PointsAdrift - AdriftOf(o) + AdriftOf(o)'
  BY OrderMovesSums DEF SumsInv
<1>2. LedgerSum \in Int /\ LedgerSum' = LedgerSum + d
  BY LedgerMoves
<1>3. /\ stock + UnitsHeld <= InitialStock /\ LedgerSum = balance + PointsAdrift
  BY DEF SumsInv, NoPhantomStock, LedgerExplainsBalance
<1>4. /\ stock \in Int /\ stock' \in Int /\ balance \in Int /\ balance' \in Int
      /\ InitialStock \in Int
  BY ConstantsOK DEF TypeInv, TypeOK
<1>5. /\ HeldBy(o) \in Int /\ HeldBy(o)' \in Int
      /\ AdriftOf(o) \in Int /\ AdriftOf(o)' \in Int
  <2>1. /\ req[o].qty \in Nat /\ orders[o].points_used \in Nat
        /\ orders'[o].points_used \in Nat
    BY OrderNumbers DEF TypeInv, TypeOK, OrderRow
  <2>2. QED
    BY <2>1 DEF HeldBy, AdriftOf
<1>6. stock' + UnitsHeld' <= InitialStock
  <2>1. PICK u, h, k : u = UnitsHeld /\ h = HeldBy(o) /\ k = HeldBy(o)'
    OBVIOUS
  <2>2. u \in Int /\ h \in Int /\ k \in Int /\ UnitsHeld' = u - h + k
    BY <1>1, <1>5, <2>1
  <2>3. PICK x, y, z : x = stock /\ y = stock' /\ z = InitialStock
    OBVIOUS
  <2>4. y + k <= x + h /\ x + u <= z /\ x \in Int /\ y \in Int /\ z \in Int
    BY <1>3, <1>4, <2>1, <2>3
  <2>5. y + (u - h + k) <= z
    BY <2>2, <2>4
  <2>6. QED
    BY <2>2, <2>3, <2>5
<1>7. LedgerSum' = balance' + PointsAdrift'
  <2>1. PICK u, h, k, l : /\ u = PointsAdrift /\ h = AdriftOf(o) /\ k = AdriftOf(o)'
                          /\ l = LedgerSum
    OBVIOUS
  <2>2. /\ u \in Int /\ h \in Int /\ k \in Int /\ l \in Int
        /\ PointsAdrift' = u - h + k /\ LedgerSum' = l + d
    BY <1>1, <1>2, <1>5, <2>1
  <2>3. balance' + k = balance + h + d /\ l = balance + u
    BY <1>3, <2>1
  <2>4. l + d = balance' + (u - h + k)
    BY <1>4, <2>2, <2>3
  <2>5. QED
    BY <2>2, <2>4
<1>8. QED
  BY <1>1, <1>6, <1>7 DEF SumsInv, NoPhantomStock, LedgerExplainsBalance

\* A step that writes none of the rows that are summed up.
LEMMA SumsQuiet ==
  ASSUME SumsInv, UNCHANGED <<req, orders, payments, stock, balance, ledger>>,
         \A s \in Sessions : FreshBalance(s)'
  PROVE  SumsInv'
<1>1. Placed' = Placed /\ LiveOrders' = LiveOrders /\ FailedOrders' = FailedOrders
  BY DEF Placed, LiveOrders, FailedOrders, Live, FailedByPayment
<1>2. UnitsHeld' = UnitsHeld /\ PointsAdrift' = PointsAdrift /\ LedgerSum' = LedgerSum
  BY <1>1, SumsOfTheShop
<1>3. QED
  BY <1>1, <1>2 DEF SumsInv, NoPhantomStock, LedgerExplainsBalance

-----------------------------------------------------------------------------
(* Who reads the balance, and who has nothing to do with it                *)

LEMMA NoBalance ==
  ASSUME NEW s \in Sessions,
         txs'[s].op = "idle" \/ txs'[s].phase \notin {"read", "locked"}
  PROVE  FreshBalance(s)'
BY DEF FreshBalance

LEMMA ClosedBalance ==
  ASSUME TypeInv, OneSession, NEW s \in Sessions, Close(s)
  PROVE  \A t \in Sessions : FreshBalance(t)'
<1>1. txs'[s] = IdleTx
  BY DEF Close, TypeInv, TypeOK
<1>2. QED
  BY <1>1, NoBalance DEF IdleTx, OneSession

LEMMA PhaseBalance ==
  ASSUME TypeInv, OneSession, NEW s \in Sessions,
         NEW phase \in {"clear", "mark", "enqueue"},
         txs' = [txs EXCEPT ![s].phase = phase]
  PROVE  \A t \in Sessions : FreshBalance(t)'
<1>1. txs'[s].phase = phase
  BY DEF TypeInv, TypeOK, Tx
<1>2. QED
  BY <1>1, NoBalance DEF OneSession

LEMMA FreeBalance ==
  ASSUME OneSession, SessionFree, UNCHANGED txs
  PROVE  \A s \in Sessions : FreshBalance(s)'
<1>1. \A s \in Sessions : txs'[s] = IdleTx
  BY DEF OneSession, SessionFree
<1>2. QED
  BY <1>1, NoBalance DEF IdleTx

LEMMA BeginBalance ==
  ASSUME TypeInv, OneSession, NEW s \in Sessions, Begin(s)
  PROVE  \A t \in Sessions : FreshBalance(t)'
<1>1. UNCHANGED balance
  BY CoreApiReads, WorkerReads, HookReads DEF Begin, tables
<1>2. \E tx : Open(s, tx) /\ (tx.bal = balance \/ tx.op \in {"refundOpen", "refundSave"})
  <2>1. ASSUME NEW o \in Orders, CheckoutQuote(s, o)
        PROVE  \E tx : Open(s, tx) /\ tx.bal = balance
    <3>1. PICK tx : tx = [IdleTx EXCEPT !.op = "checkout", !.phase = "read", !.order = o,
                                        !.bal = balance]
      OBVIOUS
    <3>2. Open(s, tx) /\ tx.bal = balance
      BY <2>1, <3>1 DEF CheckoutQuote, IdleTx
    <3>3. QED
      BY <3>2
  <2>2. ASSUME NEW o \in Orders, NEW by, CancelRead(s, o, by)
        PROVE  \E tx : Open(s, tx) /\ tx.bal = balance
    <3>1. PICK tx : tx = [IdleTx EXCEPT !.op = "cancel", !.phase = "read", !.order = o,
                            !.ost = orders[o].status, !.by = by, !.bal = balance]
      OBVIOUS
    <3>2. Open(s, tx) /\ tx.bal = balance
      BY <2>2, <3>1 DEF CancelRead, IdleTx
    <3>3. QED
      BY <3>2
  <2>3. ASSUME NEW o \in Orders, NEW to, TransitionRead(s, o, to)
        PROVE  \E tx : Open(s, tx) /\ tx.bal = balance
    <3>1. PICK tx : tx = [IdleTx EXCEPT !.op = "transition", !.phase = "read", !.order = o,
                            !.ost = orders[o].status, !.to = to, !.bal = balance]
      OBVIOUS
    <3>2. Open(s, tx) /\ tx.bal = balance
      BY <2>3, <3>1 DEF TransitionRead, IdleTx
    <3>3. QED
      BY <3>2
  <2>4. ASSUME NEW o \in Orders, NEW c, NEW from, NEW at, NEW to,
               CourierRead(s, o, c, from, at, to)
        PROVE  \E tx : Open(s, tx) /\ tx.bal = balance
    <3>1. PICK tx : tx = [IdleTx EXCEPT !.op = "courier", !.phase = "read", !.order = o,
                            !.ost = at, !.to = to, !.bal = balance]
      OBVIOUS
    <3>2. Open(s, tx) /\ tx.bal = balance
      BY <2>4, <3>1 DEF CourierRead, IdleTx
    <3>3. QED
      BY <3>2
  <2>5. ASSUME NEW k, CompensateRead(s, k)
        PROVE  \E tx : Open(s, tx) /\ tx.bal = balance
    <3>1. PICK tx : tx = [IdleTx EXCEPT !.op = "compensate", !.phase = "read",
                            !.order = k.order, !.ost = orders[k.order].status,
                            !.pst = payments[k.order].status,
                            !.bal = balance, !.uses = uses]
      OBVIOUS
    <3>2. Open(s, tx) /\ tx.bal = balance
      BY <2>5, <3>1 DEF CompensateRead, IdleTx
    <3>3. QED
      BY <3>2
  <2>6. ASSUME NEW k, RefundOpenRead(s, k)
        PROVE  \E tx : Open(s, tx) /\ tx.op = "refundOpen"
    <3>1. PICK tx : tx = [IdleTx EXCEPT !.op = "refundOpen", !.phase = "read",
                            !.order = k.order, !.send = k.send, !.key = k.key]
      OBVIOUS
    <3>2. Open(s, tx) /\ tx.op = "refundOpen"
      BY <2>6, <3>1 DEF RefundOpenRead, IdleTx
    <3>3. QED
      BY <3>2
  <2>7. ASSUME NEW k, RefundSaveRead(s, k)
        PROVE  \E tx : Open(s, tx) /\ tx.op = "refundSave"
    <3>1. PICK tx : tx = [IdleTx EXCEPT !.op = "refundSave", !.phase = "read",
                            !.order = k.order, !.key = k.key, !.row = k.row,
                            !.pst = payments[k.order].status]
      OBVIOUS
    <3>2. Open(s, tx) /\ tx.op = "refundSave"
      BY <2>7, <3>1 DEF RefundSaveRead, IdleTx
    <3>3. QED
      BY <3>2
  <2>8. ASSUME NEW e, HookRead(s, e)
        PROVE  \E tx : Open(s, tx) /\ tx.op = "hook" /\ tx.bal = balance
    <3> DEFINE o == e.order
               row == RefundOf(o, e.key)
               refundEvent == e.type \in {"refund.succeeded", "refund.canceled"}
               tx == [IdleTx EXCEPT
                 !.op = "hook", !.phase = "read", !.order = o, !.event = e.type,
                 !.key = e.key, !.ost = orders[o].status, !.bal = balance,
                 !.uses = uses,
                 !.pst = IF Known(o) THEN payments[o].status ELSE "none",
                 !.row = IF refundEvent THEN row ELSE 0,
                 !.rst = IF refundEvent THEN RefundSeen(o, row) ELSE "none"]
    <3>1. tx.op = "hook" /\ tx.bal = balance
      BY DEF IdleTx
    <3>2. Open(s, tx)
      BY <2>8 DEF HookRead
    <3> HIDE DEF tx
    <3>3. QED
      BY <3>1, <3>2
  <2>9. CASE CoreApiBegin(s)
    BY <2>1, <2>2, <2>3, <2>4, <2>9 DEF CoreApiBegin, PickupRead, DeliverRead
  <2>10. CASE WorkerBegin(s)
    BY <2>5, <2>6, <2>7, <2>10 DEF WorkerBegin
  <2>11. CASE HookBegin(s)
    BY <2>8, <2>11 DEF HookBegin
  <2>12. QED
    BY <2>9, <2>10, <2>11 DEF Begin
<1>3. PICK tx : Open(s, tx) /\ (tx.bal = balance \/ tx.op \in {"refundOpen", "refundSave"})
  BY <1>2
<1>4. txs'[s] = tx
  BY <1>3, OpenedAs
<1>5. FreshBalance(s)'
  BY <1>1, <1>3, <1>4 DEF FreshBalance
<1>6. QED
  BY <1>5 DEF OneSession

LEMMA FlushBalance ==
  ASSUME TypeInv, OneSession, SumsInv, NEW s \in Sessions, CancelFlush(s)
  PROVE  \A t \in Sessions : FreshBalance(t)'
<1>1. txs[s].bal = balance /\ UNCHANGED balance
  BY DEF CancelFlush, Running, SumsInv, FreshBalance, tables
<1>2. PICK bal \in BalanceReads(s) : txs' = [txs EXCEPT ![s].phase = "locked", ![s].bal = bal]
  BY DEF CancelFlush
<1>3. bal = balance
  BY <1>1, <1>2 DEF BalanceReads
<1>4. txs'[s].bal = balance
  BY <1>2, <1>3 DEF TypeInv, TypeOK, Tx
<1>5. QED
  BY <1>1, <1>4 DEF FreshBalance, OneSession

LEMMA SessionQuietSums ==
  ASSUME TypeInv, OneSession, SumsInv, NEW s \in Sessions,
         \/ Begin(s) \/ SessionLost(s) \/ IntegrityError(s) \/ CheckoutReject(s)
         \/ CheckoutEnqueue(s) \/ CheckoutClearCart(s) \/ CancelFlush(s)
         \/ HookIgnored(s) \/ HookClearCart(s) \/ HookMark(s)
  PROVE  SumsInv'
<1>1. UNCHANGED <<req, tables>>
  <2>1. CASE Begin(s)
    BY <2>1, CoreApiReads, WorkerReads, HookReads DEF Begin
  <2>2. CASE ~Begin(s)
    BY <2>2 DEF SessionLost, IntegrityError, CheckoutReject, CheckoutEnqueue,
       CheckoutClearCart, CancelFlush, HookIgnored, HookClearCart, HookMark, ApiAndTasks
  <2>3. QED
    BY <2>1, <2>2
<1>2. \A t \in Sessions : FreshBalance(t)'
  <2>1. CASE \/ SessionLost(s) \/ IntegrityError(s) \/ CheckoutReject(s)
             \/ CheckoutEnqueue(s) \/ CheckoutClearCart(s) \/ HookMark(s)
    BY <2>1, ClosedBalance DEF SessionLost, IntegrityError, CheckoutReject,
       CheckoutEnqueue, CheckoutClearCart, HookMark
  <2>2. CASE HookIgnored(s) \/ HookClearCart(s)
    BY <2>2, PhaseBalance DEF HookIgnored, HookClearCart
  <2>3. QED
    BY <2>1, <2>2, BeginBalance, FlushBalance
<1>3. QED
  BY <1>1, <1>2, SumsQuiet DEF tables

LEMMA AroundQuietSums ==
  ASSUME SumsInv,
         \/ FillCart \/ \E o \in Orders : RetryRefund(o)
         \/ YuKassaStep \/ UNCHANGED vars
         \/ \E k \in tasks :
              \/ CreateAccepted(k) \/ CreateUnreachable(k) \/ CreateRefused(k)
              \/ CompensateSkip(k) \/ RefundSkip(k) \/ RefundAccepted(k)
              \/ RefundUnreachable(k) \/ TaskLost(k)
  PROVE  SumsInv'
<1>1. UNCHANGED <<req, tables, txs>>
  BY DEF FillCart, RetryRefund, YuKassaStep, ChargePaid, ChargeCanceled, RefundResolved,
         Around, vars, tables, CreateAccepted, CreateUnreachable, CreateRefused,
         CompensateSkip, RefundSkip, RefundAccepted, RefundUnreachable, TaskLost, ApiSide
<1>2. \A s \in Sessions : FreshBalance(s)'
  BY <1>1 DEF SumsInv, FreshBalance, tables
<1>3. QED
  BY <1>1, <1>2, SumsQuiet DEF tables

LEMMA AddsNothing == UNCHANGED ledger => Adds(0)
BY DEF Adds

LEMMA AddsEntry ==
  ASSUME NEW o, NEW type, NEW amount, NEW after,
         ledger' = Append(ledger, LedgerEntry(o, type, amount, after))
  PROVE  Adds(amount)
<1>1. LedgerEntry(o, type, amount, after).amount = amount
  BY DEF LedgerEntry
<1>2. QED
  BY <1>1 DEF Adds

-----------------------------------------------------------------------------
(* The steps that move units or points                                     *)

LEMMA CheckoutSums ==
  ASSUME TypeInv, TypeInv', SumsInv, OneSession, NEW s \in Sessions, CheckoutCommit(s)
  PROVE  SumsInv'
<1>1. PICK o \in Orders : o = txs[s].order
  BY SessionOrder DEF CheckoutCommit, Running
<1>2. txs[s].bal = balance
  BY DEF CheckoutCommit, Running, SumsInv, FreshBalance
<1> DEFINE total == OrderTotal(o, balance)
<1>3. PICK points : points = AppliedPoints(o, balance)
  OBVIOUS
<1>4. points \in Nat
  BY <1>3, AppliedPointsBound DEF TypeInv, TypeOK
<1>5. /\ orders[o].status = "none" /\ stock' = stock - req[o].qty
      /\ orders' = [orders EXCEPT ![o] =
           [status |-> IF total = 0 THEN "PAID" ELSE "CREATED",
            cancelled_by |-> "nobody", points_used |-> points, total |-> total]]
      /\ payments' = [payments EXCEPT ![o] =
           [status |-> IF total = 0 THEN "SUCCEEDED" ELSE "PENDING",
            linked |-> FALSE]]
      /\ txs' = [txs EXCEPT ![s].phase = IF total = 0 THEN "clear" ELSE "enqueue"]
      /\ UNCHANGED req
  BY <1>1, <1>2, <1>3 DEF CheckoutCommit
<1>6. IF points > 0
       THEN /\ balance' = balance - points
            /\ \E type : ledger' = Append(ledger, LedgerEntry(o, type, -points,
                                                              balance - points))
       ELSE UNCHANGED <<balance, ledger>>
  BY <1>1, <1>2, <1>3 DEF CheckoutCommit
<1> HIDE DEF total
<1>7. /\ orders'[o].status \in {"PAID", "CREATED"}
      /\ \A p \in Orders \ {o} : orders'[p] = orders[p] /\ payments'[p] = payments[p]
  BY <1>5 DEF TypeInv, TypeOK
<1>8. PICK d : d = -points
  OBVIOUS
<1>9. Adds(d) /\ balance' = balance + d /\ d \in Int
  <2>1. balance \in Nat
    BY DEF TypeInv, TypeOK
  <2>2. CASE points > 0
    BY <1>4, <1>6, <1>8, <2>1, <2>2, AddsEntry
  <2>3. CASE ~(points > 0)
    <3>1. UNCHANGED <<balance, ledger>>
      BY <1>6, <2>3, Zenon
    <3>2. d = 0
      BY <1>4, <1>8, <2>3
    <3>3. QED
      BY <2>1, <3>1, <3>2, AddsNothing
  <2>4. QED
    BY <1>4, <2>2, <2>3
<1>10. /\ HeldBy(o) = 0 /\ HeldBy(o)' = req[o].qty
      /\ AdriftOf(o) = 0 /\ AdriftOf(o)' = 0
  BY <1>5, <1>7 DEF HeldBy, AdriftOf, Live, FailedByPayment
<1>11. stock \in Nat /\ req[o].qty \in Nat /\ balance \in Nat
  BY OrderNumbers
<1>12. stock' + HeldBy(o)' <= stock + HeldBy(o)
  BY <1>5, <1>10, <1>11
<1>13. balance' + AdriftOf(o)' = balance + AdriftOf(o) + d
  BY <1>9, <1>10, <1>11
<1>14. \A t \in Sessions : FreshBalance(t)'
  BY <1>5, PhaseBalance
<1>15. QED
  BY <1>5, <1>7, <1>9, <1>12, <1>13, <1>14, SumsMove

LEMMA CancelSums ==
  ASSUME TypeInv, TypeInv', SerialInv, SumsInv, OneSession, NEW s \in Sessions,
         CancelCommit(s)
  PROVE  SumsInv'
<1>1. PICK o \in Orders : o = txs[s].order
  BY SessionOrder DEF CancelCommit, Running
<1>2. /\ txs[s].op = "cancel" /\ txs[s].bal = balance
  BY DEF CancelCommit, Running, SumsInv, FreshBalance
<1>3. /\ Close(s) /\ UNCHANGED <<req, payments>>
      /\ RestoreInventory(o) \/ UNCHANGED stock
      /\ ReversePoints(o, balance)
      /\ orders' = [orders EXCEPT ![o].status = "CANCELLED",
                                  ![o].cancelled_by = txs[s].by]
  BY <1>1, <1>2 DEF CancelCommit
<1>4. orders[o].status \notin AdminForbidden \cup {"none"} /\ txs[s].by # "nobody"
  BY <1>1, <1>2 DEF SerialInv, Fresh
<1>5. /\ orders'[o].status = "CANCELLED" /\ orders'[o].cancelled_by # "nobody"
      /\ \A p \in Orders \ {o} : orders'[p] = orders[p] /\ payments'[p] = payments[p]
  BY <1>3, <1>4 DEF TypeInv, TypeOK, OrderRow
<1>6. PICK d : d = orders[o].points_used
  OBVIOUS
<1>7. /\ stock \in Nat /\ req[o].qty \in Nat /\ balance \in Nat /\ d \in Nat
  BY <1>6, OrderNumbers
<1>8. Adds(d) /\ balance' = balance + d
  <2>1. CASE d > 0
    BY <1>3, <1>6, <2>1, AddsEntry DEF ReversePoints
  <2>2. CASE d = 0
    <3>1. UNCHANGED <<balance, ledger>>
      BY <1>3, <1>6, <2>2 DEF ReversePoints
    <3>2. QED
      BY <1>7, <2>2, <3>1, AddsNothing
  <2>3. QED
    BY <1>7, <2>1, <2>2
<1>9. /\ HeldBy(o) = req[o].qty /\ HeldBy(o)' = 0
      /\ AdriftOf(o) = 0 /\ AdriftOf(o)' = 0
  BY <1>4, <1>5 DEF HeldBy, AdriftOf, Live, FailedByPayment, AdminForbidden
<1>10. stock' + HeldBy(o)' <= stock + HeldBy(o)
  BY <1>3, <1>7, <1>9 DEF RestoreInventory
<1>11. balance' + AdriftOf(o)' = balance + AdriftOf(o) + d
  BY <1>7, <1>8, <1>9
<1>12. \A t \in Sessions : FreshBalance(t)'
  BY <1>3, ClosedBalance
<1>13. UNCHANGED req /\ d \in Int /\ Adds(d)
  BY <1>3, <1>7, <1>8
<1>14. \A p \in Orders \ {o} : orders'[p] = orders[p] /\ payments'[p] = payments[p]
  BY <1>5
<1>15. QED
  BY <1>10, <1>11, <1>12, <1>13, <1>14, SumsMove

LEMMA ServedSums ==
  ASSUME TypeInv, TypeInv', SerialInv, SumsInv, NEW o \in Orders,
         UNCHANGED <<req, payments, stock>>,
         orders[o].status \in Served, \A p \in Orders \ {o} : orders'[p] = orders[p],
         UNCHANGED <<balance, ledger>> \/ AccrueLoyalty(o, {balance}),
         \A s \in Sessions : FreshBalance(s)'
  PROVE  SumsInv'
<1>1. stock \in Nat /\ req[o].qty \in Nat /\ balance \in Nat /\ Accrual(o) \in Int
  <2>1. Accrual(o) \in Int
    BY OrderNumbers, ConstantsOK DEF Accrual, ConstantsOK
  <2>2. QED
    BY <2>1, OrderNumbers
<1>2. PICK d : d \in Int /\ Adds(d) /\ balance' = balance + d
  <2>1. CASE UNCHANGED <<balance, ledger>>
    <3>1. Adds(0) /\ balance' = balance + 0
      BY <1>1, <2>1, AddsNothing
    <3>2. QED
      BY <3>1
  <2>2. CASE /\ balance' = balance + Accrual(o)
             /\ ledger' = Append(ledger, LedgerEntry(o, "ACCRUAL", Accrual(o),
                                                     balance + Accrual(o)))
    BY <1>1, <2>2, AddsEntry
  <2>3. QED
    BY <2>1, <2>2 DEF AccrueLoyalty
<1>3. payments[o].status \in Settled /\ payments'[o].status \in Settled
  BY DEF SerialInv, PaymentFollows
<1>4. /\ HeldBy(o) = req[o].qty /\ HeldBy(o)' \in {req[o].qty, 0}
      /\ AdriftOf(o) = 0 /\ AdriftOf(o)' = 0
  BY <1>3 DEF HeldBy, AdriftOf, Live, FailedByPayment, Served, Settled
<1>5. stock' + HeldBy(o)' <= stock + HeldBy(o)
  BY <1>1, <1>4
<1>6. balance' + AdriftOf(o)' = balance + AdriftOf(o) + d
  BY <1>1, <1>2, <1>4
<1>7. \A p \in Orders \ {o} : orders'[p] = orders[p] /\ payments'[p] = payments[p]
  OBVIOUS
<1>8. QED
  BY <1>2, <1>5, <1>6, <1>7, SumsMove

LEMMA StaffSums ==
  ASSUME TypeInv, TypeInv', MoneyInv, SerialInv, SumsInv, OneSession, NEW s \in Sessions,
         TransitionCommit(s) \/ PickupCommit(s) \/ DeliverCommit(s)
  PROVE  SumsInv'
<1>1. PICK o \in Orders : o = txs[s].order
  BY SessionOrder DEF TransitionCommit, PickupCommit, DeliverCommit, Running
<1>2. BalanceReads(s) = {balance}
  <2>1. txs[s].bal = balance
    BY DEF TransitionCommit, PickupCommit, DeliverCommit, Running, SumsInv, FreshBalance
  <2>2. QED
    BY <2>1 DEF BalanceReads
<1>3. /\ Close(s) /\ UNCHANGED <<req, payments, stock>>
      /\ UNCHANGED <<balance, ledger>> \/ AccrueLoyalty(o, {balance})
      /\ \E to \in OrderStatus : SetOrder(o, to)
  <2>1. CASE TransitionCommit(s)
    <3>1. txs[s].to \in OrderStatus
      <4>1. <<txs[s].ost, txs[s].to>> \in AllowedTransitions
        BY <2>1 DEF TransitionCommit, Running, MoneyInv, SessionKnows
      <4>2. QED
        BY <4>1 DEF AllowedTransitions, OrderStatus
    <3>2. QED
      BY <1>1, <1>2, <2>1, <3>1 DEF TransitionCommit
  <2>2. CASE PickupCommit(s) \/ DeliverCommit(s)
    BY <1>1, <1>2, <2>2 DEF PickupCommit, DeliverCommit, OrderStatus
  <2>3. QED
    BY <2>1, <2>2
<1>4. orders[o].status \in Served
  <2>1. CASE TransitionCommit(s)
    <3>1. <<orders[o].status, txs[s].to>> \in AllowedTransitions
      BY <1>1, <2>1 DEF TransitionCommit, Running, MoneyInv, SessionKnows, SerialInv,
         Fresh, FreshOrder
    <3>2. QED
      BY <3>1 DEF AllowedTransitions, Served
  <2>2. CASE PickupCommit(s) \/ DeliverCommit(s)
    BY <1>1, <2>2 DEF PickupCommit, DeliverCommit, Running, SerialInv, Fresh, Served
  <2>3. QED
    BY <2>1, <2>2
<1>5. \A p \in Orders \ {o} : orders'[p] = orders[p]
  BY <1>3, SetOrderEffect
<1>6. \A t \in Sessions : FreshBalance(t)'
  BY <1>3, ClosedBalance
<1>7. QED
  BY <1>3, <1>4, <1>5, <1>6, ServedSums

LEMMA AtomicSums ==
  ASSUME TypeInv, TypeInv', SerialInv, SumsInv, OneSession, NEW o \in Orders,
         AutoClose(o) \/ \E c \in Couriers : TakeAssignment(o, c)
  PROVE  SumsInv'
<1>1. SessionFree /\ UNCHANGED <<req, payments, stock, txs>>
  BY DEF AutoClose, TakeAssignment
<1>2. \A t \in Sessions : FreshBalance(t)'
  BY <1>1, FreeBalance
<1>3. CASE AutoClose(o)
  <2>1. SetOrder(o, "COMPLETED") /\ AccrueLoyalty(o, {balance})
    BY <1>3 DEF AutoClose
  <2>2. orders[o].status \in Served
    BY <1>3 DEF AutoClose, Served
  <2>3. \A p \in Orders \ {o} : orders'[p] = orders[p]
    BY <2>1, SetOrderEffect
  <2>4. QED
    BY <1>1, <1>2, <2>1, <2>2, <2>3, ServedSums
<1>4. CASE \E c \in Couriers : TakeAssignment(o, c)
  <2>1. UNCHANGED <<orders, balance, ledger>>
    BY <1>4 DEF TakeAssignment
  <2>2. QED
    BY <1>1, <1>2, <2>1, SumsQuiet
<1>5. QED
  BY <1>3, <1>4

\* Only the payment is written, and it fails no order.
LEMMA PaymentSums ==
  ASSUME TypeInv, TypeInv', SumsInv, NEW o \in Orders,
         UNCHANGED <<req, orders, stock, balance, ledger>>,
         \A p \in Orders \ {o} : payments'[p] = payments[p],
         FailedByPayment(o)' <=> FailedByPayment(o),
         \A s \in Sessions : FreshBalance(s)'
  PROVE  SumsInv'
<1>1. HeldBy(o)' = HeldBy(o) /\ AdriftOf(o)' = AdriftOf(o)
  BY DEF HeldBy, AdriftOf, Live
<1>2. PICK h, a : h = HeldBy(o) /\ a = AdriftOf(o)
  OBVIOUS
<1>3. h \in Nat /\ a \in Nat /\ stock \in Nat /\ balance \in Nat
  BY <1>2, OrderNumbers DEF HeldBy, AdriftOf
<1>4. stock' + h <= stock + h /\ balance' + a = balance + a + 0
  BY <1>3
<1>5. Adds(0)
  BY AddsNothing
<1>6. QED
  BY <1>1, <1>2, <1>4, <1>5, SumsMove

\* The units go back to the shelf; the points stay adrift in the ledger.
LEMMA FailedSums ==
  ASSUME TypeInv, TypeInv', SerialInv, SumsInv, NEW o \in Orders,
         orders[o].status = "CREATED", SetPayment(o, "PAYMENT_FAILED"),
         SetOrder(o, "CANCELLED"), ReverseInLedger(o), RestoreInventory(o),
         UNCHANGED req, \A t \in Sessions : FreshBalance(t)'
  PROVE  SumsInv'
<1>1. /\ orders'[o].status = "CANCELLED" /\ orders'[o].cancelled_by = "nobody"
      /\ orders'[o].points_used = orders[o].points_used
      /\ payments'[o].status = "PAYMENT_FAILED"
      /\ \A p \in Orders \ {o} : orders'[p] = orders[p] /\ payments'[p] = payments[p]
  <2>1. orders'[o].points_used = orders[o].points_used
    BY DEF SetOrder, TypeInv, TypeOK, OrderRow
  <2>2. QED
    BY <2>1, SetOrderEffect, PaymentWritten DEF SerialInv, PaymentFollows
<1>2. PICK d : d = orders[o].points_used
  OBVIOUS
<1>3. stock \in Nat /\ req[o].qty \in Nat /\ balance \in Nat /\ d \in Nat
  BY <1>2, OrderNumbers
<1>4. Adds(d) /\ balance' = balance
  <2>1. CASE d > 0
    BY <1>2, <2>1, AddsEntry DEF ReverseInLedger
  <2>2. CASE d = 0
    <3>1. UNCHANGED <<balance, ledger>>
      BY <1>2, <2>2 DEF ReverseInLedger
    <3>2. QED
      BY <2>2, <3>1, AddsNothing
  <2>3. QED
    BY <1>3, <2>1, <2>2
<1>5. /\ HeldBy(o) = req[o].qty /\ HeldBy(o)' = 0
      /\ AdriftOf(o) = 0 /\ AdriftOf(o)' = d
  BY <1>1, <1>2 DEF HeldBy, AdriftOf, Live, FailedByPayment
<1>6. stock' + HeldBy(o)' <= stock + HeldBy(o)
  BY <1>3, <1>5 DEF RestoreInventory
<1>7. balance' + AdriftOf(o)' = balance + AdriftOf(o) + d
  BY <1>3, <1>4, <1>5
<1>8. QED
  BY <1>1, <1>3, <1>4, <1>6, <1>7, SumsMove

\* The payment of an order that a person has cancelled fails.
LEMMA FailsCancelledSums ==
  ASSUME TypeInv, TypeInv', SerialInv, SumsInv, NEW o \in Orders,
         orders[o].status = "CANCELLED",
         payments[o].status \in {"PENDING", "AWAITING_CONFIRMATION"},
         SetPayment(o, "PAYMENT_FAILED"),
         UNCHANGED <<req, orders, stock, balance, ledger>>,
         \A t \in Sessions : FreshBalance(t)'
  PROVE  SumsInv'
<1>1. orders[o].cancelled_by # "nobody"
  BY DEF SerialInv, PaymentFollows, Settled
<1>2. \A p \in Orders \ {o} : payments'[p] = payments[p]
  BY PaymentWritten
<1>3. ~FailedByPayment(o) /\ ~FailedByPayment(o)'
  BY <1>1 DEF FailedByPayment
<1>4. QED
  BY <1>2, <1>3, PaymentSums

LEMMA SettledSums ==
  ASSUME TypeInv, TypeInv', SumsInv, NEW o \in Orders, payments[o].status \in Settled,
         UNCHANGED payments \/ (\E status \in Settled : SetPayment(o, status)),
         UNCHANGED <<req, orders, stock, balance, ledger>>,
         \A t \in Sessions : FreshBalance(t)'
  PROVE  SumsInv'
<1>1. /\ payments'[o].status \in Settled
      /\ \A p \in Orders \ {o} : payments'[p] = payments[p]
  BY PaymentWritten
<1>2. ~FailedByPayment(o) /\ ~FailedByPayment(o)'
  BY <1>1 DEF FailedByPayment, Settled
<1>3. QED
  BY <1>1, <1>2, PaymentSums

\* The payment worker.
LEMMA CreateSaveSums ==
  ASSUME TypeInv, TypeInv', BookInv, SumsInv, OneSession, NEW k \in tasks, CreateSave(k)
  PROVE  SumsInv'
<1> DEFINE o == k.order
<1>1. /\ k.kind = "create" /\ SessionFree
      /\ UNCHANGED <<req, orders, stock, balance, ledger, txs>>
      /\ payments' = [payments EXCEPT ![o] =
           [status |-> "AWAITING_CONFIRMATION", linked |-> TRUE]]
  BY DEF CreateSave, ApiSide
<1>2. Unasked(o) /\ o \in Orders
  BY <1>1, CreateTaskKnows
<1> HIDE DEF o
<1>3. /\ payments'[o].status = "AWAITING_CONFIRMATION" /\ payments[o].status = "PENDING"
      /\ \A p \in Orders \ {o} : payments'[p] = payments[p]
  BY <1>1, <1>2 DEF TypeInv, TypeOK, Unasked
<1>4. ~FailedByPayment(o) /\ ~FailedByPayment(o)'
  BY <1>3 DEF FailedByPayment
<1>5. \A t \in Sessions : FreshBalance(t)'
  BY <1>1, FreeBalance
<1>6. QED
  BY <1>1, <1>2, <1>3, <1>4, <1>5, PaymentSums

LEMMA CompensateSums ==
  ASSUME TypeInv, TypeInv', BookInv, SerialInv, SumsInv, OneSession, NEW s \in Sessions,
         CompensateCommit(s)
  PROVE  SumsInv'
<1>1. PICK o \in Orders : o = txs[s].order
  BY SessionOrder DEF CompensateCommit, Running
<1>2. /\ txs[s].op = "compensate" /\ SetPayment(o, "PAYMENT_FAILED") /\ Close(s)
      /\ UNCHANGED req
  BY <1>1 DEF CompensateCommit, Running, ApiSide
<1>3. /\ payments[o].status = "PENDING" /\ orders[o].status # "none"
      /\ txs[s].ost = orders[o].status
  BY <1>1, <1>2
     DEF BookInv, SessionBook, CreatesNow, Unasked, Unplaced, SerialInv, Fresh, FreshOrder
<1>4. \A t \in Sessions : FreshBalance(t)'
  BY <1>2, ClosedBalance
<1>5. CASE orders[o].status = "CANCELLED"
  <2>1. UNCHANGED <<orders, stock, balance, ledger>>
    BY <1>3, <1>5 DEF CompensateCommit
  <2>2. QED
    BY <1>2, <1>3, <1>4, <1>5, <2>1, FailsCancelledSums
<1>6. CASE orders[o].status # "CANCELLED"
  <2>1. orders[o].status = "CREATED"
    <3>1. orders[o].status \notin Served
      BY <1>3 DEF SerialInv, PaymentFollows, Settled
    <3>2. orders[o].status \in OrderStatus \cup {"none"}
      BY DEF TypeInv, TypeOK, OrderRow
    <3>3. QED
      BY <1>3, <1>6, <3>1, <3>2 DEF Served, OrderStatus
  <2>2. SetOrder(o, "CANCELLED") /\ ReverseInLedger(o) /\ RestoreInventory(o)
    BY <1>1, <1>3, <1>6 DEF CompensateCommit, FailOrder
  <2>3. QED
    BY <1>2, <1>4, <2>1, <2>2, FailedSums
<1>7. QED
  BY <1>5, <1>6

LEMMA RefundSums ==
  ASSUME TypeInv, TypeInv', BookInv, SumsInv, OneSession, NEW s \in Sessions,
         RefundOpenCommit(s) \/ RefundSaveCommit(s)
  PROVE  SumsInv'
<1>1. PICK o \in Orders : o = txs[s].order
  BY SessionOrder DEF RefundOpenCommit, RefundSaveCommit, Running
<1>2. /\ Close(s) /\ UNCHANGED <<req, orders, stock, balance, ledger>>
      /\ UNCHANGED payments \/ SetPayment(o, "REFUND_PENDING")
  BY <1>1 DEF RefundOpenCommit, RefundSaveCommit, ApiSide
<1>3. payments[o].status \in Settled
  BY <1>1 DEF RefundOpenCommit, RefundSaveCommit, Running, BookInv, SessionBook, Booked
<1>4. UNCHANGED payments \/ (\E status \in Settled : SetPayment(o, status))
  BY <1>2 DEF Settled
<1>5. \A t \in Sessions : FreshBalance(t)'
  BY <1>2, ClosedBalance
<1>6. QED
  BY <1>2, <1>3, <1>4, <1>5, SettledSums

LEMMA RefundFailSums ==
  ASSUME OneSession, SumsInv, NEW k \in tasks, RefundFail(k)
  PROVE  SumsInv'
<1>1. SessionFree /\ UNCHANGED <<req, orders, payments, stock, balance, ledger, txs>>
  BY DEF RefundFail, ApiSide
<1>2. QED
  BY <1>1, FreeBalance, SumsQuiet

\* The webhook.
LEMMA HookSums ==
  ASSUME TypeInv, TypeInv', BookInv, SerialInv, SumsInv, OneSession, NEW s \in Sessions,
         \/ HookPaid(s) \/ HookUnpaid(s) \/ HookUnpaidCancelled(s)
         \/ HookRefunded(s) \/ HookRefundCanceled(s)
  PROVE  SumsInv'
<1>1. /\ Running(s, "hook", "read") /\ UNCHANGED req
      /\ \E phase \in {"clear", "mark"} : txs' = [txs EXCEPT ![s].phase = phase]
  BY DEF HookPaid, HookUnpaid, HookUnpaidCancelled, HookRefunded,
         HookRefundCanceled, SettleRefund, Saw, ApiAndTasks
<1>2. PICK o \in Orders : o = txs[s].order
  BY <1>1, SessionOrder DEF Running
<1>3. \A t \in Sessions : FreshBalance(t)'
  BY <1>1, PhaseBalance
<1>4. /\ txs[s].ost = orders[o].status
      /\ txs[s].pst \in {"AWAITING_CONFIRMATION", "REFUND_PENDING"} =>
           payments[o].status = txs[s].pst
  BY <1>1, <1>2 DEF SerialInv, Fresh, FreshOrder, BookInv, SessionBook
<1>5. CASE HookPaid(s)
  <2>1. /\ SetPayment(o, "SUCCEEDED") /\ SetOrder(o, "PAID") /\ ConfirmReservation(o)
        /\ txs[s].ost = "CREATED" /\ UNCHANGED <<stock, balance>>
    BY <1>2, <1>5 DEF HookPaid, SeesOpenPayment
  <2>2. /\ orders'[o].status = "PAID" /\ orders[o].status = "CREATED"
        /\ \A p \in Orders \ {o} : orders'[p] = orders[p] /\ payments'[p] = payments[p]
    BY <1>4, <2>1, SetOrderEffect, PaymentWritten
  <2>3. Adds(0)
    <3>1. \A i \in DOMAIN ledger : ledger[i] \in LedgerRow
      BY LedgerIs
    <3>2. /\ DOMAIN ledger' = DOMAIN ledger
          /\ \A i \in DOMAIN ledger : ledger'[i].amount = ledger[i].amount
      BY <2>1, <3>1 DEF ConfirmReservation, LedgerRow
    <3>3. QED
      BY <3>2 DEF Adds
  <2>4. /\ HeldBy(o) = req[o].qty /\ HeldBy(o)' = req[o].qty
        /\ AdriftOf(o) = 0 /\ AdriftOf(o)' = 0
    BY <1>1, <2>2 DEF HeldBy, AdriftOf, Live, FailedByPayment
  <2>5. stock \in Nat /\ req[o].qty \in Nat /\ balance \in Nat
    BY OrderNumbers
  <2>6. stock' + HeldBy(o)' <= stock + HeldBy(o)
    BY <2>1, <2>4, <2>5
  <2>7. balance' + AdriftOf(o)' = balance + AdriftOf(o) + 0
    BY <2>1, <2>4, <2>5
  <2>8. QED
    BY <1>1, <1>3, <2>2, <2>3, <2>6, <2>7, SumsMove
<1>6. CASE HookUnpaid(s)
  <2>1. /\ SetPayment(o, "PAYMENT_FAILED") /\ SetOrder(o, "CANCELLED")
        /\ ReverseInLedger(o) /\ RestoreInventory(o) /\ txs[s].ost = "CREATED"
    BY <1>2, <1>6 DEF HookUnpaid, SeesOpenPayment
  <2>2. QED
    BY <1>1, <1>3, <1>4, <2>1, FailedSums
<1>7. CASE HookUnpaidCancelled(s)
  <2>1. /\ SetPayment(o, "PAYMENT_FAILED") /\ txs[s].pst = "AWAITING_CONFIRMATION"
        /\ txs[s].ost = "CANCELLED" /\ UNCHANGED <<req, orders, stock, balance, ledger>>
    BY <1>1, <1>2, <1>7 DEF HookUnpaidCancelled, SeesCancelledOrder
  <2>2. QED
    BY <1>3, <1>4, <2>1, FailsCancelledSums
<1>8. CASE HookRefunded(s) \/ HookRefundCanceled(s)
  <2>1. /\ txs[s].pst = "REFUND_PENDING" /\ UNCHANGED <<req, orders, stock, balance, ledger>>
        /\ \E status \in Settled : SetPayment(o, status)
    BY <1>1, <1>2, <1>8 DEF HookRefunded, HookRefundCanceled, SettleRefund,
       SeesPendingRefund, Settled
  <2>2. payments[o].status \in Settled
    BY <1>4, <2>1 DEF Settled
  <2>3. QED
    BY <1>3, <2>1, <2>2, SettledSums
<1>9. QED
  BY <1>5, <1>6, <1>7, <1>8

-----------------------------------------------------------------------------
(* The sums are right at first and stay so                                 *)

LEMMA InitSums == TypeInv /\ Init => SumsInv
<1> SUFFICES ASSUME TypeInv, Init PROVE SumsInv
  OBVIOUS
<1>1. \A s \in Sessions : FreshBalance(s)
  BY DEF Init, FreshBalance, IdleTx
<1>2. Placed = {} /\ LiveOrders = {} /\ FailedOrders = {}
  BY DEF Init, Placed, LiveOrders, FailedOrders, Live, FailedByPayment
<1>3. IsFiniteSet(Placed)
  BY <1>2, FS_EmptySet
<1>4. UnitsHeld = 0 /\ PointsAdrift = 0
  <2>1. ASSUME NEW r, NEW f PROVE SumOf(r, f, {}) = 0
    <3>1. IsFiniteSet({}) /\ \A y \in {} : r[y][f] \in Int
      BY FS_EmptySet
    <3>2. QED
      BY <3>1, SumIsTotal, TotalEmpty
  <2>2. QED
    BY <1>2, <2>1, SumsOfTheShop
<1>5. LedgerSum = InitialBalance
  <2>1. PICK S, v : S = DOMAIN ledger /\ v = [i \in S |-> ledger[i].amount]
    OBVIOUS
  <2>2. IsFiniteSet(S) /\ \A i \in S : v[i] = ledger[i].amount /\ v[i] \in Int
    BY <2>1, LedgerIs
  <2>3. LedgerSum = Total(v, S)
    <3>1. SumOf(ledger, "amount", S) = Total([i \in S |-> ledger[i].amount], S)
      BY <2>2, SumIsTotal
    <3>2. QED
      BY <2>1, <3>1, SumsOfTheShop
  <2>4. CASE InitialBalance = 0
    <3>1. ledger = <<>>
      BY <2>4 DEF Init
    <3>2. S = {}
      BY <2>1, <3>1
    <3>3. QED
      BY <2>3, <2>4, <3>2, TotalEmpty
  <2>5. CASE InitialBalance # 0
    <3>1. ledger = <<LedgerEntry(NoOrder, "ADMIN_ADJUSTMENT", InitialBalance,
                                 InitialBalance)>>
      BY <2>5 DEF Init
    <3>2. S = {1} /\ ledger[1].amount = InitialBalance
      BY <2>1, <3>1 DEF LedgerEntry
    <3>3. Total(v, S) = v[1] + Total(v, S \ {1})
      BY <2>2, <3>2, TotalStep
    <3>4. S \ {1} = {} /\ v[1] = InitialBalance /\ v[1] \in Int
      BY <2>2, <3>2
    <3>5. QED
      BY <2>3, <3>3, <3>4, TotalEmpty
  <2>6. QED
    BY <2>4, <2>5
<1>6. /\ stock = InitialStock /\ balance = InitialBalance
      /\ InitialStock \in Nat /\ InitialBalance \in Nat
  BY ConstantsOK DEF Init
<1>7. stock + UnitsHeld <= InitialStock /\ LedgerSum = balance + PointsAdrift
  BY <1>4, <1>5, <1>6
<1>8. QED
  BY <1>1, <1>3, <1>7 DEF SumsInv, NoPhantomStock, LedgerExplainsBalance

LEMMA NextSums ==
  OneSession /\ TypeInv /\ MoneyInv /\ BookInv /\ SerialInv /\ SumsInv /\ [Next]_vars =>
    SumsInv'
<1> SUFFICES ASSUME OneSession, TypeInv, MoneyInv, BookInv, SerialInv, SumsInv, [Next]_vars
             PROVE  SumsInv'
  OBVIOUS
<1>1. TypeInv'
  BY NextTyped
<1>2. ASSUME NEW s \in Sessions, Begin(s) \/ Step(s) \/ SessionLost(s)
      PROVE  SumsInv'
  <2>1. CASE Begin(s) \/ SessionLost(s) \/ IntegrityError(s)
    BY <2>1, SessionQuietSums
  <2>2. CASE CoreApiStep(s)
    BY <1>1, <2>2, SessionQuietSums, CheckoutSums, CancelSums, StaffSums DEF CoreApiStep
  <2>3. CASE WorkerStep(s)
    BY <1>1, <2>3, CompensateSums, RefundSums DEF WorkerStep
  <2>4. CASE HookStep(s)
    BY <1>1, <2>4, SessionQuietSums, HookSums DEF HookStep
  <2>5. QED
    BY <1>2, <2>1, <2>2, <2>3, <2>4 DEF Step
<1>3. CASE CoreApiAtomic
  BY <1>1, <1>3, AroundQuietSums, AtomicSums DEF CoreApiAtomic
<1>4. CASE TaskStep \/ (\E k \in tasks : TaskLost(k))
  BY <1>1, <1>4, AroundQuietSums, CreateSaveSums, RefundFailSums DEF TaskStep
<1>5. CASE YuKassaStep \/ UNCHANGED vars
  BY <1>5, AroundQuietSums
<1>6. QED
  BY <1>2, <1>3, <1>4, <1>5 DEF Next

\* With one session, the stock and the account move with the orders and the
\* ledger.
THEOREM SumsKnown == OneSession => (Spec => []SumsInv)
<1> SUFFICES ASSUME OneSession PROVE Spec => []SumsInv
  OBVIOUS
<1>1. TypeInv /\ MoneyInv /\ BookInv /\ SerialInv /\ SumsInv /\ [Next]_vars => SumsInv'
  BY NextSums
<1>2. TypeInv /\ MoneyInv /\ BookInv /\ SerialInv /\ [Next]_vars => SerialInv'
  BY NextSerial
<1>3. QED
  BY <1>1, <1>2, InitTyped, NextTyped, InitKnows, NextKnows, InitBook, NextBook, InitSerial,
     InitSums, PTL DEF Spec

\* Five handlers give units back; whichever of them comes first is the only
\* one: no more are on the shelf and in live orders than there were.
THEOREM UnitsAddUp == OneSession => (Spec => []NoPhantomStock)
<1>1. SumsInv => NoPhantomStock
  BY DEF SumsInv
<1>2. QED
  BY <1>1, SumsKnown, PTL

\* The ledger, which every path appends to in its own way, explains the
\* account, short of the points that a failed payment leaves adrift.
THEOREM LedgerExplained == OneSession => (Spec => []LedgerExplainsBalance)
<1>1. SumsInv => LedgerExplainsBalance
  BY DEF SumsInv
<1>2. QED
  BY <1>1, SumsKnown, PTL

=============================================================================
