-------------------------- MODULE PromocodesProofs --------------------------
(***************************************************************************)
(* For any prices, settings, edits and overlapping requests: an order adds *)
(* up, no quota is exceeded, and an edit of a promocode keeps its rules    *)
(* unless another edit came between its read and its write.                *)
(*                                                                         *)
(* A checkout prices a line, validates the promocode and writes, each in a *)
(* step of its own; an edit checks the row that it has read.  CheckoutKnows *)
(* and EditKnows say what each may still rely on when it writes.           *)
(***************************************************************************)
EXTENDS Promocodes, FiniteSetTheorems, TLAPS

Columns == {"type", "value", "min", "from", "until", "max", "perUser", "uses", "active"}

\* A body that names no column but those it may, with values of their types.
PatchTyped(patch) ==
  /\ DOMAIN patch \subseteq Columns \ {"uses"}
  /\ \A row \in PromoRow : Over(patch, row) \in PromoRow

EditKnows(q, late) ==
  q.pc = "edit" =>
    /\ q.read \in PromoRow /\ PatchTyped(q.patch)
    /\ Unlocked(q.patch, q.read)
    /\ late \/ PostMerge(q.patch, q.read)

CodeRow == [type : {"none", "percent", "fixed_amount"}, value : Int]
CheckoutRow ==
  [pc : {"priced", "checked"}, customer : Customers, type : {"pickup", "delivery"},
   sized : BOOLEAN, coded : BOOLEAN, subtotal : Int, settings : Settings,
   code : CodeRow, nth : Int, limit : Int, moved : BOOLEAN]

CheckoutKnows(q, onMenu) ==
  q.pc \in {"priced", "checked"} =>
    /\ q \in CheckoutRow
    /\ ~q.moved =>
         q.subtotal = UnitPrice(onMenu.base, IF q.sized THEN onMenu.size ELSE Null, 0)
    /\ q.pc = "checked" /\ q.coded /\ q.limit # Null => q.nth < q.limit

QuoteRow == [subtotal : Int, discount : Int, points : Int, fee : Int, total : Int,
             accrual : Int]
PlacedRow == [customer : Customers, coded : BOOLEAN, code : CodeRow, quote : QuoteRow,
              lines : Int, moved : BOOLEAN, nth : Int, read : Int, limit : Int]

Placed(o) ==
  /\ ~o.moved => o.lines = o.quote.subtotal
  /\ o.quote.total = o.quote.subtotal - o.quote.discount - o.quote.points + o.quote.fee
  /\ o.quote.total >= o.quote.fee
  /\ o.coded /\ o.limit # Null => o.nth <= o.limit \/ o.nth > o.read + 1

PromocodesTyped ==
  /\ promo \in PromoRow
  /\ item \in [base : Bases, size : Sizes, available : BOOLEAN]
  /\ settings \in Settings /\ skewed \in BOOLEAN
  /\ orders \in Seq(PlacedRow)
  /\ proc = [p \in Procs |-> proc[p]]

PromocodesInv ==
  /\ PromocodesTyped
  /\ \A p \in Procs : EditKnows(proc[p], skewed) /\ CheckoutKnows(proc[p], item)
  /\ skewed \/ (WindowOpen(promo) /\ QuotasFit(promo))
  /\ \A i \in DOMAIN orders : Placed(orders[i])

-----------------------------------------------------------------------------
(* Rows and bodies                                                         *)

LEMMA RowColumns == ASSUME NEW row \in PromoRow PROVE DOMAIN row = Columns
BY DEF PromoRow, Columns

LEMMA RowsByColumn ==
  ASSUME NEW row, row = [f \in Columns |-> row[f]],
         row["type"] \in {"percent", "fixed_amount"}, row["value"] \in Int,
         row["min"] \in Int, row["from"] \in Int, row["until"] \in Int, row["max"] \in Int,
         row["perUser"] \in Int, row["uses"] \in Nat, row["active"] \in BOOLEAN
  PROVE  row \in PromoRow
BY DEF PromoRow, Columns

LEMMA PatchesTyped == ASSUME NEW patch \in Patches PROVE PatchTyped(patch)
<1> DEFINE over == Over(patch, FirstPromo)
<1>1. /\ DOMAIN patch \subseteq Columns \ {"uses"} /\ over \in PromoRow
      /\ DOMAIN FirstPromo = Columns
  BY PromocodesAssumption, RowColumns
<1>2. \A f \in DOMAIN patch : over[f] = patch[f]
  BY <1>1 DEF Over
<1>3. ASSUME NEW row \in PromoRow
      PROVE  Over(patch, row) \in PromoRow
  <2> DEFINE new == Over(patch, row)
  <2>1. /\ new = [f \in Columns |-> new[f]]
        /\ \A f \in Columns : new[f] = over[f] \/ new[f] = row[f]
    BY <1>1, <1>2, RowColumns DEF Over
  <2> HIDE DEF new, over
  <2>2. /\ new["type"] \in {"percent", "fixed_amount"} /\ new["value"] \in Int
        /\ new["min"] \in Int /\ new["from"] \in Int /\ new["until"] \in Int
        /\ new["max"] \in Int /\ new["perUser"] \in Int /\ new["uses"] \in Nat
        /\ new["active"] \in BOOLEAN
    BY <1>1, <2>1 DEF PromoRow, Columns
  <2>3. new \in PromoRow
    BY <2>1, <2>2, RowsByColumn
  <2>4. QED
    BY <2>3 DEF new
<1>4. QED
  BY <1>1, <1>3 DEF PatchTyped

LEMMA SwitchTyped ==
  ASSUME NEW on \in BOOLEAN
  PROVE  PatchTyped([active |-> on])
<1> DEFINE patch == [active |-> on]
<1>1. DOMAIN patch = {"active"} /\ patch["active"] = on
  OBVIOUS
<1> HIDE DEF patch
<1>2. ASSUME NEW row \in PromoRow
      PROVE  Over(patch, row) \in PromoRow
  <2> DEFINE new == Over(patch, row)
  <2>1. /\ new = [f \in Columns |-> new[f]] /\ new["active"] = on
        /\ \A f \in Columns \ {"active"} : new[f] = row[f]
    BY <1>1, RowColumns DEF Over, Columns
  <2> HIDE DEF new
  <2>2. new \in PromoRow
    BY <2>1, RowsByColumn DEF PromoRow, Columns
  <2>3. QED
    BY <2>2 DEF new
<1>3. QED
  BY <1>1, <1>2 DEF PatchTyped, Columns, patch

\* The UPDATE leaves the counter, and writes the merged row if the stored
\* one is as it was read.
LEMMA StoredIs ==
  ASSUME promo \in PromoRow, NEW read \in PromoRow, NEW patch, PatchTyped(patch)
  PROVE  LET new == Stored(patch, read) IN
         /\ new \in PromoRow /\ new.uses = promo.uses
         /\ \A f \in Columns \ DOMAIN patch : new[f] = promo[f]
         /\ [promo EXCEPT !.uses = 0] = [read EXCEPT !.uses = 0] =>
              \A f \in Columns \ {"uses"} : new[f] = Over(patch, read)[f]
<1> DEFINE new == Stored(patch, read)
           over == Over(patch, promo)
<1>1. DOMAIN promo = Columns /\ DOMAIN read = Columns
  BY RowColumns
<1>2. /\ new = [f \in Columns |-> new[f]]
      /\ \A f \in Columns : \/ f \in Changed(patch, read) /\ new[f] = patch[f]
                            \/ f \notin Changed(patch, read) /\ new[f] = promo[f]
  BY <1>1 DEF Stored
<1>3. /\ over \in PromoRow /\ DOMAIN patch \subseteq Columns \ {"uses"}
      /\ \A f \in DOMAIN patch : over[f] = patch[f]
  BY <1>1 DEF PatchTyped, Over
<1> HIDE DEF new, over
<1>4. \A f \in Columns : new[f] = over[f] \/ new[f] = promo[f]
  BY <1>2, <1>3 DEF Changed
<1>5. /\ new["type"] \in {"percent", "fixed_amount"} /\ new["value"] \in Int
      /\ new["min"] \in Int /\ new["from"] \in Int /\ new["until"] \in Int
      /\ new["max"] \in Int /\ new["perUser"] \in Int /\ new["uses"] \in Nat
      /\ new["active"] \in BOOLEAN
  BY <1>3, <1>4 DEF PromoRow, Columns
<1>6. new \in PromoRow
  BY <1>2, <1>5, RowsByColumn
<1>7. new.uses = promo.uses /\ \A f \in Columns \ DOMAIN patch : new[f] = promo[f]
  BY <1>2, <1>3 DEF Changed, Columns
<1>8. ASSUME [promo EXCEPT !.uses = 0] = [read EXCEPT !.uses = 0]
      PROVE  \A f \in Columns \ {"uses"} : new[f] = Over(patch, read)[f]
  <2>1. \A f \in Columns \ {"uses"} : promo[f] = read[f]
    BY <1>1, <1>8
  <2>2. QED
    BY <1>1, <1>2, <2>1 DEF Changed, Over
<1>9. QED
  BY <1>6, <1>7, <1>8 DEF new

-----------------------------------------------------------------------------
(* The pricing chain                                                       *)

LEMMA DiscountFits ==
  ASSUME NEW subtotal \in Int, NEW code \in CodeRow
  PROVE  Discount(subtotal, code) \in Int /\ Discount(subtotal, code) <= subtotal
<1>1. code.value \in Int /\ code.type \in {"none", "percent", "fixed_amount"}
  BY DEF CodeRow
<1>2. RawDiscount(subtotal, code) \in Int
  BY <1>1 DEF RawDiscount
<1>3. QED
  BY <1>2 DEF Discount, Least

LEMMA PointsFit ==
  ASSUME NEW amount \in Int, NEW requested \in Int, NEW balance \in Int, amount >= 0
  PROVE  PointsApplied(amount, requested, balance) \in 0..amount
BY DEF PointsApplied, Least

\* However the parts are chosen, they make the total.
LEMMA QuoteAddsUp ==
  ASSUME NEW subtotal \in Int, NEW code \in CodeRow, NEW requested \in Int,
         NEW balance \in Int, NEW type, NEW s \in Settings
  PROVE  LET q == Quote(subtotal, code, requested, balance, type, s) IN
         /\ q \in QuoteRow /\ q.subtotal = subtotal
         /\ q.total = q.subtotal - q.discount - q.points + q.fee
         /\ q.total >= q.fee
<1> DEFINE d == Discount(subtotal, code)
           n == PointsApplied(subtotal - d, requested, balance)
           fee == DeliveryFee(type, subtotal, s)
           total == OrderTotal(subtotal, d, n, fee)
           accrual == EstimatedAccrual(subtotal - d - n, s.percent)
<1>1. s.fee \in Nat /\ s.percent \in Nat
  BY PromocodesAssumption
<1>2. d \in Int /\ d <= subtotal
  BY DiscountFits
<1>3. n \in 0..(subtotal - d)
  BY <1>2, PointsFit
<1>4. fee \in Nat
  BY <1>1 DEF DeliveryFee
<1> HIDE DEF d, n, fee
<1>5. total = subtotal - d - n + fee /\ total \in Int /\ total >= fee
  BY <1>2, <1>3, <1>4 DEF OrderTotal
<1>6. accrual \in Int
  BY <1>1, <1>2, <1>3 DEF EstimatedAccrual
<1> HIDE DEF total, accrual
<1>7. [subtotal |-> subtotal, discount |-> d, points |-> n, fee |-> fee, total |-> total,
       accrual |-> accrual] \in QuoteRow
  BY <1>2, <1>3, <1>4, <1>5, <1>6 DEF QuoteRow
<1>8. Quote(subtotal, code, requested, balance, type, s) =
        [subtotal |-> subtotal, discount |-> d, points |-> n, fee |-> fee, total |-> total,
         accrual |-> accrual]
  BY DEF Quote, d, n, fee, total, accrual
<1>9. QED
  BY <1>5, <1>7, <1>8

LEMMA LinePriced ==
  ASSUME item \in [base : Bases, size : Sizes, available : BOOLEAN], NEW q
  PROVE  LinePrice(q) \in Int
<1>1. item.base \in Int /\ item.size \in Int
  BY PromocodesAssumption
<1>2. QED
  BY <1>1 DEF LinePrice, UnitPrice, Null

LEMMA UsagesTyped == ASSUME PromocodesTyped, NEW c PROVE Usages(c) \in Nat
<1>1. DOMAIN orders = 1..Len(orders) /\ Len(orders) \in Nat
  BY DEF PromocodesTyped
<1>2. IsFiniteSet(DOMAIN orders)
  BY <1>1, FS_Interval
<1>3. IsFiniteSet({i \in DOMAIN orders : orders[i].customer = c /\ orders[i].coded})
  BY <1>2, FS_Subset
<1>4. QED
  BY <1>3, FS_CardinalityType DEF Usages

-----------------------------------------------------------------------------
(* What a step has to show                                                 *)

LEMMA IdleKnows == ASSUME NEW late, NEW onMenu
                   PROVE  EditKnows(Idle, late) /\ CheckoutKnows(Idle, onMenu)
BY DEF EditKnows, CheckoutKnows, Idle

LEMMA InitKnown == PromocodesInit => PromocodesInv
<1> SUFFICES ASSUME PromocodesInit PROVE PromocodesInv
  OBVIOUS
<1>1. /\ proc = [p \in Procs |-> Idle] /\ promo = FirstPromo /\ orders = <<>> /\ ~skewed
      /\ skewed \in BOOLEAN /\ settings \in Settings
      /\ item \in [base : Bases, size : Sizes, available : {TRUE}]
  BY DEF PromocodesInit
<1>2. item \in [base : Bases, size : Sizes, available : BOOLEAN]
  BY <1>1
<1>3. PromocodesTyped
  BY <1>1, <1>2, PromocodesAssumption DEF PromocodesTyped
<1>4. \A p \in Procs : EditKnows(proc[p], skewed) /\ CheckoutKnows(proc[p], item)
  BY <1>1, IdleKnows
<1>5. WindowOpen(promo) /\ QuotasFit(promo)
  BY <1>1, PromocodesAssumption
<1>6. DOMAIN orders = {}
  BY <1>1
<1>7. QED
  BY <1>3, <1>4, <1>5, <1>6 DEF PromocodesInv

\* One request moves on; the menu stays.
LEMMA RequestsKnow ==
  ASSUME PromocodesInv, NEW p \in Procs, NEW row, proc' = [proc EXCEPT ![p] = row],
         item' = item, skewed => skewed',
         EditKnows(row, skewed'), CheckoutKnows(row, item)
  PROVE  /\ proc' = [q \in Procs |-> proc'[q]]
         /\ \A q \in Procs : EditKnows(proc'[q], skewed') /\ CheckoutKnows(proc'[q], item')
<1>1. proc = [q \in Procs |-> proc[q]]
  BY DEF PromocodesInv, PromocodesTyped
<1>2. /\ proc'[p] = row /\ proc' = [q \in Procs |-> proc'[q]]
      /\ \A q \in Procs \ {p} : proc'[q] = proc[q]
  BY <1>1
<1>3. ASSUME NEW q \in Procs
      PROVE  EditKnows(proc'[q], skewed') /\ CheckoutKnows(proc'[q], item')
  <2>1. CASE q = p
    BY <1>2, <2>1
  <2>2. CASE q # p
    <3>1. EditKnows(proc[q], skewed) /\ CheckoutKnows(proc[q], item)
      BY DEF PromocodesInv
    <3>2. EditKnows(proc[q], skewed')
      BY <3>1 DEF EditKnows
    <3>3. QED
      BY <1>2, <2>2, <3>1, <3>2
  <2>3. QED
    BY <2>1, <2>2
<1>4. QED
  BY <1>2, <1>3

\* One request moves on and writes nothing.
LEMMA RequestMoves ==
  ASSUME PromocodesInv, NEW p \in Procs, NEW row, proc' = [proc EXCEPT ![p] = row],
         UNCHANGED <<promo, item, settings, orders, skewed>>,
         EditKnows(row, skewed), CheckoutKnows(row, item)
  PROVE  PromocodesInv'
<1>1. /\ proc' = [q \in Procs |-> proc'[q]]
      /\ \A q \in Procs : EditKnows(proc'[q], skewed') /\ CheckoutKnows(proc'[q], item')
  BY RequestsKnow
<1>2. PromocodesTyped'
  BY <1>1 DEF PromocodesInv, PromocodesTyped
<1>3. /\ skewed' \/ (WindowOpen(promo') /\ QuotasFit(promo'))
      /\ \A i \in DOMAIN orders' : Placed(orders'[i])
  BY DEF PromocodesInv
<1>4. QED
  BY <1>1, <1>2, <1>3 DEF PromocodesInv

-----------------------------------------------------------------------------
(* Edits                                                                   *)

LEMMA EditReadKnown ==
  ASSUME PromocodesInv, NEW p \in Procs, EditRead(p)
  PROVE  PromocodesInv'
<1>1. PICK patch \in Patches :
        /\ Unlocked(patch, promo) /\ PostMerge(patch, promo)
        /\ proc' = [proc EXCEPT ![p] = [pc |-> "edit", read |-> promo, patch |-> patch]]
        /\ UNCHANGED <<promo, item, settings, orders, skewed>>
  BY DEF EditRead
<1> DEFINE row == [pc |-> "edit", read |-> promo, patch |-> patch]
<1>2. row.pc = "edit" /\ row.read = promo /\ row.patch = patch
  OBVIOUS
<1>3. proc' = [proc EXCEPT ![p] = row]
  BY <1>1
<1> HIDE DEF row
<1>4. promo \in PromoRow /\ PatchTyped(patch)
  BY PatchesTyped DEF PromocodesInv, PromocodesTyped
<1>5. EditKnows(row, skewed) /\ CheckoutKnows(row, item)
  BY <1>1, <1>2, <1>4 DEF EditKnows, CheckoutKnows
<1>6. QED
  BY <1>1, <1>3, <1>5, RequestMoves

LEMMA SwitchKnown ==
  ASSUME PromocodesInv, NEW p \in Procs, Activate(p) \/ Deactivate(p)
  PROVE  PromocodesInv'
<1>1. PICK on \in BOOLEAN :
        /\ proc' = [proc EXCEPT ![p] =
             [pc |-> "edit", read |-> promo, patch |-> [active |-> on]]]
        /\ UNCHANGED <<promo, item, settings, orders, skewed>>
  BY DEF Activate, Deactivate
<1> DEFINE patch == [active |-> on]
           row == [pc |-> "edit", read |-> promo, patch |-> patch]
           over == Over(patch, promo)
<1>2. DOMAIN patch = {"active"} /\ PatchTyped(patch)
  BY SwitchTyped
<1>3. proc' = [proc EXCEPT ![p] = row]
  BY <1>1
<1> HIDE DEF patch
<1>4. row.pc = "edit" /\ row.read = promo /\ row.patch = patch
  OBVIOUS
<1>5. promo \in PromoRow /\ (skewed \/ (WindowOpen(promo) /\ QuotasFit(promo)))
  BY DEF PromocodesInv, PromocodesTyped
<1>6. /\ over.from = promo.from /\ over.until = promo.until
      /\ over.max = promo.max /\ over.perUser = promo.perUser
  BY <1>2, <1>5, RowColumns DEF Over, Columns
<1>7. skewed \/ PostMerge(patch, promo)
  BY <1>5, <1>6 DEF PostMerge, WindowOpen, QuotasFit
<1>8. Unlocked(patch, promo)
  BY <1>2 DEF Unlocked, Locked
<1> HIDE DEF row
<1>9. EditKnows(row, skewed) /\ CheckoutKnows(row, item)
  BY <1>2, <1>4, <1>5, <1>7, <1>8 DEF EditKnows, CheckoutKnows
<1>10. QED
  BY <1>1, <1>3, <1>9, RequestMoves

LEMMA EditWriteKnown ==
  ASSUME PromocodesInv, NEW p \in Procs, EditWrite(p)
  PROVE  PromocodesInv'
<1> DEFINE q == proc[p]
           over == Over(q.patch, q.read)
<1>1. /\ q.pc = "edit" /\ promo' = Stored(q.patch, q.read)
      /\ skewed' = (skewed \/ [promo EXCEPT !.uses = 0] # [q.read EXCEPT !.uses = 0])
      /\ proc' = [proc EXCEPT ![p] = Idle] /\ UNCHANGED <<item, settings, orders>>
  BY DEF EditWrite
<1>2. /\ promo \in PromoRow /\ q.read \in PromoRow /\ PatchTyped(q.patch)
      /\ skewed \/ PostMerge(q.patch, q.read)
  BY <1>1 DEF PromocodesInv, PromocodesTyped, EditKnows
<1>3. /\ promo' \in PromoRow
      /\ [promo EXCEPT !.uses = 0] = [q.read EXCEPT !.uses = 0] =>
           \A f \in Columns \ {"uses"} : promo'[f] = over[f]
  BY <1>1, <1>2, StoredIs
<1>4. (skewed => skewed') /\ skewed' \in BOOLEAN
  BY <1>1 DEF PromocodesInv, PromocodesTyped
<1>5. /\ proc' = [r \in Procs |-> proc'[r]]
      /\ \A r \in Procs : EditKnows(proc'[r], skewed') /\ CheckoutKnows(proc'[r], item')
  BY <1>1, <1>4, IdleKnows, RequestsKnow
<1>6. PromocodesTyped'
  BY <1>1, <1>3, <1>4, <1>5 DEF PromocodesInv, PromocodesTyped
<1>7. skewed' \/ (WindowOpen(promo') /\ QuotasFit(promo'))
  <2> SUFFICES ASSUME ~skewed' PROVE WindowOpen(promo') /\ QuotasFit(promo')
    OBVIOUS
  <2>1. /\ [promo EXCEPT !.uses = 0] = [q.read EXCEPT !.uses = 0]
        /\ WindowOpen(over) /\ QuotasFit(over)
    BY <1>1, <1>2 DEF PostMerge
  <2> HIDE DEF over
  <2>2. /\ promo'["from"] = over["from"] /\ promo'["until"] = over["until"]
        /\ promo'["max"] = over["max"] /\ promo'["perUser"] = over["perUser"]
    BY <1>3, <2>1 DEF Columns
  <2>3. QED
    BY <2>1, <2>2 DEF WindowOpen, QuotasFit
<1>8. \A i \in DOMAIN orders' : Placed(orders'[i])
  BY <1>1 DEF PromocodesInv
<1>9. QED
  BY <1>5, <1>6, <1>7, <1>8 DEF PromocodesInv

\* A checkout that has priced its line is marked: it keeps nothing else.
LEMMA EditMenuKnown == ASSUME PromocodesInv, EditMenu PROVE PromocodesInv'
<1>1. /\ item' \in [base : Bases, size : Sizes, available : BOOLEAN]
      /\ proc' = [p \in Procs |-> Repriced(p)]
      /\ UNCHANGED <<promo, settings, orders, skewed>>
  BY DEF EditMenu
<1>2. ASSUME NEW p \in Procs
      PROVE  EditKnows(proc'[p], skewed') /\ CheckoutKnows(proc'[p], item')
  <2>1. proc'[p] = Repriced(p) /\ EditKnows(proc[p], skewed) /\ CheckoutKnows(proc[p], item)
    BY <1>1 DEF PromocodesInv
  <2>2. CASE proc[p].pc \in {"priced", "checked"}
    <3> DEFINE row == [proc[p] EXCEPT !.moved = TRUE]
    <3>1. proc[p] \in CheckoutRow
      BY <2>1, <2>2 DEF CheckoutKnows
    <3>2. /\ row \in CheckoutRow /\ row.moved /\ row.pc = proc[p].pc
          /\ row.coded = proc[p].coded /\ row.limit = proc[p].limit /\ row.nth = proc[p].nth
      BY <3>1 DEF CheckoutRow
    <3> HIDE DEF row
    <3>3. EditKnows(row, skewed') /\ CheckoutKnows(row, item')
      BY <2>1, <2>2, <3>2 DEF EditKnows, CheckoutKnows
    <3>4. QED
      BY <2>1, <2>2, <3>3 DEF Repriced, row
  <2>3. CASE proc[p].pc \notin {"priced", "checked"}
    <3>1. proc'[p] = proc[p]
      BY <2>1, <2>3 DEF Repriced
    <3>2. CheckoutKnows(proc[p], item')
      BY <2>3 DEF CheckoutKnows
    <3>3. QED
      BY <1>1, <2>1, <3>1, <3>2
  <2>4. QED
    BY <2>2, <2>3
<1>3. proc' = [p \in Procs |-> proc'[p]]
  BY <1>1
<1>4. PromocodesTyped'
  BY <1>1, <1>3 DEF PromocodesInv, PromocodesTyped
<1>5. QED
  BY <1>1, <1>2, <1>4 DEF PromocodesInv

\* Time passes, or the settings change.
LEMMA SurroundingsKnown ==
  ASSUME PromocodesInv, settings' \in Settings, UNCHANGED <<promo, item, orders, proc, skewed>>
  PROVE  PromocodesInv'
BY DEF PromocodesInv, PromocodesTyped

-----------------------------------------------------------------------------
(* A checkout                                                              *)

LEMMA CheckoutPricesKnown ==
  ASSUME PromocodesInv, NEW p \in Procs, CheckoutPrices(p)
  PROVE  PromocodesInv'
<1>1. PICK c \in Customers, type \in {"pickup", "delivery"}, sized, coded \in BOOLEAN :
        LET subtotal == UnitPrice(item.base, IF sized THEN item.size ELSE Null, 0) IN
        /\ proc[p].pc = "idle"
        /\ Len(orders) + Cardinality({q \in Procs : proc[q].pc \in {"priced", "checked"}})
             < MaxOrders
        /\ ~settings.paused
        /\ item.available
        /\ Deliverable(type, subtotal, settings)
        /\ proc' = [proc EXCEPT ![p] =
             [pc |-> "priced", customer |-> c, type |-> type, sized |-> sized,
              coded |-> coded, subtotal |-> subtotal, settings |-> settings,
              code |-> NoPromocode, nth |-> 0, limit |-> Null, moved |-> FALSE]]
        /\ UNCHANGED <<now, promo, item, settings, orders, edits, skewed>>
  BY DEF CheckoutPrices
<1> DEFINE subtotal == UnitPrice(item.base, IF sized THEN item.size ELSE Null, 0)
           row ==
             [pc |-> "priced", customer |-> c, type |-> type, sized |-> sized,
              coded |-> coded, subtotal |-> subtotal, settings |-> settings,
              code |-> NoPromocode, nth |-> 0, limit |-> Null, moved |-> FALSE]
<1>2. item.base \in Int /\ item.size \in Int /\ settings \in Settings
  BY PromocodesAssumption DEF PromocodesInv, PromocodesTyped
<1>3. subtotal \in Int /\ NoPromocode \in CodeRow /\ Null \in Int /\ FALSE \in BOOLEAN
  BY <1>2 DEF UnitPrice, Null, NoPromocode, CodeRow
<1>4. row \in CheckoutRow
  BY <1>2, <1>3 DEF CheckoutRow
<1>5. row.pc = "priced" /\ row.subtotal = subtotal /\ row.sized = sized
  OBVIOUS
<1>6. proc' = [proc EXCEPT ![p] = row]
  BY <1>1
<1> HIDE DEF row
<1>7. EditKnows(row, skewed) /\ CheckoutKnows(row, item)
  BY <1>4, <1>5 DEF EditKnows, CheckoutKnows
<1>8. QED
  BY <1>1, <1>6, <1>7, RequestMoves

\* The validation looks at the limit that it remembers.
LEMMA CheckoutValidatesKnown ==
  ASSUME PromocodesInv, NEW p \in Procs, CheckoutValidates(p)
  PROVE  PromocodesInv'
<1>1. proc[p].pc = "priced" /\ CheckoutKnows(proc[p], item) /\ promo \in PromoRow
  BY DEF CheckoutValidates, PromocodesInv, PromocodesTyped
<1>2. PICK q \in CheckoutRow : q = proc[p]
  BY <1>1 DEF CheckoutKnows
<1>3. ~q.moved => q.subtotal = UnitPrice(item.base, IF q.sized THEN item.size ELSE Null, 0)
  BY <1>1, <1>2 DEF CheckoutKnows
<1>4. UNCHANGED <<promo, item, settings, orders, skewed>>
  BY DEF CheckoutValidates
<1>5. CASE q.coded
  <2>1. PICK n \in Int : n = Usages(q.customer)
    BY UsagesTyped DEF PromocodesInv
  <2>2. PICK l \in Int : l = promo.perUser /\ (l # Null => n < l)
    BY <1>1, <1>2, <1>5, <2>1 DEF CheckoutValidates, PerUserLeft, PromoRow
  <2>3. PICK code \in CodeRow : code = [type |-> promo.type, value |-> promo.value]
    BY <1>1 DEF PromoRow, CodeRow
  <2> DEFINE row == [q EXCEPT !.pc = "checked", !.nth = n, !.limit = l, !.code = code]
  <2>4. proc' = [proc EXCEPT ![p] = row]
    <3>1. proc' = [proc EXCEPT ![p] =
            IF q.coded THEN [q EXCEPT !.pc = "checked", !.nth = n, !.limit = l, !.code = code]
            ELSE [q EXCEPT !.pc = "checked"]]
      BY <1>2, <2>1, <2>2, <2>3, Zenon DEF CheckoutValidates
    <3>2. QED
      BY <1>5, <3>1
  <2>5. /\ row \in CheckoutRow /\ row.pc = "checked" /\ row.nth = n /\ row.limit = l
        /\ row.sized = q.sized /\ row.moved = q.moved /\ row.subtotal = q.subtotal
    <3> DEFINE then == [q EXCEPT !.pc = "checked"]
               numbered == [then EXCEPT !.nth = n]
               limited == [numbered EXCEPT !.limit = l]
    <3>1. then \in CheckoutRow
      BY DEF CheckoutRow
    <3>2. numbered \in CheckoutRow
      BY <3>1 DEF CheckoutRow
    <3>3. limited \in CheckoutRow
      BY <3>2 DEF CheckoutRow
    <3>4. row = [limited EXCEPT !.code = code]
      OBVIOUS
    <3> HIDE DEF limited
    <3>5. row \in CheckoutRow
      BY <3>3, <3>4 DEF CheckoutRow
    <3>6. QED
      BY <3>5 DEF CheckoutRow
  <2> HIDE DEF row
  <2>6. EditKnows(row, skewed) /\ CheckoutKnows(row, item)
    BY <1>3, <2>2, <2>5 DEF EditKnows, CheckoutKnows
  <2>7. QED
    BY <1>4, <2>4, <2>6, RequestMoves
<1>6. CASE ~q.coded
  <2> DEFINE row == [q EXCEPT !.pc = "checked"]
  <2>1. proc' = [proc EXCEPT ![p] = row]
    BY <1>2, <1>6 DEF CheckoutValidates
  <2>2. /\ row \in CheckoutRow /\ row.pc = "checked" /\ row.coded = q.coded
        /\ row.sized = q.sized /\ row.moved = q.moved /\ row.subtotal = q.subtotal
    BY DEF CheckoutRow
  <2> HIDE DEF row
  <2>3. EditKnows(row, skewed) /\ CheckoutKnows(row, item)
    BY <1>3, <1>6, <2>2 DEF EditKnows, CheckoutKnows
  <2>4. QED
    BY <1>4, <2>1, <2>3, RequestMoves
<1>7. QED
  BY <1>5, <1>6

\* The order is placed as it was priced and validated.
LEMMA CheckoutPlacesKnown ==
  ASSUME PromocodesInv, NEW p \in Procs, CheckoutPlaces(p)
  PROVE  PromocodesInv'
<1>1. /\ proc[p].pc = "checked" /\ CheckoutKnows(proc[p], item) /\ promo \in PromoRow
      /\ item \in [base : Bases, size : Sizes, available : BOOLEAN] /\ orders \in Seq(PlacedRow)
  BY DEF CheckoutPlaces, PromocodesInv, PromocodesTyped
<1>2. PICK q \in CheckoutRow : q = proc[p]
  BY <1>1 DEF CheckoutKnows
<1>3. PICK n \in Nat : n = Usages(q.customer)
  BY UsagesTyped DEF PromocodesInv
<1>4. PICK lines \in Int : lines = LinePrice(q)
  BY <1>1, LinePriced
<1>5. /\ ~q.moved => q.subtotal = lines
      /\ q.coded /\ q.limit # Null => q.nth < q.limit
  BY <1>1, <1>2, <1>4 DEF CheckoutKnows, LinePrice
<1>6. /\ q.subtotal \in Int /\ q.code \in CodeRow /\ q.settings \in Settings
      /\ q.nth \in Int /\ q.limit \in Int /\ q.coded \in BOOLEAN /\ q.moved \in BOOLEAN
      /\ q.customer \in Customers
  BY DEF CheckoutRow
<1>7. PICK quote \in QuoteRow :
        /\ quote = Quote(q.subtotal, q.code, Balance, Balance, q.type, q.settings)
        /\ quote.subtotal = q.subtotal
        /\ quote.total = quote.subtotal - quote.discount - quote.points + quote.fee
        /\ quote.total >= quote.fee
  BY <1>6, QuoteAddsUp, PromocodesAssumption
<1> DEFINE o == [customer |-> q.customer, coded |-> q.coded, code |-> q.code,
                 quote |-> quote, lines |-> lines, moved |-> q.moved,
                 nth |-> n + 1, read |-> q.nth, limit |-> q.limit]
<1>8. /\ orders' = Append(orders, o)
      /\ promo' = IF q.coded THEN [promo EXCEPT !.uses = @ + 1] ELSE promo
      /\ proc' = [proc EXCEPT ![p] = Idle] /\ UNCHANGED <<item, settings, skewed>>
  BY <1>2, <1>3, <1>4, <1>7 DEF CheckoutPlaces
<1>9. /\ o.quote = quote /\ o.lines = lines /\ o.moved = q.moved /\ o.coded = q.coded
      /\ o.nth = n + 1 /\ o.read = q.nth /\ o.limit = q.limit /\ o \in PlacedRow
  BY <1>6 DEF PlacedRow
<1> HIDE DEF o
<1>10. Placed(o)
  BY <1>5, <1>6, <1>7, <1>9 DEF Placed
<1>11. orders' \in Seq(PlacedRow) /\ \A i \in DOMAIN orders' : Placed(orders'[i])
  <2>1. /\ orders' \in Seq(PlacedRow) /\ Len(orders) \in Nat
        /\ \A i \in DOMAIN orders : orders'[i] = orders[i]
        /\ orders'[Len(orders) + 1] = o
        /\ DOMAIN orders = 1..Len(orders) /\ DOMAIN orders' = 1..(Len(orders) + 1)
    BY <1>1, <1>8, <1>9
  <2>2. \A i \in DOMAIN orders : Placed(orders[i])
    BY DEF PromocodesInv
  <2>3. ASSUME NEW i \in DOMAIN orders' PROVE Placed(orders'[i])
    <3>1. i \in DOMAIN orders \/ i = Len(orders) + 1
      BY <2>1
    <3>2. CASE i \in DOMAIN orders
      <4>1. orders'[i] = orders[i] /\ Placed(orders[i])
        BY <2>1, <2>2, <3>2
      <4>2. QED
        BY <4>1
    <3>3. CASE i = Len(orders) + 1
      <4>1. orders'[i] = o
        BY <2>1, <3>3
      <4>2. QED
        BY <1>10, <4>1
    <3>4. QED
      BY <3>1, <3>2, <3>3
  <2>4. QED
    BY <2>1, <2>3
<1>12. /\ promo' \in PromoRow /\ promo'.from = promo.from /\ promo'.until = promo.until
       /\ promo'.max = promo.max /\ promo'.perUser = promo.perUser
  <2> DEFINE more == [promo EXCEPT !.uses = @ + 1]
  <2>1. /\ promo.uses \in Nat /\ DOMAIN promo = Columns
        /\ promo = [f \in Columns |-> promo[f]]
    BY <1>1, RowColumns DEF PromoRow, Columns
  <2>4. /\ more = [f \in Columns |-> more[f]] /\ more["uses"] = promo.uses + 1
        /\ \A f \in Columns \ {"uses"} : more[f] = promo[f]
    BY <2>1 DEF Columns
  <2>2. promo' = more \/ promo' = promo
    BY <1>8
  <2> HIDE DEF more
  <2>5. more \in PromoRow
    <3>1. /\ promo["type"] \in {"percent", "fixed_amount"} /\ promo["value"] \in Int
          /\ promo["min"] \in Int /\ promo["from"] \in Int /\ promo["until"] \in Int
          /\ promo["max"] \in Int /\ promo["perUser"] \in Int /\ promo["uses"] \in Nat
          /\ promo["active"] \in BOOLEAN
      BY <1>1 DEF PromoRow
    <3>2. /\ more["type"] = promo["type"] /\ more["value"] = promo["value"]
          /\ more["min"] = promo["min"] /\ more["from"] = promo["from"]
          /\ more["until"] = promo["until"] /\ more["max"] = promo["max"]
          /\ more["perUser"] = promo["perUser"] /\ more["active"] = promo["active"]
          /\ more["uses"] = promo["uses"] + 1
      BY <2>4 DEF Columns
    <3>3. QED
      BY <2>4, <3>1, <3>2, RowsByColumn
  <2>3. QED
    <3>1. /\ more.from = promo.from /\ more.until = promo.until
          /\ more.max = promo.max /\ more.perUser = promo.perUser
      BY <2>4 DEF Columns
    <3>2. QED
      BY <1>1, <2>2, <2>5, <3>1
<1>13. /\ proc' = [r \in Procs |-> proc'[r]]
       /\ \A r \in Procs : EditKnows(proc'[r], skewed') /\ CheckoutKnows(proc'[r], item')
  BY <1>8, IdleKnows, RequestsKnow
<1>14. PromocodesTyped'
  BY <1>8, <1>11, <1>12, <1>13 DEF PromocodesInv, PromocodesTyped
<1>15. skewed' \/ (WindowOpen(promo') /\ QuotasFit(promo'))
  BY <1>8, <1>12 DEF PromocodesInv, WindowOpen, QuotasFit
<1>16. QED
  BY <1>11, <1>13, <1>14, <1>15 DEF PromocodesInv

LEMMA CheckoutFailsKnown ==
  ASSUME PromocodesInv, NEW p \in Procs, CheckoutFails(p)
  PROVE  PromocodesInv'
BY IdleKnows, RequestMoves DEF CheckoutFails

\* Who writes the row of promocodes.
LEMMA PromoWrites ==
  ASSUME PromocodesNext
  PROVE  promo' = promo \/ \E p \in Procs : EditWrite(p) \/ CheckoutPlaces(p)
<1>1. ASSUME NEW p \in Procs, EditRead(p) \/ CheckoutPrices(p) PROVE promo' = promo
  BY <1>1 DEF EditRead, CheckoutPrices
<1>2. ASSUME NEW p \in Procs, Activate(p) \/ Deactivate(p) \/ CheckoutValidates(p)
               \/ CheckoutFails(p)
      PROVE  promo' = promo
  BY <1>2 DEF Activate, Deactivate, CheckoutValidates, CheckoutFails
<1>3. Tick \/ EditMenu \/ EditSettings => promo' = promo
  BY DEF Tick, EditMenu, EditSettings
<1>4. QED
  BY <1>1, <1>2, <1>3 DEF PromocodesNext

LEMMA StepKnown == PromocodesInv /\ [PromocodesNext]_promoVars => PromocodesInv'
<1> SUFFICES ASSUME PromocodesInv, [PromocodesNext]_promoVars PROVE PromocodesInv'
  OBVIOUS
<1>1. CASE Tick \/ EditSettings \/ UNCHANGED promoVars
  <2>1. settings \in Settings
    BY DEF PromocodesInv, PromocodesTyped
  <2>2. settings' \in Settings /\ UNCHANGED <<promo, item, orders, proc, skewed>>
    BY <1>1, <2>1 DEF Tick, EditSettings, promoVars
  <2>3. QED
    BY <2>2, SurroundingsKnown
<1>2. CASE EditMenu
  BY <1>2, EditMenuKnown
<1>3. ASSUME NEW p \in Procs,
             EditRead(p) \/ Activate(p) \/ Deactivate(p) \/ EditWrite(p) \/ CheckoutPrices(p)
               \/ CheckoutValidates(p) \/ CheckoutPlaces(p) \/ CheckoutFails(p)
      PROVE  PromocodesInv'
  BY <1>3, EditReadKnown, SwitchKnown, EditWriteKnown, CheckoutPricesKnown,
     CheckoutValidatesKnown, CheckoutPlacesKnown, CheckoutFailsKnown
<1>4. QED
  BY <1>1, <1>2, <1>3 DEF PromocodesNext

-----------------------------------------------------------------------------
\* What every request knows holds in every reachable state.
THEOREM RequestsHold == PromocodesSpec => []PromocodesInv
BY InitKnown, StepKnown, PTL DEF PromocodesSpec

\* However menu, settings and promocode are edited meanwhile, the parts of an
\* order make its total, which is never below the delivery fee, and its lines
\* make its subtotal unless the menu changed under it (create_order).
THEOREM OrdersAddUp == PromocodesSpec => []OrderAddsUp
<1>1. PromocodesInv => OrderAddsUp
  BY DEF PromocodesInv, Placed, OrderAddsUp
<1>2. QED
  BY <1>1, RequestsHold, PTL

\* A customer goes beyond the limit per user only with checkouts of his own
\* that overlapped (validate_promocode counts, create_order writes).
THEOREM PerUserLimitKept == PromocodesSpec => []PerUserLimit
<1>1. PromocodesInv => PerUserLimit
  BY DEF PromocodesInv, Placed, PerUserLimit
<1>2. QED
  BY <1>1, RequestsHold, PTL

\* Only a checkout takes a use, and the conditional UPDATE takes none beyond
\* the quota of the row that it writes, whatever the edits made of it.
THEOREM QuotaKept == PromocodesSpec => QuotaInForce
<1>1. ASSUME PromocodesInv, PromocodesNext, promo'.uses > promo.uses
      PROVE  promo.max = Null \/ promo'.uses <= promo.max
  <2>1. promo \in PromoRow
    BY <1>1 DEF PromocodesInv, PromocodesTyped
  <2>2. ASSUME NEW p \in Procs, EditWrite(p) PROVE promo'.uses = promo.uses
    <3>1. EditKnows(proc[p], skewed) /\ proc[p].pc = "edit"
      BY <1>1, <2>2 DEF PromocodesInv, EditWrite
    <3>2. proc[p].read \in PromoRow /\ PatchTyped(proc[p].patch)
      BY <3>1 DEF EditKnows
    <3>3. QED
      BY <2>1, <2>2, <3>2, StoredIs DEF EditWrite
  <2>3. promo.uses \in Nat /\ promo.max \in Int
    BY <2>1 DEF PromoRow
  <2>4. PICK p \in Procs : CheckoutPlaces(p)
    BY <1>1, <2>2, <2>3, PromoWrites
  <2>5. proc[p].coded /\ promo'.uses = promo.uses + 1
    BY <1>1, <2>1, <2>3, <2>4 DEF CheckoutPlaces, PromoRow
  <2>6. QED
    BY <2>3, <2>4, <2>5 DEF CheckoutPlaces, QuotaLeft
<1>2. PromocodesInv /\ [PromocodesNext]_promoVars =>
        [promo'.uses > promo.uses => promo.max = Null \/ promo'.uses <= promo.max]_promoVars
  BY <1>1
<1>3. QED
  BY <1>2, RequestsHold, PTL DEF PromocodesSpec, QuotaInForce

\* A promocode in use gets another discount only from an edit that had read it
\* unused, and only edits that overlapped can break its window or its quotas
\* (update_promocode checks the row that it has read).
THEOREM EditsKeepTheRules == PromocodesSpec => EditsKeepRules
<1> DEFINE Rules ==
      /\ promo.uses > 0 /\ <<promo'.type, promo'.value>> # <<promo.type, promo.value>> =>
           \E p \in Procs : proc[p].pc = "edit" /\ proc[p].read.uses = 0
      /\ skewed' \/ (WindowOpen(promo') /\ QuotasFit(promo'))
<1>1. ASSUME PromocodesInv, PromocodesNext,
             <<promo'.type, promo'.value>> # <<promo.type, promo.value>>
      PROVE  \E p \in Procs : proc[p].pc = "edit" /\ proc[p].read.uses = 0
  <2>1. promo \in PromoRow
    BY <1>1 DEF PromocodesInv, PromocodesTyped
  <2>2. ASSUME NEW p \in Procs, CheckoutPlaces(p)
        PROVE  promo'.type = promo.type /\ promo'.value = promo.value
    BY <2>1, <2>2 DEF CheckoutPlaces, PromoRow
  <2>3. PICK p \in Procs : EditWrite(p)
    BY <1>1, <2>2, PromoWrites
  <2>4. proc[p].pc = "edit" /\ EditKnows(proc[p], skewed)
    BY <1>1, <2>3 DEF PromocodesInv, EditWrite
  <2>5. /\ proc[p].read \in PromoRow /\ PatchTyped(proc[p].patch)
        /\ Unlocked(proc[p].patch, proc[p].read)
    BY <2>4 DEF EditKnows
  <2>6. \A f \in Columns \ DOMAIN proc[p].patch : promo'[f] = promo[f]
    BY <2>1, <2>3, <2>5, StoredIs DEF EditWrite
  <2>7. "type" \in DOMAIN proc[p].patch \/ "value" \in DOMAIN proc[p].patch
    BY <1>1, <2>6 DEF Columns
  <2>8. proc[p].read.uses \in Nat /\ ~(proc[p].read.uses > 0)
    BY <2>5, <2>7 DEF Unlocked, Locked, PromoRow
  <2>9. QED
    BY <2>4, <2>8
<1>2. PromocodesInv' => skewed' \/ (WindowOpen(promo') /\ QuotasFit(promo'))
  BY DEF PromocodesInv
<1>3. PromocodesInv /\ PromocodesInv' /\ [PromocodesNext]_promoVars => [Rules]_promoVars
  BY <1>1, <1>2
<1>4. QED
  BY <1>3, RequestsHold, PTL DEF PromocodesSpec, EditsKeepRules
=============================================================================
