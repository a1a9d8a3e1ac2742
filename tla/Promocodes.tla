----------------------------- MODULE Promocodes -----------------------------
(***************************************************************************)
(* What a checkout reads while admins edit it: a promocode                 *)
(* (services/admin_promocodes.py, validators/promocode.py), the price of a *)
(* menu item (services/menu_admin.py), the shop settings                   *)
(* (services/admin_shop_settings.py).  A request reads rows in one step and *)
(* writes in a later one (READ COMMITTED, no row lock on what it read); an *)
(* UPDATE names only the columns that differ from what was read.           *)
(***************************************************************************)
EXTENDS Pricing, Sequences, FiniteSets

CONSTANTS
  Procs,         \* requests that may run at the same time
  Customers,
  Bases, Sizes,  \* prices an admin may set
  Settings,      \* shop settings an admin may save
  Patches,       \* bodies of PATCH /admin/promocodes/{id}: partial records
  FirstPromo,    \* the promocode as it was created
  Balance,       \* the points of a customer
  MaxOrders, MaxEdits, MaxTime   \* bounds

VARIABLES
  now,
  promo,     \* the row of promocodes
  item,      \* the row of menu_items, with the price of one size
  settings,  \* the row of shop_settings
  orders,    \* the orders placed, with the sum of their lines
  proc,      \* the requests under way
  edits,
  skewed     \* history: a PATCH was validated against a row that had changed

promoVars == <<now, promo, item, settings, orders, proc, edits, skewed>>

Idle == [pc |-> "idle"]

PromocodesInit ==
  /\ now = 0 /\ promo = FirstPromo /\ orders = <<>> /\ edits = 0
  /\ item \in [base : Bases, size : Sizes, available : {TRUE}]
  /\ settings \in Settings
  /\ proc = [p \in Procs |-> Idle]
  /\ skewed = FALSE

Tick == /\ now < MaxTime /\ now' = now + 1
        /\ UNCHANGED <<promo, item, settings, orders, proc, edits, skewed>>

-----------------------------------------------------------------------------
(* Administration of promocodes                                            *)

\* compute_state: expired > exhausted > active > inactive.
PromoState(c, t) ==
  IF c.until # Null /\ t > c.until THEN "expired"
  ELSE IF c.max # Null /\ c.uses >= c.max THEN "exhausted"
  ELSE IF c.active /\ (c.from = Null \/ t >= c.from) THEN "active"
  ELSE "inactive"

Locked == {"code", "type", "value"}

Over(patch, row) == [f \in DOMAIN row |-> IF f \in DOMAIN patch THEN patch[f] ELSE row[f]]
\* The columns that the UPDATE names.
Changed(patch, row) == {f \in DOMAIN patch : patch[f] # row[f]}
Stored(patch, read) ==
  [f \in DOMAIN promo |-> IF f \in Changed(patch, read) THEN patch[f] ELSE promo[f]]

\* Mutant: a promocode in use may get a new discount.
UnlockedAlways(patch, read) == TRUE
Unlocked(patch, read) == read.uses > 0 => DOMAIN patch \cap Locked = {}

WindowOpen(c) == c.from # Null /\ c.until # Null => c.from < c.until
QuotasFit(c) == c.max # Null /\ c.perUser # Null => c.perUser <= c.max

\* The post-merge invariants of update_promocode.
PostMerge(patch, read) ==
  WindowOpen(Over(patch, read)) /\ QuotasFit(Over(patch, read))

\* The columns of promocodes but for the code.
PromoRow == [type : {"percent", "fixed_amount"}, value : Int, min : Int, from : Int,
             until : Int, max : Int, perUser : Int, uses : Nat, active : BOOLEAN]

\* What the validators of the request bodies let through.
ASSUME PromocodesAssumption ==
  /\ Bases \cup Sizes \subseteq Int /\ Balance \in Int
  /\ Settings \subseteq [paused : BOOLEAN, min : Nat, freeFrom : Nat, fee : Nat, percent : Nat]
  /\ FirstPromo \in PromoRow /\ WindowOpen(FirstPromo) /\ QuotasFit(FirstPromo)
  /\ \A patch \in Patches : /\ DOMAIN patch \subseteq DOMAIN FirstPromo \ {"uses"}
                             /\ Over(patch, FirstPromo) \in PromoRow

\* GET of the row by update_promocode, activate or deactivate.
EditRead(p) ==
  /\ proc[p].pc = "idle"
  /\ edits < MaxEdits /\ edits' = edits + 1
  /\ \E patch \in Patches :
       /\ Unlocked(patch, promo)
       /\ PostMerge(patch, promo)
       /\ proc' = [proc EXCEPT ![p] = [pc |-> "edit", read |-> promo, patch |-> patch]]
  /\ UNCHANGED <<now, promo, item, settings, orders, skewed>>

Activate(p) ==
  /\ proc[p].pc = "idle"
  /\ edits < MaxEdits /\ edits' = edits + 1
  /\ promo.until # Null
  /\ PromoState(promo, now) \notin {"expired", "exhausted"}
  /\ proc' = [proc EXCEPT ![p] =
       [pc |-> "edit", read |-> promo, patch |-> [active |-> TRUE]]]
  /\ UNCHANGED <<now, promo, item, settings, orders, skewed>>

Deactivate(p) ==
  /\ proc[p].pc = "idle"
  /\ edits < MaxEdits /\ edits' = edits + 1
  /\ PromoState(promo, now) # "expired"
  /\ proc' = [proc EXCEPT ![p] =
       [pc |-> "edit", read |-> promo, patch |-> [active |-> FALSE]]]
  /\ UNCHANGED <<now, promo, item, settings, orders, skewed>>

\* The UPDATE and its commit.
EditWrite(p) ==
  LET q == proc[p] IN
  /\ q.pc = "edit"
  /\ promo' = Stored(q.patch, q.read)
  /\ skewed' = (skewed \/ [promo EXCEPT !.uses = 0] # [q.read EXCEPT !.uses = 0])
  /\ proc' = [proc EXCEPT ![p] = Idle]
  /\ UNCHANGED <<now, item, settings, orders, edits>>

\* Requests that priced a line before the menu changed see another price
\* when they write the lines.
Repriced(p) == IF proc[p].pc \in {"priced", "checked"}
               THEN [proc[p] EXCEPT !.moved = TRUE] ELSE proc[p]

\* update_item, set_item_availability and update_size of menu_admin.
EditMenu ==
  /\ edits < MaxEdits /\ edits' = edits + 1
  /\ item' \in [base : Bases, size : Sizes, available : BOOLEAN]
  /\ item' # item
  /\ proc' = [p \in Procs |-> Repriced(p)]
  /\ UNCHANGED <<now, promo, settings, orders, skewed>>

\* update_settings: a PUT of the whole row.
EditSettings ==
  /\ edits < MaxEdits /\ edits' = edits + 1
  /\ settings' \in Settings \ {settings}
  /\ UNCHANGED <<now, promo, item, orders, proc, skewed>>

-----------------------------------------------------------------------------
(* create_order                                                            *)

Usages(c) == Cardinality({i \in DOMAIN orders : orders[i].customer = c /\ orders[i].coded})

\* ordering_paused, the stop list (which looks at is_available alone), the
\* subtotal and the delivery minimum.
CheckoutPrices(p) ==
  \E c \in Customers, type \in {"pickup", "delivery"}, sized, coded \in BOOLEAN :
    LET subtotal == UnitPrice(item.base, IF sized THEN item.size ELSE Null, 0) IN
    /\ proc[p].pc = "idle"
    /\ Len(orders) + Cardinality({q \in Procs : proc[q].pc \in {"priced", "checked"}})
         < MaxOrders
    /\ ~settings.paused
    /\ item.available
    /\ Deliverable(type, subtotal, settings)
    /\ proc' = [proc EXCEPT ![p] =
         [pc |-> "priced", customer |-> c, type |-> type, sized |-> sized,
          coded |-> coded, subtotal |-> subtotal, settings |-> settings,
          code |-> NoPromocode, nth |-> 0, limit |-> Null, moved |-> FALSE]]
    /\ UNCHANGED <<now, promo, item, settings, orders, edits, skewed>>

\* Mutant: one use too many.
PerUserLeftAtLimit(c) == promo.perUser # Null => Usages(c) <= promo.perUser
PerUserLeft(c) == promo.perUser # Null => Usages(c) < promo.perUser

\* validate_promocode, and the rest of the quote.
CheckoutValidates(p) ==
  LET q == proc[p] IN
  /\ q.pc = "priced"
  /\ q.coded =>
       /\ promo.active
       /\ promo.from # Null => now >= promo.from
       /\ promo.until # Null => now <= promo.until
       /\ promo.max # Null => promo.uses < promo.max
       /\ PerUserLeft(q.customer)
       /\ q.subtotal >= promo.min
  /\ proc' = [proc EXCEPT ![p] =
       IF q.coded THEN [q EXCEPT !.pc = "checked", !.nth = Usages(q.customer),
                                 !.limit = promo.perUser,
                                 !.code = [type |-> promo.type, value |-> promo.value]]
       ELSE [q EXCEPT !.pc = "checked"]]
  /\ UNCHANGED <<now, promo, item, settings, orders, edits, skewed>>

\* Mutant: the size is added to the base price.
LinePriceAdded(q) == item.base + (IF q.sized THEN item.size ELSE 0)
\* The line reads the row again.
LinePrice(q) == UnitPrice(item.base, IF q.sized THEN item.size ELSE Null, 0)

\* Mutant: the quota was looked at before.
QuotaAsRead(q) == TRUE
\* The predicate of the conditional UPDATE.
QuotaLeft(q) == q.coded => (promo.max = Null \/ promo.uses < promo.max)

\* The order, its lines, the promocode's counter and usage: one transaction.
CheckoutPlaces(p) ==
  LET q == proc[p]
      quote == Quote(q.subtotal, q.code, Balance, Balance, q.type, q.settings)
  IN
  /\ q.pc = "checked"
  /\ QuotaLeft(q)
  /\ orders' = Append(orders,
       [customer |-> q.customer, coded |-> q.coded, code |-> q.code,
        quote |-> quote, lines |-> LinePrice(q), moved |-> q.moved,
        nth |-> Usages(q.customer) + 1, read |-> q.nth, limit |-> q.limit])
  /\ promo' = IF q.coded THEN [promo EXCEPT !.uses = @ + 1] ELSE promo
  /\ proc' = [proc EXCEPT ![p] = Idle]
  /\ UNCHANGED <<now, item, settings, edits, skewed>>

\* A check fails, or the conditional UPDATE finds no row: nothing is written.
CheckoutFails(p) ==
  /\ proc[p].pc \in {"priced", "checked"}
  /\ proc' = [proc EXCEPT ![p] = Idle]
  /\ UNCHANGED <<now, promo, item, settings, orders, edits, skewed>>

PromocodesNext ==
  \/ Tick \/ EditMenu \/ EditSettings
  \/ \E p \in Procs :
       \/ EditRead(p) \/ Activate(p) \/ Deactivate(p) \/ EditWrite(p)
       \/ CheckoutPrices(p) \/ CheckoutValidates(p) \/ CheckoutPlaces(p)
       \/ CheckoutFails(p)

PromocodesSpec == PromocodesInit /\ [][PromocodesNext]_promoVars

-----------------------------------------------------------------------------
\* An order adds up: its lines make the subtotal, unless the menu changed
\* while it was placed, and the parts of the total make the total, which is
\* never below the delivery fee.
OrderAddsUp ==
  \A i \in DOMAIN orders :
    LET o == orders[i] IN
    /\ ~o.moved => o.lines = o.quote.subtotal
    /\ o.quote.total = o.quote.subtotal - o.quote.discount - o.quote.points + o.quote.fee
    /\ o.quote.total >= o.quote.fee

\* A customer exceeds the per-user limit of the moment only through two
\* checkouts of his own that overlapped.
PerUserLimit ==
  \A i \in DOMAIN orders :
    LET o == orders[i] IN
    o.coded /\ o.limit # Null => o.nth <= o.limit \/ o.nth > o.read + 1

\* INV-011: no checkout takes a use beyond the quota in force when it
\* commits, whatever the admin made of the quota since it was validated.
QuotaInForce ==
  [][promo'.uses > promo.uses => promo.max = Null \/ promo'.uses <= promo.max]_promoVars

\* PDD 6.6: a promocode in use keeps its discount, but for an edit that had
\* read it unused; and its window and quotas stay consistent under every single
\* edit, though two overlapping ones can break them together.
EditsKeepRules ==
  [][/\ promo.uses > 0 /\ <<promo'.type, promo'.value>> # <<promo.type, promo.value>> =>
          \E p \in Procs : proc[p].pc = "edit" /\ proc[p].read.uses = 0
     /\ skewed' \/ (WindowOpen(promo') /\ QuotasFit(promo'))]_promoVars
=============================================================================
