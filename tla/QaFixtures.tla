----------------------------- MODULE QaFixtures -----------------------------
(***************************************************************************)
(* Resetting the fixtures of manual testing                                *)
(* (database/seeds/reset_qa_data.py) against the foreign keys of the       *)
(* schema, in a database the running services go on writing to.  The reset *)
(* is one READ COMMITTED transaction: statements that read the ids of the  *)
(* fixtures, then a delete for each table and column that names them.      *)
(***************************************************************************)
EXTENDS Integers, Sequences, FiniteSets

CONSTANTS
  NewOrders,      \* orders that may still be placed
  MaxUses         \* bound: writes of the services

VARIABLES
  stored,     \* what is committed: rows [table, id, refs]
  reset,    \* the reset: its next statement, ids read, keys deleted, outcome
  late,     \* history: something was committed since the reset began
  hung,     \* history: keys of what hung on a fixture since then
  uses

fixtureVars == <<stored, reset, late, hung, uses>>

-----------------------------------------------------------------------------
(* The foreign keys, as the migrations declare them                        *)

Ref(of, column, to, rule) == [of |-> of, column |-> column, to |-> to, rule |-> rule]

\* A row of a customer: no ON DELETE, which restricts as well.
UserRefs ==
  {Ref(t, "user_id", "users", "NO ACTION") : t \in {"user_profiles", "loyalty_accounts"}}
MenuItemRefs == {Ref("menu_items", "category_id", "categories", "RESTRICT")}
SizeRefs == {Ref("size_options", "menu_item_id", "menu_items", "CASCADE")}
ModifierLinkRefs == {Ref("menu_item_modifiers", "menu_item_id", "menu_items", "CASCADE"),
                     Ref("menu_item_modifiers", "modifier_id", "modifiers", "CASCADE")}
OrderRefs == {Ref("orders", "user_id", "users", "RESTRICT"),
              Ref("orders", "promocode_id", "promocodes", "SET NULL")}
\* RESTRICT since 0011
OrderItemRefs == {Ref("order_items", "order_id", "orders", "RESTRICT")}
PaymentRefs == {Ref("payments", "order_id", "orders", "RESTRICT")}
RefundRefs == {Ref("refunds", "payment_id", "payments", "RESTRICT")}
LedgerRefs == {Ref("loyalty_transactions", "user_id", "users", "RESTRICT"),
               Ref("loyalty_transactions", "order_id", "orders", "SET NULL")}
UsageRefs == {Ref("promocode_usages", "promocode_id", "promocodes", "RESTRICT"),
              Ref("promocode_usages", "user_id", "users", "RESTRICT"),
              Ref("promocode_usages", "order_id", "orders", "RESTRICT")}
NotificationRefs == {Ref("notifications", "user_id", "users", "RESTRICT"),
                     Ref("notifications", "order_id", "orders", "SET NULL")}
AddressRefs == {Ref("delivery_addresses", "user_id", "users", "CASCADE")}
AssignmentRefs ==
  {Ref("delivery_assignments", "order_id", "orders", "RESTRICT"),
   Ref("delivery_assignments", "courier_id", "staff_accounts", "RESTRICT")}

ForeignKeys ==
  UNION {UserRefs, MenuItemRefs, SizeRefs, ModifierLinkRefs, OrderRefs, OrderItemRefs,
         PaymentRefs, RefundRefs, LedgerRefs, UsageRefs, NotificationRefs, AddressRefs,
         AssignmentRefs}

Key(r) == <<r.table, r.id>>
KeysOf(S) == {Key(r) : r \in S}
\* A reference of a row: its foreign key and the id in its column.
Named(p) == <<p.key.to, p.id>>
\* The keys a row names through a foreign key with one of these rules.
Names(r, rules) == {Named(p) : p \in {p \in r.refs : p.key.rule \in rules}}
Binding == {"RESTRICT", "NO ACTION", "CASCADE"}

-----------------------------------------------------------------------------
(* The rows                                                                *)

\* A row with these <<column, id>> that are foreign keys.
Row(table, id, columns) ==
  [table |-> table, id |-> id,
   refs |-> {[key |-> CHOOSE k \in ForeignKeys : k.of = table /\ k.column = c[1],
              id |-> c[2]] : c \in columns}]

CustomerRows(u) ==
  {Row("users", u, {})} \cup
    {Row(t, u, {<<"user_id", u>>}) : t \in {"user_profiles", "loyalty_accounts"}}

\* The order, its lines and its payment.
OrderRows(o, u, promos) ==
  {Row("orders", o, {<<"user_id", u>>} \cup {<<"promocode_id", p>> : p \in promos}),
   Row("order_items", o, {<<"order_id", o>>}),
   Row("payments", o, {<<"order_id", o>>})}
UsageRows(o, u, promos) ==
  {Row("promocode_usages", o,
       {<<"promocode_id", p>>, <<"user_id", u>>, <<"order_id", o>>}) : p \in promos}
\* A notification, or an entry of the ledger.
EntryRow(table, o, u) == Row(table, o, {<<"user_id", u>>, <<"order_id", o>>})

MenuRows(c, i, m) ==
  {Row("categories", c, {}), Row("modifiers", m, {}),
   Row("menu_items", i, {<<"category_id", c>>}),
   Row("size_options", i, {<<"menu_item_id", i>>}),
   Row("menu_item_modifiers", i \o m, {<<"menu_item_id", i>>, <<"modifier_id", m>>})}

AssignmentRow(o, c) ==
  Row("delivery_assignments", o, {<<"order_id", o>>, <<"courier_id", c>>})

\* phase4_manual_test: a customer with an order refunded, accrued for and told of,
\* a courier, a promocode, a menu.
Seeded ==
  CustomerRows("qa-user") \cup OrderRows("qa-order", "qa-user", {"QA10"}) \cup
  MenuRows("qa-cat", "qa-item", "qa-mod") \cup
  {Row("staff_accounts", "qa-courier", {}), Row("promocodes", "QA10", {}),
   AssignmentRow("qa-order", "qa-courier"),
   Row("refunds", "qa-order", {<<"payment_id", "qa-order">>}),
   EntryRow("loyalty_transactions", "qa-order", "qa-user"),
   EntryRow("notifications", "qa-order", "qa-user"),
   Row("delivery_addresses", "qa-user", {<<"user_id", "qa-user">>})}

\* What else the database holds.
Real == CustomerRows("user") \cup MenuRows("cat", "item", "mod") \cup
        {Row("staff_accounts", "courier", {})}

\* qa-phone is the id of one who registered with a number of the fixtures.
QaUsers == {"qa-user", "qa-phone"}

\* What is a fixture, or cannot exist without one: whatever names a fixture
\* through a key that binds (a refund, over its payment, the order and the
\* customer).
Fixtures(S) == {r \in S : \/ r.table = "users" /\ r.id \in QaUsers
                          \/ Key(r) \in KeysOf(Seeded)}
Hanging(S, T) ==
  LET keys == KeysOf(T) IN T \cup {r \in S : Names(r, Binding) \cap keys # {}}
OfFixtures(S) == Hanging(S, Hanging(S, Hanging(S, Fixtures(S))))

NoIds == [users |-> {}, staff |-> {}, promocodes |-> {}, orders |-> {}, payments |-> {},
          modifiers |-> {}, categories |-> {}, items |-> {}]

NoReset == [at |-> 0, ids |-> NoIds, gone |-> {}, out |-> "none"]
QaInit ==
  /\ stored = Seeded \cup Real /\ reset = NoReset
  /\ late = FALSE /\ hung = {} /\ uses = 0

Resetting == reset.out = "running"

\* What the transaction of the reset sees: a reference with SET NULL to what it
\* has deleted is gone.
Nulled(r) == [r EXCEPT !.refs = {p \in @ :
                p.key.rule = "SET NULL" => Named(p) \notin reset.gone}]
View == {Nulled(r) : r \in {r \in stored : Key(r) \notin reset.gone}}

IdsOf(table) == {r.id : r \in {r \in View : r.table = table}}
\* WHERE column IN ids
Where(table, column, ids) ==
  {r \in View : /\ r.table = table
                /\ IF column = "id" THEN r.id \in ids
                   ELSE \E p \in r.refs : p.key.column = column /\ p.id \in ids}

-----------------------------------------------------------------------------
(* The statements of the reset                                             *)

Reads == <<"users", "staff", "promocodes", "orders", "payments", "modifiers",
           "categories", "items">>

\* The ids that a read adds.  By id or phone hash, login, code or name for the
\* fixtures themselves; what belongs to them, by what was read before.
IdsRead(what) ==
  CASE what = "users" -> IdsOf("users") \cap QaUsers
    [] what = "staff" -> IdsOf("staff_accounts") \cap {"qa-courier"}
    [] what = "promocodes" -> IdsOf("promocodes") \cap {"QA10"}
    [] what = "orders" -> (IdsOf("orders") \cap {"qa-order"}) \cup
                          {r.id : r \in Where("orders", "user_id", reset.ids.users)}
    [] what = "payments" -> {"qa-order"} \cup
                            {r.id : r \in Where("payments", "order_id", reset.ids.orders)}
    [] what = "modifiers" -> IdsOf("modifiers") \cap {"qa-mod"}
    [] what = "categories" -> IdsOf("categories") \cap {"qa-cat"}
    [] OTHER -> (IdsOf("menu_items") \cap {"qa-item"}) \cup
                {r.id : r \in Where("menu_items", "category_id", reset.ids.categories)}

Delete(table, column, of) == [table |-> table, column |-> column, of |-> of]

UsageDeletes == <<Delete("promocode_usages", "order_id", "orders"),
                  Delete("promocode_usages", "user_id", "users"),
                  Delete("promocode_usages", "promocode_id", "promocodes")>>
NotificationDeletes == <<Delete("notifications", "order_id", "orders"),
                         Delete("notifications", "user_id", "users")>>
LedgerDeletes == <<Delete("loyalty_transactions", "order_id", "orders"),
                   Delete("loyalty_transactions", "user_id", "users")>>
RefundDeletes == <<Delete("refunds", "payment_id", "payments")>>
\* Mutant: only the deliveries of the fixtures' orders.
AssignmentDeletesByOrder == <<Delete("delivery_assignments", "order_id", "orders")>>
AssignmentDeletes == <<Delete("delivery_assignments", "order_id", "orders"),
                       Delete("delivery_assignments", "courier_id", "staff")>>
PaymentDeletes == <<Delete("payments", "id", "payments"),
                    Delete("payments", "order_id", "orders")>>
OrderDeletes == <<Delete("order_items", "order_id", "orders"),
                  Delete("orders", "id", "orders")>>
CustomerDeletes == <<Delete("delivery_addresses", "user_id", "users"),
                     Delete("user_profiles", "user_id", "users"),
                     Delete("loyalty_accounts", "user_id", "users"),
                     Delete("users", "id", "users"),
                     Delete("promocodes", "id", "promocodes"),
                     Delete("staff_accounts", "id", "staff")>>
MenuDeletes == <<Delete("menu_item_modifiers", "menu_item_id", "items"),
                 Delete("menu_item_modifiers", "modifier_id", "modifiers"),
                 Delete("size_options", "menu_item_id", "items"),
                 Delete("menu_items", "id", "items"),
                 Delete("modifiers", "id", "modifiers"),
                 Delete("categories", "id", "categories")>>

Deletes == UsageDeletes \o NotificationDeletes \o LedgerDeletes \o RefundDeletes \o
           AssignmentDeletes \o PaymentDeletes \o OrderDeletes \o CustomerDeletes \o
           MenuDeletes
LastStatement == Len(Reads) + Len(Deletes)
Statement(n) == Deletes[n - Len(Reads)]

\* _guard_environment lets a reset begin in a test environment.
StartReset ==
  /\ reset.out \in {"none", "failed", "seeded"}
  /\ reset' = [at |-> 1, ids |-> NoIds, gone |-> {}, out |-> "running"]
  /\ late' = FALSE /\ hung' = KeysOf(OfFixtures(stored))
  /\ UNCHANGED <<stored, uses>>

ReadIds ==
  /\ Resetting /\ reset.at <= Len(Reads)
  /\ reset' = [reset EXCEPT !.ids[Reads[reset.at]] = IdsRead(Reads[reset.at]),
                            !.at = @ + 1]
  /\ UNCHANGED <<stored, late, hung, uses>>

\* The rows that a delete takes, with those that CASCADE.
Taken(s) ==
  LET hit == Where(s.table, s.column, reset.ids[s.of])
      keys == KeysOf(hit)
  IN hit \cup {r \in View : Names(r, {"CASCADE"}) \cap keys # {}}
Restricted(s) ==
  LET taken == Taken(s)
      keys == KeysOf(taken)
  IN \E r \in View \ taken : Names(r, {"RESTRICT", "NO ACTION"}) \cap keys # {}

DeleteRows ==
  /\ Resetting /\ reset.at \in (Len(Reads) + 1)..LastStatement
  /\ LET s == Statement(reset.at) IN
       /\ ~Restricted(s)
       /\ reset' = [reset EXCEPT !.gone = @ \cup KeysOf(Taken(s)), !.at = @ + 1]
  /\ UNCHANGED <<stored, late, hung, uses>>

\* IntegrityError: rolled back, and no seeding.
FailReset ==
  /\ Resetting /\ reset.at \in (Len(Reads) + 1)..LastStatement
  /\ Restricted(Statement(reset.at))
  /\ reset' = [reset EXCEPT !.out = "failed", !.gone = {}]
  /\ UNCHANGED <<stored, late, hung, uses>>

CommitReset ==
  /\ Resetting /\ reset.at > LastStatement
  /\ stored' = View
  /\ reset' = [reset EXCEPT !.out = "committed", !.gone = {}]
  /\ UNCHANGED <<late, hung, uses>>

\* qa_seed.run: rows that exist already are left or updated in place.
Reseed ==
  /\ reset.out = "committed"
  /\ stored' = stored \cup {r \in Seeded : Key(r) \notin KeysOf(stored)}
  /\ reset' = [reset EXCEPT !.out = "seeded"]
  /\ UNCHANGED <<late, hung, uses>>

-----------------------------------------------------------------------------
(* The services, meanwhile                                                 *)

\* A row that the reset has deleted is locked until its transaction ends, and
\* an insert that names it, or an update of it, waits.
Holds(k) == k \in KeysOf(stored) /\ k \notin reset.gone
Use(after) ==
  /\ uses < MaxUses /\ uses' = uses + 1
  /\ stored' = after
  /\ late' = TRUE /\ hung' = IF Resetting THEN hung \cup KeysOf(OfFixtures(after)) ELSE {}
  /\ UNCHANGED reset
Insert(S) ==
  /\ KeysOf(S) \cap KeysOf(stored) = {}
  /\ \A r \in S : \A p \in r.refs : Named(p) \in KeysOf(S) \/ Holds(Named(p))
  /\ Use(stored \cup S)
IdsIn(table) == {r.id : r \in {r \in stored : r.table = table}}

\* Once the reset has disabled the trigger on order_items (INV-014), the lock of
\* ALTER TABLE holds up every other order.
ItemsLocked ==
  Resetting /\ \E n \in (Len(Reads) + 1)..(reset.at - 1) : Statement(n).table = "order_items"

PlaceOrder(o, u, promos) ==
  ~ItemsLocked /\ Insert(OrderRows(o, u, promos) \cup UsageRows(o, u, promos))
RefundOrder(o) == Insert({Row("refunds", o, {<<"payment_id", o>>})})
AccrueFor(o, u) == Insert({EntryRow("loyalty_transactions", o, u)})
NotifyOf(o, u) == Insert({EntryRow("notifications", o, u)})
Register == Insert(CustomerRows("qa-phone"))
AddAddress(u) == Insert({Row("delivery_addresses", u, {<<"user_id", u>>})})
AssignCourier(o, c) ==
  IF <<"delivery_assignments", o>> \in KeysOf(stored)
  THEN /\ Holds(<<"delivery_assignments", o>>) /\ Holds(<<"staff_accounts", c>>)
       /\ Use({r \in stored : Key(r) # <<"delivery_assignments", o>>} \cup {AssignmentRow(o, c)})
  ELSE Insert({AssignmentRow(o, c)})
LinkModifier(i, m) ==
  Insert({Row("menu_item_modifiers", i \o m, {<<"menu_item_id", i>>, <<"modifier_id", m>>})})
MoveItem(i, c) ==
  /\ Holds(<<"menu_items", i>>) /\ Holds(<<"categories", c>>)
  /\ Use({r \in stored : Key(r) # <<"menu_items", i>>} \cup
           {Row("menu_items", i, {<<"category_id", c>>})})

Services ==
  \/ \E o \in NewOrders, u \in IdsIn("users"), ps \in {{}} \cup {{p} : p \in IdsIn("promocodes")} :
       PlaceOrder(o, u, ps)
  \/ \E o \in IdsIn("orders") :
       \/ RefundOrder(o)
       \/ \E r \in stored, u \in IdsIn("users") :
            /\ Key(r) = <<"orders", o>> /\ <<"users", u>> \in Names(r, Binding)
            /\ AccrueFor(o, u) \/ NotifyOf(o, u)
       \/ \E c \in IdsIn("staff_accounts") : AssignCourier(o, c)
  \/ Register
  \/ \E u \in IdsIn("users") : AddAddress(u)
  \/ \E i \in IdsIn("menu_items") : \/ \E m \in IdsIn("modifiers") : LinkModifier(i, m)
                                    \/ \E c \in IdsIn("categories") : MoveItem(i, c)

QaNext == StartReset \/ ReadIds \/ DeleteRows \/ FailReset \/ CommitReset \/ Reseed \/ Services
QaSpec == QaInit /\ [][QaNext]_fixtureVars

-----------------------------------------------------------------------------
\* The reset takes nothing but what hung on a fixture while it ran (an item that
\* an admin moves out of a category of the fixtures is taken all the same); all
\* of it, when the services were quiet since it began.  And only what they
\* committed meanwhile can make it fail: the deletes follow the foreign keys.
ResetTakesFixtures ==
  [][LET lost == KeysOf(stored) \ KeysOf(stored') IN
     /\ lost \subseteq hung
     /\ reset'.out = "committed" /\ Resetting /\ ~late => lost = hung
     /\ reset'.out = "failed" => late]_fixtureVars

=============================================================================
