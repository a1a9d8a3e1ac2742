------------------------------- MODULE Basket -------------------------------
(***************************************************************************)
(* The cart of one customer: the Redis key cart:{user_id} (core-api        *)
(* services/cart.py, services/order_repeat.py).  Mutations run in a WATCH  *)
(* loop; the read that ends each of them writes the cart back without one. *)
(* A line is a choice of menu item, size and modifiers (compute_line_id);  *)
(* the routers' operations keep one entry per line, so the cart is a       *)
(* quantity per line, and the key exists iff one of them is positive.      *)
(***************************************************************************)
EXTENDS Integers, Sequences, FiniteSetsExt

CONSTANTS
  Requests,     \* requests that may run at the same time
  Lines,        \* line ids
  NoLine,       \* no line
  Item,         \* [Lines -> menu items]
  Stocks,       \* values of inventory_quantity; a large one stands for NULL
  FirstStock,   \* [menu items -> Stocks], the inventory at first
  QuantityCap,  \* the largest quantity of a line (99)
  MaxWatchRetries,   \* _MAX_RETRIES of the WATCH loops (3)
  OrderLines,   \* an old order, a sequence of [line, quantity]
  MaxStarts,    \* bound: requests ever started
  MaxChanges    \* bound: changes of the menu

Items == {Item[l] : l \in Lines}

ASSUME BasketAssumption ==
  /\ QuantityCap \in Nat \ {0} /\ MaxWatchRetries \in Nat /\ Stocks \subseteq Nat
  /\ NoLine \notin Lines

VARIABLES
  cart,     \* the quantities stored in Redis
  offer,    \* per line: is its item still a row, is all of it orderable, and
            \* the inventory of the item
  request,  \* the requests under way
  wanted,   \* history: the cart that the acknowledged requests ask for
  seen,     \* history: the offers a request's line had while it ran
  starts, changes

basketVars == <<cart, offer, request, wanted, seen, starts, changes>>

Empty == [l \in Lines |-> 0]
Idle == [pc |-> "idle", op |-> "get", line |-> NoLine, quantity |-> 0,
         tries |-> 0, snap |-> Empty, dirty |-> FALSE, offer |-> {}, todo |-> <<>>]

BasketInit ==
  /\ cart = Empty /\ wanted = Empty /\ starts = 0 /\ changes = 0
  /\ offer = [l \in Lines |-> [row |-> TRUE, open |-> TRUE,
                                stock |-> FirstStock[Item[l]]]]
  /\ request = [r \in Requests |-> Idle]
  /\ seen = [r \in Requests |-> {}]

-----------------------------------------------------------------------------
(* Redis and the menu                                                      *)

\* SET or DEL on the key: every transaction that watches it will fail.
\* req: the requests as the caller leaves them.
Written(c, req) ==
  /\ cart' = c
  /\ request' = [r \in Requests |->
       IF req[r].pc = "exec" THEN [req[r] EXCEPT !.dirty = TRUE] ELSE req[r]]

\* The TTL runs out between two requests, or under one.
Expire ==
  /\ cart # Empty
  /\ Written(Empty, request)
  /\ wanted' = Empty
  /\ UNCHANGED <<offer, seen, starts, changes>>

\* The stop list, the archive, the inventory or a hard delete.
MenuChange(i) ==
  /\ changes < MaxChanges /\ changes' = changes + 1
  /\ \E row, isOpen \in BOOLEAN, s \in Stocks :
       offer' = [l \in Lines |->
         IF Item[l] = i /\ offer[l].row
         THEN [row |-> row, open |-> isOpen, stock |-> s] ELSE offer[l]]
  /\ seen' = [r \in Requests |->
       IF request[r].pc \in {"watch", "exec"} THEN seen[r] \cup {offer'[request[r].line]}
       ELSE seen[r]]
  /\ UNCHANGED <<cart, request, wanted, starts>>

-----------------------------------------------------------------------------
(* What a mutation makes of the cart it read                               *)

ItemTotal(c, i) == MapThenSumSet(LAMBDA l : c[l], {l \in Lines : Item[l] = i})

Orderable(o) == o.row /\ o.open

\* The cart that a request makes of c.
Applied(q, c) ==
  CASE q.op = "add" -> [c EXCEPT ![q.line] = @ + q.quantity]
    [] q.op = "set" -> [c EXCEPT ![q.line] = q.quantity]
    [] q.op = "delete" -> [c EXCEPT ![q.line] = 0]

\* Mutant: the inventory is compared with the one line.
FitsLineOnly(q, o) == Applied(q, q.snap)[q.line] <= o.stock
\* _ensure_inventory_capacity of the resulting total of the item.
Fits(q, o) == ItemTotal(Applied(q, q.snap), Item[q.line]) <= o.stock

Capped(q) == Applied(q, q.snap)[q.line] <= QuantityCap

\* _validate_and_resolve, which add_item calls before its loop and
\* update_item_quantity inside it.
Resolved(q, o) == Orderable(o) /\ q.quantity <= o.stock

-----------------------------------------------------------------------------
(* Requests                                                                *)

Begin(r, q, s) ==
  /\ request[r].pc = "idle"
  /\ starts < MaxStarts /\ starts' = starts + 1
  /\ request' = [request EXCEPT ![r] = q]
  /\ seen' = [seen EXCEPT ![r] = s]
  /\ UNCHANGED <<cart, offer, wanted, changes>>

\* GET /cart.
StartGet(r) == Begin(r, [Idle EXCEPT !.pc = "load"], {})

\* add_item: a request that is not valid ends here and changes nothing.
StartAdd(r) ==
  \E l \in Lines, n \in 1..QuantityCap :
    LET q == [Idle EXCEPT !.pc = "watch", !.op = "add", !.line = l,
                          !.quantity = n, !.offer = {offer[l]}]
    IN Resolved(q, offer[l]) /\ Begin(r, q, {offer[l]})

StartChange(r) ==
  \E l \in Lines, op \in {"set", "delete"}, n \in 1..QuantityCap :
    /\ op = "delete" => n = 1
    /\ Begin(r, [Idle EXCEPT !.pc = "watch", !.op = op, !.line = l,
                             !.quantity = n], {offer[l]})

\* repeat_order: the lines of the order that are orderable now, added one by
\* one.
StartRepeat(r) ==
  LET survivors == SelectSeq(OrderLines, LAMBDA e : Orderable(offer[e.line]))
  IN /\ survivors # <<>>
     /\ Begin(r, [Idle EXCEPT !.pc = "next", !.op = "add", !.todo = survivors], {})

\* add_item of the next line; a line that fails ends the request, and the
\* lines before it stay.
RepeatNext(r) ==
  LET q == request[r]
      l == Head(q.todo).line
      add == [q EXCEPT !.pc = "watch", !.line = l, !.tries = 0,
                       !.quantity = Head(q.todo).quantity,
                       !.offer = {offer[l]}, !.todo = Tail(q.todo)]
  IN /\ q.pc = "next"
     /\ request' = [request EXCEPT ![r] =
          IF Resolved(add, offer[l]) THEN add ELSE Idle]
     /\ seen' = [seen EXCEPT ![r] = {offer[l]}]
     /\ UNCHANGED <<cart, offer, wanted, starts, changes>>

\* The row that the request holds: read once, however often the loop runs.
Held(q) == IF q.offer = {} THEN offer[q.line] ELSE CHOOSE o \in q.offer : TRUE

\* WATCH and GET, and the checks of the loop's body.
Watch(r) ==
  LET q == [request[r] EXCEPT !.snap = cart]
      holds == [q EXCEPT !.offer = IF q.op = "delete" THEN {} ELSE {Held(q)}]
      passes == IF q.op = "delete" THEN cart[q.line] > 0
                ELSE /\ q.op = "set" => cart[q.line] > 0
                     /\ Resolved(q, Held(q)) /\ Capped(q) /\ Fits(q, Held(q))
  IN /\ q.pc = "watch"
     /\ request' = [request EXCEPT ![r] =
          IF passes THEN [holds EXCEPT !.pc = "exec", !.dirty = FALSE] ELSE Idle]
     /\ UNCHANGED <<cart, offer, wanted, seen, starts, changes>>

\* Mutant: EXEC succeeds whatever happened to the key.
UntouchedOrNot(q) == q.pc = "exec"
Untouched(q) == q.pc = "exec" /\ ~q.dirty

\* EXEC of an untouched key; get() follows.
Execute(r) ==
  LET q == request[r] IN
  /\ Untouched(q)
  /\ Written(Applied(q, q.snap),
             [request EXCEPT ![r] =
               [Idle EXCEPT !.pc = "load", !.line = q.line, !.offer = q.offer,
                            !.todo = q.todo]])
  /\ wanted' = Applied(q, wanted)
  /\ seen' = [seen EXCEPT ![r] = {}]
  /\ UNCHANGED <<offer, starts, changes>>

\* WatchError: again, or concurrent_modification.
ExecuteFails(r) ==
  LET q == request[r] IN
  /\ q.pc = "exec" /\ q.dirty
  /\ request' = [request EXCEPT ![r] =
       IF q.tries < MaxWatchRetries
       THEN [q EXCEPT !.pc = "watch", !.tries = @ + 1, !.snap = Empty]
       ELSE Idle]
  /\ UNCHANGED <<cart, offer, wanted, seen, starts, changes>>

Ends(q) == IF q.todo = <<>> THEN Idle
           ELSE [Idle EXCEPT !.pc = "next", !.op = "add", !.todo = q.todo]

\* get(): GET without WATCH.
Load(r) ==
  LET q == request[r] IN
  /\ q.pc = "load"
  /\ request' = [request EXCEPT ![r] =
       IF cart = Empty THEN Ends(q) ELSE [q EXCEPT !.pc = "save", !.snap = cart]]
  /\ UNCHANGED <<cart, offer, wanted, seen, starts, changes>>

\* The lines whose item is still a row, or is held from before it went.
Pruned(q) ==
  [l \in Lines |->
     IF offer[l].row \/ (q.offer # {} /\ Item[l] = Item[q.line])
     THEN q.snap[l] ELSE 0]

\* get() writes back what it read, less the lines of deleted items.  Over an
\* unchanged key that only prunes; over a changed one it undoes the change.
SaveBack(r) ==
  LET q == request[r] IN
  /\ q.pc = "save"
  /\ Written(Pruned(q), [request EXCEPT ![r] = Ends(q)])
  /\ wanted' = IF q.snap = cart THEN Pruned([q EXCEPT !.snap = wanted])
               ELSE Pruned(q)
  /\ UNCHANGED <<offer, seen, starts, changes>>

\* DELETE /cart, and the deletion after an order is paid for.
Clear(r) ==
  /\ request[r].pc = "idle"
  /\ starts < MaxStarts /\ starts' = starts + 1
  /\ cart # Empty
  /\ Written(Empty, [request EXCEPT ![r].pc = "load"])
  /\ wanted' = Empty
  /\ UNCHANGED <<offer, seen, changes>>

BasketNext ==
  \/ Expire
  \/ \E i \in Items : MenuChange(i)
  \/ \E r \in Requests :
       \/ StartGet(r) \/ StartAdd(r) \/ StartChange(r) \/ StartRepeat(r)
       \/ RepeatNext(r) \/ Watch(r) \/ Execute(r) \/ ExecuteFails(r)
       \/ Load(r) \/ SaveBack(r) \/ Clear(r)

BasketSpec == BasketInit /\ [][BasketNext]_basketVars

-----------------------------------------------------------------------------
\* The cart is what the acknowledged requests made of it, one after the
\* other: no retry, no expiry and no clearing loses or repeats one of them.
\* (The unguarded write of get() is the exception; SaveBack absorbs it.)
NoLostUpdate == cart = wanted

\* INV-006: whatever a request adds was orderable, with the new total of its
\* item in stock, at one moment since the request began.
AddedWasOffered ==
  [][\A r \in Requests :
       request[r].pc = "exec" /\ request'[r].pc = "load"
         /\ request[r].op # "delete" =>
       \E o \in seen[r] :
         Orderable(o) /\ ItemTotal(cart', Item[request[r].line]) <= o.stock
    ]_basketVars
=============================================================================
