--------------------------- MODULE ServicesProofs ---------------------------
(***************************************************************************)
(* Theorems about the services that share no state with an order, a section *)
(* for each.  None of the properties is inductive as it stands; the head    *)
(* of a section names what its property rests on.                          *)
(***************************************************************************)
EXTENDS Basket, Notices, Catalogue, Addresses, Slots, Maps, Feeds, Otp, FiniteSetTheorems,
        WellFoundedInduction, TLAPS

-----------------------------------------------------------------------------
(* The cart, for any lines, requests, quantities and menus.                *)
(* No acknowledged change is lost, and what a request adds was on offer    *)
(* while it ran: a copy of the cart that EXEC may write is the cart, and   *)
(* the row it was checked against was read since the request began.        *)

\* A request has these fields; what they hold does not matter here.
Shape(q) ==
  q \in [pc : {q.pc}, op : {q.op}, line : {q.line}, quantity : {q.quantity},
         tries : {q.tries}, snap : {q.snap}, dirty : {q.dirty},
         offer : {q.offer}, todo : {q.todo}]

Shapes ==
  /\ request = [r \in Requests |-> request[r]]
  /\ seen = [r \in Requests |-> seen[r]]
  /\ \A r \in Requests : Shape(request[r])

\* A request whose EXEC would succeed holds the cart as it is.
FreshCopy(q, c) == q.pc = "exec" /\ ~q.dirty => q.snap = c

\* The row that is on offer now is one the request may have seen.
NowSeen(q, s) == q.pc \in {"watch", "exec"} => offer[q.line] \in s

\* The row o passed the checks of the request q.
Checked(q, o) == Orderable(o) /\ Fits(q, o)

\* A row that a request holds is one it has seen, and at EXEC it has passed.
HeldSeen(q, s) ==
  /\ q.pc = "watch" => q.offer = {} \/ \E o \in s : q.offer = {o}
  /\ q.pc = "exec" /\ q.op # "delete" => \E o \in s : q.offer = {o} /\ Checked(q, o)
  /\ q.pc = "exec" /\ q.op = "delete" => q.offer = {}

RequestInv(r) ==
  FreshCopy(request[r], cart) /\ NowSeen(request[r], seen[r])
    /\ HeldSeen(request[r], seen[r])

BasketInv == Shapes /\ NoLostUpdate /\ \A r \in Requests : RequestInv(r)

-----------------------------------------------------------------------------
\* Whether a cart fits the stock depends on four fields of the request.
LEMMA FitsByFields ==
  ASSUME NEW p, NEW q, NEW o, p.op = q.op, p.line = q.line,
         p.quantity = q.quantity, p.snap = q.snap
  PROVE  Fits(p, o) = Fits(q, o)
<1>1. Applied(p, p.snap) = Applied(q, q.snap)
  BY DEF Applied
<1>2. QED
  BY <1>1 DEF Fits

\* A request that is in neither of the two loop states owes nothing.
LEMMA AtRest ==
  ASSUME NEW q, NEW c, NEW s, q.pc \notin {"watch", "exec"}
  PROVE  FreshCopy(q, c) /\ NowSeen(q, s) /\ HeldSeen(q, s)
BY DEF FreshCopy, NowSeen, HeldSeen

\* A step of the request r alone: the others stay as they are.
LEMMA StepOfOne ==
  ASSUME BasketInv, NEW r \in Requests, NEW q, NEW s, Shape(q),
         UNCHANGED <<cart, offer, wanted>>,
         request' = [request EXCEPT ![r] = q],
         seen' = [seen EXCEPT ![r] = s],
         FreshCopy(q, cart), NowSeen(q, s), HeldSeen(q, s)
  PROVE  BasketInv'
<1>1. request'[r] = q /\ seen'[r] = s
  BY DEF BasketInv, Shapes
<1>2. \A t \in Requests \ {r} : request'[t] = request[t] /\ seen'[t] = seen[t]
  BY DEF BasketInv, Shapes
<1>3. Shapes'
  BY <1>1, <1>2 DEF BasketInv, Shapes
<1>4. NoLostUpdate'
  BY DEF BasketInv, NoLostUpdate
<1>5. ASSUME NEW t \in Requests
      PROVE  RequestInv(t)'
  <2>1. CASE t = r
    BY <1>1, <2>1 DEF RequestInv, FreshCopy, NowSeen, HeldSeen
  <2>2. CASE t # r
    <3>1. request'[t] = request[t] /\ seen'[t] = seen[t]
      BY <1>2, <2>2
    <3>2. RequestInv(t)
      BY DEF BasketInv
    <3>3. QED
      BY <3>1, <3>2 DEF RequestInv, FreshCopy, NowSeen, HeldSeen
  <2>3. QED
    BY <2>1, <2>2
<1>6. QED
  BY <1>3, <1>4, <1>5 DEF BasketInv

\* A write of the cart: whoever watches it is dirty, and r is at rest.
LEMMA WriteOfCart ==
  ASSUME BasketInv, NEW c, NEW r, NEW req, NEW s,
         Written(c, req), wanted' = c, UNCHANGED offer,
         \A t \in Requests : Shape(req[t]),
         \A t \in Requests \ {r} : req[t] = request[t],
         r \in Requests => req[r].pc \notin {"watch", "exec"},
         seen' = [t \in Requests |-> IF t = r THEN s ELSE seen[t]]
  PROVE  BasketInv'
<1>1. ASSUME NEW t \in Requests
      PROVE  Shape(request'[t])
  BY DEF Written, Shape
<1>2. Shapes'
  BY <1>1 DEF Written, Shapes
<1>3. NoLostUpdate'
  BY DEF Written, NoLostUpdate
<1>4. ASSUME NEW t \in Requests
      PROVE  RequestInv(t)'
  <2>1. CASE t = r
    <3>1. request'[t].pc \notin {"watch", "exec"}
      BY <2>1 DEF Written
    <3>2. QED
      BY <3>1 DEF RequestInv, FreshCopy, NowSeen, HeldSeen
  <2>2. CASE t # r
    <3>1. req[t] = request[t] /\ seen'[t] = seen[t] /\ RequestInv(t)
      BY <2>2 DEF BasketInv
    <3>2. CASE request[t].pc = "exec"
      <4>1. request'[t] = [request[t] EXCEPT !.dirty = TRUE]
        BY <3>1, <3>2 DEF Written
      <4>2. /\ request'[t].dirty = TRUE /\ request'[t].pc = "exec"
            /\ request'[t].op = request[t].op
            /\ request'[t].line = request[t].line
            /\ request'[t].quantity = request[t].quantity
            /\ request'[t].snap = request[t].snap
            /\ request'[t].offer = request[t].offer
        BY <4>1, <3>2 DEF BasketInv, Shapes, Shape
      <4>3. \A o : Checked(request[t], o) => Checked(request'[t], o)
        BY <4>2, FitsByFields DEF Checked
      <4>4. QED
        BY <3>1, <3>2, <4>2, <4>3 DEF RequestInv, FreshCopy, NowSeen, HeldSeen
    <3>3. CASE request[t].pc # "exec"
      <4>1. request'[t] = request[t]
        BY <3>1, <3>3 DEF Written
      <4>2. QED
        BY <3>1, <3>3, <4>1 DEF RequestInv, FreshCopy, NowSeen, HeldSeen
    <3>4. QED
      BY <3>2, <3>3
  <2>3. QED
    BY <2>1, <2>2
<1>5. QED
  BY <1>2, <1>3, <1>4 DEF BasketInv
-----------------------------------------------------------------------------
LEMMA IdleShape == Shape(Idle)
BY DEF Shape, Idle

LEMMA InitBasket ==
  ASSUME BasketInit
  PROVE  BasketInv
<1>1. /\ \A r \in Requests : request[r] = Idle
      /\ Shapes
  BY IdleShape DEF BasketInit, Shapes
<1>2. Idle.pc = "idle"
  BY DEF Idle
<1>3. ASSUME NEW r \in Requests
      PROVE  RequestInv(r)
  BY <1>1, <1>2, AtRest DEF RequestInv
<1>4. QED
  BY <1>1, <1>3 DEF BasketInit, BasketInv, NoLostUpdate

LEMMA ExpireKeeps ==
  ASSUME BasketInv, Expire
  PROVE  BasketInv'
<1>1. PICK r : r \notin Requests
  BY NoSetContainsEverything
<1>2. seen' = [t \in Requests |-> IF t = r THEN {} ELSE seen[t]]
  BY <1>1 DEF Expire, BasketInv, Shapes
<1>3. /\ Written(Empty, request) /\ wanted' = Empty /\ offer' = offer
      /\ \A t \in Requests : Shape(request[t])
  BY DEF Expire, BasketInv, Shapes
<1>4. QED
  BY <1>1, <1>2, <1>3, WriteOfCart

LEMMA MenuChangeKeeps ==
  ASSUME BasketInv, NEW i \in Items, MenuChange(i)
  PROVE  BasketInv'
<1>1. Shapes' /\ NoLostUpdate'
  BY DEF BasketInv, Shapes, MenuChange, NoLostUpdate
<1>2. ASSUME NEW t \in Requests
      PROVE  RequestInv(t)'
  <2>1. RequestInv(t) /\ request'[t] = request[t] /\ cart' = cart
    BY DEF BasketInv, MenuChange
  <2>2. CASE request[t].pc \in {"watch", "exec"}
    <3>1. seen'[t] = seen[t] \cup {offer'[request[t].line]}
      BY <2>2 DEF MenuChange
    <3>2. QED
      BY <2>1, <2>2, <3>1 DEF RequestInv, FreshCopy, NowSeen, HeldSeen
  <2>3. CASE request[t].pc \notin {"watch", "exec"}
    BY <2>1, <2>3, AtRest DEF RequestInv, FreshCopy, NowSeen, HeldSeen
  <2>4. QED
    BY <2>2, <2>3
<1>3. QED
  BY <1>1, <1>2 DEF BasketInv

\* A request that begins, and holds at most the row that is on offer now.
LEMMA BeginKeeps ==
  ASSUME BasketInv, NEW r \in Requests, NEW q, NEW s, Begin(r, q, s), Shape(q),
         q.pc # "exec",
         q.pc = "watch" => /\ offer[q.line] \in s
                           /\ q.offer = {} \/ q.offer = {offer[q.line]}
  PROVE  BasketInv'
<1>1. FreshCopy(q, cart) /\ NowSeen(q, s) /\ HeldSeen(q, s)
  BY DEF FreshCopy, NowSeen, HeldSeen
<1>2. QED
  BY <1>1, StepOfOne DEF Begin

LEMMA StartGetKeeps ==
  ASSUME BasketInv, NEW r \in Requests, StartGet(r)
  PROVE  BasketInv'
<1> DEFINE q == [Idle EXCEPT !.pc = "load"]
<1>1. Shape(q) /\ q.pc = "load"
  BY DEF Shape, Idle
<1>2. QED
  BY <1>1, BeginKeeps DEF StartGet

LEMMA StartAddKeeps ==
  ASSUME BasketInv, NEW r \in Requests, StartAdd(r)
  PROVE  BasketInv'
<1>1. PICK l \in Lines, n \in 1..QuantityCap :
        Begin(r, [Idle EXCEPT !.pc = "watch", !.op = "add", !.line = l,
                              !.quantity = n, !.offer = {offer[l]}], {offer[l]})
  BY DEF StartAdd
<1> DEFINE q == [Idle EXCEPT !.pc = "watch", !.op = "add", !.line = l,
                              !.quantity = n, !.offer = {offer[l]}]
<1>2. Shape(q) /\ q.pc = "watch" /\ q.line = l /\ q.offer = {offer[l]}
  BY DEF Shape, Idle
<1> HIDE DEF q
<1>3. QED
  BY <1>1, <1>2, BeginKeeps DEF q

LEMMA StartChangeKeeps ==
  ASSUME BasketInv, NEW r \in Requests, StartChange(r)
  PROVE  BasketInv'
<1>1. PICK l \in Lines, op \in {"set", "delete"}, n \in 1..QuantityCap :
        Begin(r, [Idle EXCEPT !.pc = "watch", !.op = op, !.line = l,
                              !.quantity = n], {offer[l]})
  BY DEF StartChange
<1> DEFINE q == [Idle EXCEPT !.pc = "watch", !.op = op, !.line = l, !.quantity = n]
<1>2. Shape(q) /\ q.pc = "watch" /\ q.line = l /\ q.offer = {}
  BY DEF Shape, Idle
<1>3. QED
  BY <1>1, <1>2, BeginKeeps

LEMMA StartRepeatKeeps ==
  ASSUME BasketInv, NEW r \in Requests, StartRepeat(r)
  PROVE  BasketInv'
<1>1. PICK todo :
        Begin(r, [Idle EXCEPT !.pc = "next", !.op = "add", !.todo = todo], {})
  BY DEF StartRepeat
<1> DEFINE q == [Idle EXCEPT !.pc = "next", !.op = "add", !.todo = todo]
<1>2. Shape(q) /\ q.pc = "next"
  BY DEF Shape, Idle
<1>3. QED
  BY <1>1, <1>2, BeginKeeps

-----------------------------------------------------------------------------
LEMMA RepeatNextKeeps ==
  ASSUME BasketInv, NEW r \in Requests, RepeatNext(r)
  PROVE  BasketInv'
<1> DEFINE q == request[r]
           l == Head(q.todo).line
           add == [q EXCEPT !.pc = "watch", !.line = l, !.tries = 0,
                            !.quantity = Head(q.todo).quantity,
                            !.offer = {offer[l]}, !.todo = Tail(q.todo)]
           next == request'[r]
<1>1. Shape(q)
  BY DEF BasketInv, Shapes
<1>2. Shape(add) /\ add.pc = "watch" /\ add.line = l /\ add.offer = {offer[l]}
  BY <1>1 DEF Shape
<1>3. next = add \/ next = Idle
  BY DEF RepeatNext, BasketInv, Shapes
<1>4. /\ request' = [request EXCEPT ![r] = next]
      /\ seen' = [seen EXCEPT ![r] = {offer[l]}]
      /\ UNCHANGED <<cart, offer, wanted>>
  BY DEF RepeatNext, BasketInv, Shapes
<1> HIDE DEF add, next
<1>5. FreshCopy(next, cart) /\ NowSeen(next, {offer[l]}) /\ HeldSeen(next, {offer[l]})
  BY <1>2, <1>3 DEF FreshCopy, NowSeen, HeldSeen, Idle
<1>6. Shape(next)
  BY <1>2, <1>3, IdleShape
<1>7. QED
  BY <1>4, <1>5, <1>6, StepOfOne

LEMMA ExecuteFailsKeeps ==
  ASSUME BasketInv, NEW r \in Requests, ExecuteFails(r)
  PROVE  BasketInv'
<1> DEFINE q == request[r]
           again == [q EXCEPT !.pc = "watch", !.tries = @ + 1, !.snap = Empty]
           next == request'[r]
<1>1. Shape(q) /\ RequestInv(r) /\ q.pc = "exec"
  BY DEF BasketInv, Shapes, ExecuteFails
<1>2. Shape(again) /\ again.pc = "watch" /\ again.line = q.line /\ again.offer = q.offer
  BY <1>1 DEF Shape
<1>3. next = again \/ next = Idle
  BY DEF ExecuteFails, BasketInv, Shapes
<1>4. /\ request' = [request EXCEPT ![r] = next]
      /\ seen' = [seen EXCEPT ![r] = seen[r]]
      /\ UNCHANGED <<cart, offer, wanted>>
  BY DEF ExecuteFails, BasketInv, Shapes
<1> HIDE DEF again, next
<1>5. FreshCopy(next, cart) /\ NowSeen(next, seen[r]) /\ HeldSeen(next, seen[r])
  BY <1>1, <1>2, <1>3 DEF RequestInv, FreshCopy, NowSeen, HeldSeen, Idle
<1>6. Shape(next)
  BY <1>2, <1>3, IdleShape
<1>7. QED
  BY <1>4, <1>5, <1>6, StepOfOne

LEMMA EndsAtRest ==
  ASSUME NEW q
  PROVE  Shape(Ends(q)) /\ Ends(q).pc \in {"idle", "next"}
BY DEF Ends, Idle, Shape

LEMMA LoadKeeps ==
  ASSUME BasketInv, NEW r \in Requests, Load(r)
  PROVE  BasketInv'
<1> DEFINE q == request[r]
           save == [q EXCEPT !.pc = "save", !.snap = cart]
           next == request'[r]
<1>1. Shape(save) /\ save.pc = "save"
  BY DEF BasketInv, Shapes, Shape
<1>2. next = save \/ next = Ends(q)
  BY DEF Load, BasketInv, Shapes
<1>3. /\ request' = [request EXCEPT ![r] = next]
      /\ seen' = [seen EXCEPT ![r] = seen[r]]
      /\ UNCHANGED <<cart, offer, wanted>>
  BY DEF Load, BasketInv, Shapes
<1> HIDE DEF save, next
<1>4. Shape(next) /\ next.pc \notin {"watch", "exec"}
  BY <1>1, <1>2, EndsAtRest
<1>5. QED
  BY <1>3, <1>4, AtRest, StepOfOne

\* The checks of the loop are made on the row the request held, or takes now.
LEMMA WatchKeeps ==
  ASSUME BasketInv, NEW r \in Requests, Watch(r)
  PROVE  BasketInv'
<1> DEFINE q == [request[r] EXCEPT !.snap = cart]
           held == IF q.op = "delete" THEN {} ELSE {Held(q)}
           exec == [[q EXCEPT !.offer = held] EXCEPT !.pc = "exec", !.dirty = FALSE]
           next == request'[r]
<1>1. /\ Shape(request[r]) /\ RequestInv(r) /\ request[r].pc = "watch"
  BY DEF BasketInv, Shapes, Watch, Shape
<1>2. /\ q.op = request[r].op /\ q.line = request[r].line /\ q.snap = cart
      /\ q.offer = request[r].offer /\ q.quantity = request[r].quantity /\ Shape(q)
  BY <1>1 DEF Shape
<1>3. /\ Shape(exec) /\ exec.pc = "exec" /\ exec.snap = cart
      /\ exec.op = q.op /\ exec.line = q.line /\ exec.quantity = q.quantity
      /\ exec.offer = held
  BY <1>2 DEF Shape
<1>4. \/ /\ next = exec
         /\ q.op # "delete" => Resolved(q, Held(q)) /\ Fits(q, Held(q))
      \/ next = Idle
  BY DEF Watch, BasketInv, Shapes
<1>5. /\ request' = [request EXCEPT ![r] = next]
      /\ seen' = [seen EXCEPT ![r] = seen[r]]
      /\ UNCHANGED <<cart, offer, wanted>>
  BY DEF Watch, BasketInv, Shapes
<1>6. Held(q) \in seen[r]
  BY <1>1, <1>2 DEF RequestInv, NowSeen, HeldSeen, Held
<1> HIDE DEF q, exec, next
<1>7. CASE next = exec
  <2>1. q.op # "delete" => Checked(exec, Held(q))
    <3>1. q.op # "delete" => Fits(exec, Held(q))
      BY <1>2, <1>3, <1>4, <1>7, FitsByFields DEF Idle
    <3>2. QED
      BY <1>3, <1>4, <1>7, <3>1 DEF Checked, Resolved, Idle
  <2>2. HeldSeen(exec, seen[r])
    BY <1>3, <1>6, <2>1 DEF HeldSeen
  <2>3. FreshCopy(exec, cart) /\ NowSeen(exec, seen[r])
    BY <1>1, <1>2, <1>3 DEF FreshCopy, NowSeen, RequestInv
  <2>4. QED
    BY <1>3, <1>5, <1>7, <2>2, <2>3, StepOfOne
<1>8. CASE next = Idle
  <2>1. next.pc = "idle"
    BY <1>8 DEF Idle
  <2>2. QED
    BY <1>5, <1>8, <2>1, IdleShape, AtRest, StepOfOne
<1>9. QED
  BY <1>4, <1>7, <1>8

LEMMA ExecuteKeeps ==
  ASSUME BasketInv, NEW r \in Requests, Execute(r)
  PROVE  BasketInv'
<1> DEFINE q == request[r]
           done == [Idle EXCEPT !.pc = "load", !.line = q.line,
                                !.offer = q.offer, !.todo = q.todo]
           req == [request EXCEPT ![r] = done]
<1>1. q.snap = cart /\ wanted = cart
  BY DEF BasketInv, RequestInv, FreshCopy, NoLostUpdate, Execute, Untouched
<1>2. Shape(done) /\ done.pc = "load"
  BY DEF Shape, Idle
<1> HIDE DEF done
<1>3. /\ req[r] = done
      /\ \A t \in Requests \ {r} : req[t] = request[t]
      /\ \A t \in Requests : Shape(req[t])
  BY <1>2 DEF BasketInv, Shapes
<1>4. seen' = [t \in Requests |-> IF t = r THEN {} ELSE seen[t]]
  BY DEF Execute, BasketInv, Shapes
<1>5. Written(Applied(q, q.snap), req) /\ wanted' = Applied(q, q.snap) /\ offer' = offer
  BY <1>1 DEF Execute, done
<1> HIDE DEF req
<1>6. QED
  BY <1>2, <1>3, <1>4, <1>5, WriteOfCart

LEMMA SaveBackKeeps ==
  ASSUME BasketInv, NEW r \in Requests, SaveBack(r)
  PROVE  BasketInv'
<1> DEFINE q == request[r]
           req == [request EXCEPT ![r] = Ends(q)]
<1>1. wanted' = Pruned(q)
  <2>1. CASE q.snap = cart
    <3>1. [q EXCEPT !.snap = wanted] = q
      BY <2>1 DEF BasketInv, Shapes, Shape, NoLostUpdate
    <3>2. QED
      BY <2>1, <3>1 DEF SaveBack
  <2>2. CASE q.snap # cart
    BY <2>2 DEF SaveBack
  <2>3. QED
    BY <2>1, <2>2
<1>2. /\ req[r] = Ends(q)
      /\ \A t \in Requests \ {r} : req[t] = request[t]
      /\ \A t \in Requests : Shape(req[t])
  BY EndsAtRest DEF BasketInv, Shapes
<1>3. seen' = [t \in Requests |-> IF t = r THEN seen[r] ELSE seen[t]]
  BY DEF SaveBack, BasketInv, Shapes
<1>4. Written(Pruned(q), req) /\ offer' = offer
  BY DEF SaveBack
<1> HIDE DEF req
<1>5. QED
  BY <1>1, <1>2, <1>3, <1>4, EndsAtRest, WriteOfCart

LEMMA ClearKeeps ==
  ASSUME BasketInv, NEW r \in Requests, Clear(r)
  PROVE  BasketInv'
<1> DEFINE done == [request[r] EXCEPT !.pc = "load"]
           req == [request EXCEPT ![r].pc = "load"]
<1>1. Shape(done) /\ done.pc = "load"
  BY DEF BasketInv, Shapes, Shape
<1>2. /\ req[r] = done
      /\ \A t \in Requests \ {r} : req[t] = request[t]
  BY DEF BasketInv, Shapes
<1> HIDE DEF done
<1>3. \A t \in Requests : Shape(req[t])
  BY <1>1, <1>2 DEF BasketInv, Shapes
<1>4. seen' = [t \in Requests |-> IF t = r THEN seen[r] ELSE seen[t]]
  BY DEF Clear, BasketInv, Shapes
<1>5. Written(Empty, req) /\ wanted' = Empty /\ offer' = offer
  BY DEF Clear
<1> HIDE DEF req
<1>6. QED
  BY <1>1, <1>2, <1>3, <1>4, <1>5, WriteOfCart

-----------------------------------------------------------------------------
LEMMA BasketNextKeeps ==
  ASSUME BasketInv, [BasketNext]_basketVars
  PROVE  BasketInv'
<1>1. CASE BasketNext
  BY <1>1, ExpireKeeps, MenuChangeKeeps, StartGetKeeps, StartAddKeeps,
     StartChangeKeeps, StartRepeatKeeps, RepeatNextKeeps, WatchKeeps, ExecuteKeeps,
     ExecuteFailsKeeps, LoadKeeps, SaveBackKeeps, ClearKeeps DEF BasketNext
<1>2. CASE UNCHANGED basketVars
  BY <1>2 DEF basketVars, BasketInv, Shapes, NoLostUpdate, RequestInv, FreshCopy,
              NowSeen, HeldSeen
<1>3. QED
  BY <1>1, <1>2

\* The copies under WATCH are the cart, and the rows in use have been seen:
\* what add_item, update_item_quantity, delete_item and get rely on (cart.py).
THEOREM BasketKnown == BasketSpec => []BasketInv
BY InitBasket, BasketNextKeeps, PTL DEF BasketSpec

\* No acknowledged change of the cart is lost or repeated by another request,
\* a retry, an expiry or a clearing (cart.py).
THEOREM CartKept == BasketSpec => []NoLostUpdate
<1>1. BasketInv => NoLostUpdate
  BY DEF BasketInv
<1>2. QED
  BY <1>1, BasketKnown, PTL

-----------------------------------------------------------------------------
\* Only a request's own EXEC takes it from the loop to the read that follows.
LEMMA OnlyExecuteLoads ==
  ASSUME BasketInv, BasketNext, NEW r \in Requests,
         request[r].pc = "exec", request'[r].pc = "load"
  PROVE  Execute(r)
<1>1. ASSUME NEW c, NEW req, Written(c, req), req[r] = request[r]
      PROVE  FALSE
  <2>1. request'[r] = [request[r] EXCEPT !.dirty = TRUE]
    BY <1>1 DEF Written
  <2>2. request'[r].pc = "exec"
    BY <2>1 DEF BasketInv, Shapes, Shape
  <2>3. QED
    BY <2>2
<1>2. ASSUME NEW t, NEW q, request' = [request EXCEPT ![t] = q]
      PROVE  t = r /\ q.pc = "load"
  BY <1>2 DEF BasketInv, Shapes
<1>3. ~Expire
  BY <1>1 DEF Expire
<1>4. \A i \in Items : ~MenuChange(i)
  BY DEF MenuChange
<1>5. ASSUME NEW t \in Requests,
             \/ StartGet(t) \/ StartAdd(t) \/ StartChange(t) \/ StartRepeat(t)
      PROVE  FALSE
  BY <1>2, <1>5 DEF StartGet, StartAdd, StartChange, StartRepeat, Begin
<1>6. ASSUME NEW t \in Requests, RepeatNext(t) \/ Watch(t) \/ Load(t)
      PROVE  FALSE
  <2>1. CASE RepeatNext(t)
    BY <1>2, <2>1 DEF RepeatNext
  <2>2. CASE Watch(t)
    BY <1>2, <2>2 DEF Watch
  <2>3. CASE Load(t)
    BY <1>2, <2>3 DEF Load
  <2>4. QED
    BY <1>6, <2>1, <2>2, <2>3
<1>7. ASSUME NEW t \in Requests, ExecuteFails(t)
      PROVE  FALSE
  <2> DEFINE again == [request[t] EXCEPT !.pc = "watch", !.tries = @ + 1,
                                         !.snap = Empty]
  <2>1. again.pc # "load" /\ Idle.pc # "load"
    BY <1>7 DEF BasketInv, Shapes, Shape, Idle
  <2>2. request' = [request EXCEPT ![t] = again] \/ request' = [request EXCEPT ![t] = Idle]
    BY <1>7 DEF ExecuteFails
  <2> HIDE DEF again
  <2>3. QED
    BY <1>2, <2>1, <2>2
<1>8. ASSUME NEW t \in Requests, t # r, Execute(t) \/ SaveBack(t) \/ Clear(t)
      PROVE  FALSE
  <2>1. PICK c, q : Written(c, [request EXCEPT ![t] = q])
    BY <1>8 DEF Execute, SaveBack, Clear
  <2>2. [request EXCEPT ![t] = q][r] = request[r]
    BY <1>8 DEF BasketInv, Shapes
  <2>3. QED
    BY <1>1, <2>1, <2>2
<1>9. ~SaveBack(r) /\ ~Clear(r)
  BY DEF SaveBack, Clear
<1>10. QED
  BY <1>3, <1>4, <1>5, <1>6, <1>7, <1>8, <1>9 DEF BasketNext

\* INV-006 (order_repeat.py, cart.py): whatever a request adds was orderable,
\* with the new total of its item in stock, while the request ran.
THEOREM AddsAreOffered == BasketSpec => AddedWasOffered
<1> DEFINE AddsOffered ==
      \A r \in Requests :
        request[r].pc = "exec" /\ request'[r].pc = "load"
          /\ request[r].op # "delete" =>
        \E o \in seen[r] :
          Orderable(o) /\ ItemTotal(cart', Item[request[r].line]) <= o.stock
<1>1. ASSUME BasketInv, [BasketNext]_basketVars
      PROVE  [AddsOffered]_basketVars
  <2>1. CASE UNCHANGED basketVars
    BY <2>1
  <2>2. CASE BasketNext
    <3>1. SUFFICES ASSUME NEW r \in Requests, request[r].pc = "exec",
                          request'[r].pc = "load", request[r].op # "delete"
                   PROVE  \E o \in seen[r] :
                            /\ Orderable(o)
                            /\ ItemTotal(cart', Item[request[r].line]) <= o.stock
      OBVIOUS
    <3>2. Execute(r)
      BY <2>2, <3>1, <1>1, OnlyExecuteLoads
    <3>3. cart' = Applied(request[r], request[r].snap)
      BY <3>2 DEF Execute, Written
    <3>4. PICK o \in seen[r] : Orderable(o) /\ Fits(request[r], o)
      BY <1>1, <3>1 DEF BasketInv, RequestInv, HeldSeen, Checked
    <3>5. QED
      BY <3>3, <3>4 DEF Fits
  <2>3. QED
    BY <1>1, <2>1, <2>2
<1>2. QED
  BY <1>1, BasketKnown, PTL DEF BasketSpec, AddedWasOffered

-----------------------------------------------------------------------------
(* The notifications, for any writers, transitions and limits.             *)
(* A row gets at most one SMS, only once it is committed, and no           *)
(* committed row is forgotten without a fault: both rest on where a        *)
(* notification can be at each moment of its session and of its task.      *)

\* The values of the variables the proof reads.
NoticesTypes ==
  /\ rows \in [Notes -> {"none", "PENDING", "SENT", "FAILED"}]
  /\ writer \in [Writers -> [pc : {"idle", "open", "after"},
                             rows : SUBSET Notes, calls : SUBSET Notes]]
  /\ job \in [Notes -> {"none", "queued", "taken", "done"}]
  /\ accepted \in [Notes -> Nat]
  /\ dropped \subseteq Notes /\ written \subseteq Notes

\* A notification has one writer, and the writer has written it.
OneWriter ==
  /\ \A w \in Writers : writer[w].calls \subseteq written
  /\ \A v, w \in Writers : \A n \in Notes :
       n \in writer[v].calls /\ n \in writer[w].calls => v = w

\* What a writer holds follows its phase: every uncommitted row has its
\* callback, and no task exists before its callback ran.
HeldByPhase ==
  \A w \in Writers :
    /\ writer[w].pc = "idle" => writer[w].rows = {} /\ writer[w].calls = {}
    /\ writer[w].pc = "open" => writer[w].rows = writer[w].calls
    /\ writer[w].pc = "open" =>
         \A n \in writer[w].calls : rows[n] = "none" /\ job[n] = "none"
    /\ writer[w].pc = "after" =>
         \A n \in writer[w].calls : rows[n] = "PENDING" /\ job[n] = "none"

\* A notification nobody wrote has left no trace.
Unwritten ==
  \A n \in Notes : n \notin written => rows[n] = "none" /\ job[n] = "none"

\* The task's progress says what the row and the gateway have seen.
JobExplains ==
  \A n \in Notes :
    /\ job[n] = "none" => rows[n] \in {"none", "PENDING"} /\ accepted[n] = 0
    /\ job[n] = "queued" => rows[n] = "PENDING" /\ accepted[n] = 0
    /\ job[n] = "taken" => rows[n] = "PENDING" /\ accepted[n] = 1
    /\ job[n] = "done" => rows[n] # "none" /\ accepted[n] <= 1
    /\ rows[n] = "SENT" => accepted[n] = 1

NoticesInv ==
  NoticesTypes /\ OneWriter /\ HeldByPhase /\ Unwritten /\ JobExplains
    /\ PendingExplained
LEMMA InitInv == NoticesInit => NoticesInv
BY DEF NoticesInit, NoticesInv, NoticesTypes, OneWriter, HeldByPhase, Unwritten,
       JobExplains, PendingExplained, IdleWriter

-----------------------------------------------------------------------------
(* The sessions                                                            *)

LEMMA AnnounceKeeps ==
  ASSUME NoticesInv, NEW w \in Writers, NEW n \in Notes, NEW x \in Transitions,
         Announce(w, n, x)
  PROVE  NoticesInv'
<1>1. NoticesTypes'
  BY DEF NoticesInv, NoticesTypes, Announce, Deferred, JobsAtWrite
<1>2. OneWriter'
  BY DEF NoticesInv, NoticesTypes, OneWriter, Announce, Deferred, JobsAtWrite
<1>3. HeldByPhase'
  <2>1. n \notin written /\ rows[n] = "none" /\ job[n] = "none"
    BY DEF NoticesInv, Unwritten, Announce
  <2>2. rows' = rows /\ job' = job
    BY DEF Announce, JobsAtWrite
  <2>3. \A v \in Writers \ {w} : writer'[v] = writer[v]
    BY DEF NoticesInv, NoticesTypes, Announce
  <2>4. CASE RequiresSms(x)
    <3>1. writer'[w] = [pc |-> "open", rows |-> writer[w].rows \cup {n},
                        calls |-> writer[w].calls \cup {n}]
      BY <2>4 DEF NoticesInv, NoticesTypes, Announce, Deferred
    <3>2. writer[w].rows = writer[w].calls
      BY DEF NoticesInv, HeldByPhase, Announce
    <3>3. \A m \in writer[w].calls : rows[m] = "none" /\ job[m] = "none"
      BY DEF NoticesInv, HeldByPhase, Announce
    <3>4. /\ writer'[w].pc = "open"
          /\ writer'[w].rows = writer[w].rows \cup {n}
          /\ writer'[w].calls = writer[w].calls \cup {n}
      BY <3>1
    <3>5. writer'[w].rows = writer'[w].calls
      BY <3>2, <3>4
    <3>6. \A m \in writer'[w].calls : rows[m] = "none" /\ job[m] = "none"
      BY <2>1, <3>3, <3>4
    <3>7. HeldByPhase
      BY DEF NoticesInv
    <3>8. SUFFICES ASSUME NEW v \in Writers
                   PROVE  HeldByPhase!(v)'
      BY DEF HeldByPhase
    <3>9. CASE v = w
      BY <2>2, <3>4, <3>5, <3>6, <3>9
    <3>10. CASE v # w
      BY <2>2, <2>3, <3>7, <3>10 DEF HeldByPhase
    <3>11. QED
      BY <3>9, <3>10
  <2>5. CASE ~RequiresSms(x)
    <3>1. writer'[w] = [writer[w] EXCEPT !.pc = "open"]
      BY <2>5 DEF NoticesInv, NoticesTypes, Announce
    <3>2. /\ writer'[w].pc = "open"
          /\ writer'[w].rows = writer[w].rows
          /\ writer'[w].calls = writer[w].calls
      BY <3>1 DEF NoticesInv, NoticesTypes
    <3>3. /\ writer[w].rows = writer[w].calls
          /\ \A m \in writer[w].calls : rows[m] = "none" /\ job[m] = "none"
      BY DEF NoticesInv, HeldByPhase, Announce
    <3>4. QED
      BY <2>2, <2>3, <3>2, <3>3 DEF NoticesInv, HeldByPhase
  <2>6. QED
    BY <2>4, <2>5
<1>4. Unwritten'
  BY DEF NoticesInv, NoticesTypes, OneWriter, HeldByPhase, Unwritten, Announce, Deferred, JobsAtWrite
<1>5. JobExplains'
  BY DEF NoticesInv, NoticesTypes, HeldByPhase, Unwritten, JobExplains, Announce, Deferred, JobsAtWrite
<1>6. PendingExplained'
  BY DEF NoticesInv, NoticesTypes, HeldByPhase, JobExplains, PendingExplained, Announce, Deferred, JobsAtWrite
<1>7. QED
  BY <1>1, <1>2, <1>3, <1>4, <1>5, <1>6 DEF NoticesInv

LEMMA RollbackKeeps ==
  ASSUME NoticesInv, NEW w \in Writers, Rollback(w)
  PROVE  NoticesInv'
<1>1. NoticesTypes'
  BY DEF NoticesInv, NoticesTypes, Rollback, IdleWriter
<1>2. OneWriter'
  BY DEF NoticesInv, NoticesTypes, OneWriter, Rollback, IdleWriter
<1>3. HeldByPhase'
  BY DEF NoticesInv, NoticesTypes, OneWriter, HeldByPhase, Unwritten, JobExplains, Rollback, IdleWriter
<1>4. Unwritten'
  BY DEF NoticesInv, NoticesTypes, OneWriter, HeldByPhase, Unwritten, Rollback, IdleWriter
<1>5. JobExplains'
  BY DEF NoticesInv, NoticesTypes, HeldByPhase, Unwritten, JobExplains, Rollback, IdleWriter
<1>6. PendingExplained'
  BY DEF NoticesInv, NoticesTypes, HeldByPhase, JobExplains, PendingExplained, Rollback, IdleWriter
<1>7. QED
  BY <1>1, <1>2, <1>3, <1>4, <1>5, <1>6 DEF NoticesInv

LEMMA CommitKeeps ==
  ASSUME NoticesInv, NEW w \in Writers, Commit(w)
  PROVE  NoticesInv'
<1>1. NoticesTypes'
  BY DEF NoticesInv, NoticesTypes, Commit
<1>2. OneWriter'
  BY DEF NoticesInv, NoticesTypes, OneWriter, Commit
<1>3. HeldByPhase'
  BY DEF NoticesInv, NoticesTypes, OneWriter, HeldByPhase, Unwritten, JobExplains, Commit
<1>4. Unwritten'
  BY DEF NoticesInv, NoticesTypes, OneWriter, HeldByPhase, Unwritten, Commit
<1>5. JobExplains'
  BY DEF NoticesInv, NoticesTypes, HeldByPhase, Unwritten, JobExplains, Commit
<1>6. PendingExplained'
  BY DEF NoticesInv, NoticesTypes, HeldByPhase, JobExplains, PendingExplained, Commit
<1>7. QED
  BY <1>1, <1>2, <1>3, <1>4, <1>5, <1>6 DEF NoticesInv

LEMMA EnqueueSmsKeeps ==
  ASSUME NoticesInv, NEW w \in Writers, NEW n \in Notes, EnqueueSms(w, n)
  PROVE  NoticesInv'
<1>1. NoticesTypes'
  BY DEF NoticesInv, NoticesTypes, EnqueueSms, Misfortune
<1>2. OneWriter'
  BY DEF NoticesInv, NoticesTypes, OneWriter, EnqueueSms, Misfortune
<1>3. HeldByPhase'
  BY DEF NoticesInv, NoticesTypes, OneWriter, HeldByPhase, Unwritten, JobExplains, EnqueueSms, Misfortune
<1>4. Unwritten'
  BY DEF NoticesInv, NoticesTypes, OneWriter, HeldByPhase, Unwritten, EnqueueSms, Misfortune
<1>5. JobExplains'
  BY DEF NoticesInv, NoticesTypes, HeldByPhase, Unwritten, JobExplains, EnqueueSms, Misfortune
<1>6. PendingExplained'
  BY DEF NoticesInv, NoticesTypes, HeldByPhase, JobExplains, PendingExplained, EnqueueSms, Misfortune
<1>7. QED
  BY <1>1, <1>2, <1>3, <1>4, <1>5, <1>6 DEF NoticesInv

LEMMA WriterDoneKeeps ==
  ASSUME NoticesInv, NEW w \in Writers, WriterDone(w)
  PROVE  NoticesInv'
<1>1. NoticesTypes'
  BY DEF NoticesInv, NoticesTypes, WriterDone, IdleWriter
<1>2. OneWriter'
  BY DEF NoticesInv, NoticesTypes, OneWriter, WriterDone, IdleWriter
<1>3. HeldByPhase'
  BY DEF NoticesInv, NoticesTypes, OneWriter, HeldByPhase, Unwritten, JobExplains, WriterDone, IdleWriter
<1>4. Unwritten'
  BY DEF NoticesInv, NoticesTypes, OneWriter, HeldByPhase, Unwritten, WriterDone, IdleWriter
<1>5. JobExplains'
  BY DEF NoticesInv, NoticesTypes, HeldByPhase, Unwritten, JobExplains, WriterDone, IdleWriter
<1>6. PendingExplained'
  BY DEF NoticesInv, NoticesTypes, HeldByPhase, JobExplains, PendingExplained, WriterDone, IdleWriter
<1>7. QED
  BY <1>1, <1>2, <1>3, <1>4, <1>5, <1>6 DEF NoticesInv

LEMMA WriterDiesKeeps ==
  ASSUME NoticesInv, NEW w \in Writers, WriterDies(w)
  PROVE  NoticesInv'
<1>1. NoticesTypes'
  BY DEF NoticesInv, NoticesTypes, WriterDies, Misfortune, IdleWriter
<1>2. OneWriter'
  BY DEF NoticesInv, NoticesTypes, OneWriter, WriterDies, Misfortune, IdleWriter
<1>3. HeldByPhase'
  BY DEF NoticesInv, NoticesTypes, OneWriter, HeldByPhase, Unwritten, JobExplains, WriterDies, Misfortune, IdleWriter
<1>4. Unwritten'
  BY DEF NoticesInv, NoticesTypes, OneWriter, HeldByPhase, Unwritten, WriterDies, Misfortune, IdleWriter
<1>5. JobExplains'
  BY DEF NoticesInv, NoticesTypes, HeldByPhase, Unwritten, JobExplains, WriterDies, Misfortune, IdleWriter
<1>6. PendingExplained'
  BY DEF NoticesInv, NoticesTypes, HeldByPhase, JobExplains, PendingExplained, WriterDies, Misfortune, IdleWriter
<1>7. QED
  BY <1>1, <1>2, <1>3, <1>4, <1>5, <1>6 DEF NoticesInv

-----------------------------------------------------------------------------
(* The SMS task                                                            *)

LEMMA SkipMissingKeeps ==
  ASSUME NoticesInv, NEW n \in Notes, SkipMissing(n)
  PROVE  NoticesInv'
<1>1. NoticesTypes'
  BY DEF NoticesInv, NoticesTypes, SkipMissing
<1>2. OneWriter'
  BY DEF NoticesInv, NoticesTypes, OneWriter, SkipMissing
<1>3. HeldByPhase'
  BY DEF NoticesInv, NoticesTypes, OneWriter, HeldByPhase, Unwritten, JobExplains, SkipMissing
<1>4. Unwritten'
  BY DEF NoticesInv, NoticesTypes, OneWriter, HeldByPhase, Unwritten, SkipMissing
<1>5. JobExplains'
  BY DEF NoticesInv, NoticesTypes, HeldByPhase, Unwritten, JobExplains, SkipMissing
<1>6. PendingExplained'
  BY DEF NoticesInv, NoticesTypes, HeldByPhase, JobExplains, PendingExplained, SkipMissing
<1>7. QED
  BY <1>1, <1>2, <1>3, <1>4, <1>5, <1>6 DEF NoticesInv

LEMMA GatewayTakesKeeps ==
  ASSUME NoticesInv, NEW n \in Notes, GatewayTakes(n)
  PROVE  NoticesInv'
<1>1. NoticesTypes'
  BY DEF NoticesInv, NoticesTypes, GatewayTakes
<1>2. OneWriter'
  BY DEF NoticesInv, NoticesTypes, OneWriter, GatewayTakes
<1>3. HeldByPhase'
  BY DEF NoticesInv, NoticesTypes, OneWriter, HeldByPhase, Unwritten, JobExplains, GatewayTakes
<1>4. Unwritten'
  BY DEF NoticesInv, NoticesTypes, OneWriter, HeldByPhase, Unwritten, GatewayTakes
<1>5. JobExplains'
  BY DEF NoticesInv, NoticesTypes, HeldByPhase, Unwritten, JobExplains, GatewayTakes
<1>6. PendingExplained'
  BY DEF NoticesInv, NoticesTypes, HeldByPhase, JobExplains, PendingExplained, GatewayTakes
<1>7. QED
  BY <1>1, <1>2, <1>3, <1>4, <1>5, <1>6 DEF NoticesInv

LEMMA MarkSentKeeps ==
  ASSUME NoticesInv, NEW n \in Notes, MarkSent(n)
  PROVE  NoticesInv'
<1>1. NoticesTypes'
  BY DEF NoticesInv, NoticesTypes, MarkSent
<1>2. OneWriter'
  BY DEF NoticesInv, NoticesTypes, OneWriter, MarkSent
<1>3. HeldByPhase'
  BY DEF NoticesInv, NoticesTypes, OneWriter, HeldByPhase, Unwritten, JobExplains, MarkSent
<1>4. Unwritten'
  BY DEF NoticesInv, NoticesTypes, OneWriter, HeldByPhase, Unwritten, MarkSent
<1>5. JobExplains'
  BY DEF NoticesInv, NoticesTypes, HeldByPhase, Unwritten, JobExplains, MarkSent
<1>6. PendingExplained'
  BY DEF NoticesInv, NoticesTypes, HeldByPhase, JobExplains, PendingExplained, MarkSent
<1>7. QED
  BY <1>1, <1>2, <1>3, <1>4, <1>5, <1>6 DEF NoticesInv

LEMMA GatewayRefusesKeeps ==
  ASSUME NoticesInv, NEW n \in Notes, GatewayRefuses(n)
  PROVE  NoticesInv'
<1>1. NoticesTypes'
  BY DEF NoticesInv, NoticesTypes, GatewayRefuses
<1>2. OneWriter'
  BY DEF NoticesInv, NoticesTypes, OneWriter, GatewayRefuses
<1>3. HeldByPhase'
  BY DEF NoticesInv, NoticesTypes, OneWriter, HeldByPhase, Unwritten, JobExplains, GatewayRefuses
<1>4. Unwritten'
  BY DEF NoticesInv, NoticesTypes, OneWriter, HeldByPhase, Unwritten, GatewayRefuses
<1>5. JobExplains'
  BY DEF NoticesInv, NoticesTypes, HeldByPhase, Unwritten, JobExplains, GatewayRefuses
<1>6. PendingExplained'
  BY DEF NoticesInv, NoticesTypes, HeldByPhase, JobExplains, PendingExplained, GatewayRefuses
<1>7. QED
  BY <1>1, <1>2, <1>3, <1>4, <1>5, <1>6 DEF NoticesInv

LEMMA SmsWorkerDiesKeeps ==
  ASSUME NoticesInv, NEW n \in Notes, SmsWorkerDies(n)
  PROVE  NoticesInv'
<1>1. NoticesTypes'
  BY DEF NoticesInv, NoticesTypes, SmsWorkerDies, Misfortune
<1>2. OneWriter'
  BY DEF NoticesInv, NoticesTypes, OneWriter, SmsWorkerDies, Misfortune
<1>3. HeldByPhase'
  BY DEF NoticesInv, NoticesTypes, OneWriter, HeldByPhase, Unwritten, JobExplains, SmsWorkerDies, Misfortune
<1>4. Unwritten'
  BY DEF NoticesInv, NoticesTypes, OneWriter, HeldByPhase, Unwritten, SmsWorkerDies, Misfortune
<1>5. JobExplains'
  BY DEF NoticesInv, NoticesTypes, HeldByPhase, Unwritten, JobExplains, SmsWorkerDies, Misfortune
<1>6. PendingExplained'
  BY DEF NoticesInv, NoticesTypes, HeldByPhase, JobExplains, PendingExplained, SmsWorkerDies, Misfortune
<1>7. QED
  BY <1>1, <1>2, <1>3, <1>4, <1>5, <1>6 DEF NoticesInv

-----------------------------------------------------------------------------
LEMMA NextKeeps ==
  ASSUME NoticesInv, [NoticesNext]_noticeVars
  PROVE  NoticesInv'
<1>1. CASE NoticesNext
  BY <1>1, AnnounceKeeps, RollbackKeeps, CommitKeeps, EnqueueSmsKeeps,
     WriterDoneKeeps, WriterDiesKeeps, SkipMissingKeeps, GatewayTakesKeeps,
     MarkSentKeeps, GatewayRefusesKeeps, SmsWorkerDiesKeeps
     DEF NoticesNext, SmsTask
<1>2. CASE UNCHANGED noticeVars
  BY <1>2 DEF noticeVars, NoticesInv, NoticesTypes, OneWriter, HeldByPhase,
              Unwritten, JobExplains, PendingExplained
<1>3. QED
  BY <1>1, <1>2

\* Where each notification is, in its writer's session (notification.py) and in
\* its SMS task (sms-worker tasks/notification.py), and what that implies.
THEOREM NoticesKnown == NoticesSpec => []NoticesInv
BY InitInv, NextKeeps, PTL DEF NoticesSpec

\* The gateway takes at most one SMS per row, only for a committed row, and no
\* row says SENT without it (send_order_notification_sms).
THEOREM SmsAtMostOnce == NoticesSpec => []OneSms
<1>1. NoticesInv => OneSms
  BY DEF NoticesInv, NoticesTypes, JobExplains, OneSms
<1>2. QED
  BY <1>1, NoticesKnown, PTL

\* The after-commit callbacks leave no committed PENDING row without a task,
\* except where a crash, the broker or the missing retry lost it.
THEOREM NoSmsForgotten == NoticesSpec => []PendingExplained
<1>1. NoticesInv => PendingExplained
  BY DEF NoticesInv
<1>2. QED
  BY <1>1, NoticesKnown, PTL

-----------------------------------------------------------------------------
(* The menu, for any items, modifiers and editors.                         *)
(* What a category offers is for sale, and an item is as its last edit     *)
(* asked for: between two reads a customer knows what still stands of the  *)
(* row he was shown, and an editor what he judged.                         *)

ItemShape(r) ==
  r \in [category : {r.category}, archived : {r.archived}, available : {r.available},
         size : {r.size}, media : {r.media}]

\* What an edit has read, and judged, before it writes.
EditorKnows(q) ==
  /\ q.pc \in {"idle", "media", "links"}
  /\ q.pc = "media" => q.of \in Products /\ MediaValid(Merged(q.body, q.row))
  /\ q.pc = "links" => q.of \in Products /\ q.ids \subseteq Modifiers

MenuShapes ==
  /\ item = [i \in Products |-> item[i]] /\ modifier = [m \in Modifiers |-> modifier[m]]
  /\ editor = [e \in Editors |-> editor[e]] /\ put = [i \in Products |-> put[i]]
  /\ \A i \in Products : item[i] = Gone \/ ItemShape(item[i])

\* What an item's modifiers and media are, whether it is there or not.
AsPut(i) == i \in skewed \/ Links(i) = put[i]
AsJudged(i) == i \in skewed \/ item[i] = Gone \/ MediaValid(item[i].media)

MenuKnown ==
  /\ MenuShapes
  /\ \A i \in Products, m \in Modifiers : <<i, m>> \in linked => modifier[m] # Gone
  /\ \A i \in Products : AsPut(i) /\ AsJudged(i)
  /\ \A e \in Editors : EditorKnows(editor[e])

CustomerKnows ==
  /\ customer.pc \in {"browsing", "chose", "added", "sold", "refused"}
  /\ customer.pc # "browsing" =>
       customer \in [pc : {customer.pc}, x : {customer.x}, moved : BOOLEAN]
  /\ customer.pc = "chose" => customer.moved \/ Offered(customer.x)
  /\ customer.pc = "added" => customer.moved \/ Addable(customer.x)
  /\ customer.pc = "refused" => customer.moved

LEMMA IdleEditorKnows == EditorKnows(IdleEditor) /\ IdleEditor.pc = "idle"
BY DEF EditorKnows, IdleEditor

LEMMA NewItemIs ==
  ASSUME NEW c
  PROVE  ItemShape(NewItem(c)) /\ MediaValid(NewItem(c).media)
BY DEF ItemShape, NewItem, NoMedia, MediaValid

LEMMA EditorMoves ==
  ASSUME MenuKnown, NEW e \in Editors, NEW q, editor' = [editor EXCEPT ![e] = q],
         EditorKnows(q)
  PROVE  /\ editor' = [f \in Editors |-> editor'[f]]
         /\ \A f \in Editors : EditorKnows(editor'[f])
BY DEF MenuKnown, MenuShapes

\* Some columns of an item, but not its media or its links.
LEMMA ItemWritten ==
  ASSUME MenuKnown, NEW i \in Products, NEW row, item' = [item EXCEPT ![i] = row],
         ItemShape(row), item[i] = Gone \/ row.media = item[i].media,
         item[i] # Gone \/ MediaValid(row.media),
         UNCHANGED <<modifier, linked, editor, put, skewed>>
  PROVE  MenuKnown'
<1>1. /\ item' = [j \in Products |-> item'[j]] /\ item'[i] = row
      /\ \A j \in Products \ {i} : item'[j] = item[j]
  BY DEF MenuKnown, MenuShapes
<1>2. \A j \in Products : AsPut(j)' /\ AsJudged(j)'
  BY <1>1 DEF MenuKnown, AsPut, AsJudged, Links
<1>3. QED
  BY <1>1, <1>2 DEF MenuKnown, MenuShapes

LEMMA CategoryKnown ==
  ASSUME MenuKnown, NEW e \in Editors, NEW c \in Categories,
         PutCategory(e, c) \/ DeleteCategory(e, c)
  PROVE  MenuKnown'
<1>1. UNCHANGED <<item, modifier, linked, editor, put, skewed>>
  BY DEF PutCategory, DeleteCategory
<1>2. QED
  BY <1>1 DEF MenuKnown, MenuShapes, AsPut, AsJudged, Links

LEMMA ModifierKnown ==
  ASSUME MenuKnown, NEW e \in Editors, NEW m \in Modifiers,
         PutModifier(e, m) \/ DeleteModifier(e, m)
  PROVE  MenuKnown'
<1>1. CASE PutModifier(e, m)
  <2>1. PICK flag \in BOOLEAN :
          /\ modifier' = [modifier EXCEPT ![m] = flag]
          /\ UNCHANGED <<category, item, linked, editor, put, skewed>>
    BY <1>1 DEF PutModifier
  <2>2. /\ modifier' = [n \in Modifiers |-> modifier'[n]] /\ modifier'[m] # Gone
        /\ \A n \in Modifiers \ {m} : modifier'[n] = modifier[n]
    BY <2>1, CatalogueAssumption DEF MenuKnown, MenuShapes
  <2>3. QED
    BY <2>1, <2>2 DEF MenuKnown, MenuShapes, AsPut, AsJudged, Links
<1>2. CASE DeleteModifier(e, m)
  <2>1. /\ modifier' = [modifier EXCEPT ![m] = Gone]
        /\ linked' = {l \in linked : l[2] # m}
        /\ put' = [i \in Products |-> put[i] \ {m}]
        /\ UNCHANGED <<category, item, editor, skewed>>
    BY <1>2 DEF DeleteModifier
  <2>2. /\ modifier' = [n \in Modifiers |-> modifier'[n]]
        /\ \A n \in Modifiers \ {m} : modifier'[n] = modifier[n]
    BY <2>1 DEF MenuKnown, MenuShapes
  <2>3. \A i \in Products, n \in Modifiers : <<i, n>> \in linked' <=> <<i, n>> \in linked /\ n # m
    BY <2>1
  <2>4. \A i \in Products : Links(i)' = Links(i) \ {m}
    BY <2>3 DEF Links
  <2>5. \A i \in Products : AsPut(i)' /\ AsJudged(i)'
    BY <2>1, <2>4 DEF MenuKnown, AsPut, AsJudged
  <2>6. QED
    BY <2>1, <2>2, <2>3, <2>5 DEF MenuKnown, MenuShapes
<1>3. QED
  BY <1>1, <1>2

LEMMA ItemKnown ==
  ASSUME MenuKnown, NEW e \in Editors, NEW i \in Products,
         (\E c \in Categories : CreateItem(e, i, c)) \/ PutItem(e, i) \/ PutSize(e, i)
  PROVE  MenuKnown'
<1>1. CASE \E c \in Categories : CreateItem(e, i, c)
  BY <1>1, NewItemIs, ItemWritten DEF CreateItem
<1>2. CASE PutItem(e, i) \/ PutSize(e, i)
  <2>1. PICK r : r = item[i] /\ ItemShape(r) /\ r # Gone
    BY <1>2 DEF PutItem, PutSize, MenuKnown, MenuShapes
  <2>2. PICK v : item' \in {[item EXCEPT ![i].category = v], [item EXCEPT ![i].archived = v],
                            [item EXCEPT ![i].available = v], [item EXCEPT ![i].size = v]}
    BY <1>2 DEF PutItem, PutSize
  <2>3. PICK row : /\ item' = [item EXCEPT ![i] = row]
                   /\ row \in {[r EXCEPT !.category = v], [r EXCEPT !.archived = v],
                               [r EXCEPT !.available = v], [r EXCEPT !.size = v]}
    BY <2>1, <2>2 DEF MenuKnown, MenuShapes
  <2>4. ItemShape(row) /\ row.media = r.media
    BY <2>1, <2>3 DEF ItemShape
  <2>5. UNCHANGED <<category, modifier, linked, editor, put, skewed>>
    BY <1>2 DEF PutItem, PutSize
  <2>6. QED
    BY <2>1, <2>3, <2>4, <2>5, ItemWritten
<1>3. QED
  BY <1>1, <1>2

LEMMA DeleteItemKnown ==
  ASSUME MenuKnown, NEW e \in Editors, NEW i \in Products, DeleteItem(e, i)
  PROVE  MenuKnown'
<1>1. /\ item' = [item EXCEPT ![i] = Gone] /\ linked' = {l \in linked : l[1] # i}
      /\ put' = [put EXCEPT ![i] = {}] /\ skewed' = skewed \ {i}
      /\ UNCHANGED <<category, modifier, editor>>
  BY DEF DeleteItem
<1>2. /\ item' = [j \in Products |-> item'[j]] /\ item'[i] = Gone
      /\ put' = [j \in Products |-> put'[j]] /\ put'[i] = {}
      /\ \A j \in Products \ {i} : item'[j] = item[j] /\ put'[j] = put[j]
  BY <1>1 DEF MenuKnown, MenuShapes
<1>3. \A j \in Products, n \in Modifiers : <<j, n>> \in linked' <=> <<j, n>> \in linked /\ j # i
  BY <1>1
<1>4. Links(i)' = {} /\ \A j \in Products \ {i} : Links(j)' = Links(j)
  BY <1>3 DEF Links
<1>5. \A j \in Products : AsPut(j)' /\ AsJudged(j)'
  BY <1>1, <1>2, <1>4 DEF MenuKnown, AsPut, AsJudged
<1>6. QED
  BY <1>1, <1>2, <1>3, <1>5 DEF MenuKnown, MenuShapes

\* A request reads, and has yet to write.
LEMMA EditRead ==
  ASSUME MenuKnown, NEW e \in Editors, NEW q, editor' = [editor EXCEPT ![e] = q],
         EditorKnows(q), UNCHANGED <<item, modifier, linked, put, skewed>>
  PROVE  MenuKnown'
<1>1. /\ editor' = [f \in Editors |-> editor'[f]]
      /\ \A f \in Editors : EditorKnows(editor'[f])
  BY EditorMoves
<1>2. QED
  BY <1>1 DEF MenuKnown, MenuShapes, AsPut, AsJudged, Links

LEMMA ReadsKnown ==
  ASSUME MenuKnown, NEW e \in Editors, NEW i \in Products,
         PutMediaRead(e, i) \/ PutModifiersRead(e, i)
  PROVE  MenuKnown'
<1>1. CASE PutMediaRead(e, i)
  <2>1. PICK body : /\ RowAccepted(body, item[i].media)
                    /\ Begun(e, [pc |-> "media", of |-> i, body |-> body, row |-> item[i].media])
                    /\ UNCHANGED <<category, item, modifier, linked, put, skewed>>
    BY <1>1 DEF PutMediaRead
  <2> DEFINE q == [pc |-> "media", of |-> i, body |-> body, row |-> item[i].media]
  <2>2. editor' = [editor EXCEPT ![e] = q]
    BY <2>1 DEF Begun
  <2>3. EditorKnows(q)
    BY <2>1 DEF EditorKnows, RowAccepted
  <2> HIDE DEF q
  <2>4. QED
    BY <2>1, <2>2, <2>3, EditRead
<1>2. CASE PutModifiersRead(e, i)
  <2>1. PICK ids \in SUBSET Modifiers :
          /\ Begun(e, [pc |-> "links", of |-> i, ids |-> ids, row |-> Links(i)])
          /\ UNCHANGED <<category, item, modifier, linked, put, skewed>>
    BY <1>2 DEF PutModifiersRead
  <2> DEFINE q == [pc |-> "links", of |-> i, ids |-> ids, row |-> Links(i)]
  <2>2. editor' = [editor EXCEPT ![e] = q]
    BY <2>1 DEF Begun
  <2>3. EditorKnows(q)
    BY <2>1 DEF EditorKnows
  <2> HIDE DEF q
  <2>4. QED
    BY <2>1, <2>2, <2>3, EditRead
<1>3. QED
  BY <1>1, <1>2

\* The columns that differ are written into the row that was read: the whole is
\* the row that was judged.
LEMMA WrittenAsMerged ==
  ASSUME NEW body, NEW row
  PROVE  [f \in DOMAIN row |-> IF f \in Changes(body, row) THEN body[f] ELSE row[f]]
           = Merged(body, row)
BY DEF Changes, Merged

LEMMA PutMediaWriteKnown ==
  ASSUME MenuKnown, NEW e \in Editors, PutMediaWrite(e)
  PROVE  MenuKnown'
<1>1. PICK q : q = editor[e]
  OBVIOUS
<1>2. /\ q.pc = "media" /\ q.of \in Products /\ MediaValid(Merged(q.body, q.row))
      /\ editor' = [editor EXCEPT ![e] = IdleEditor]
      /\ UNCHANGED <<category, modifier, linked, put>>
  BY <1>1 DEF PutMediaWrite, EditEnd, MenuKnown, EditorKnows
<1>3. CASE item[q.of] = Gone
  BY <1>1, <1>2, <1>3, IdleEditorKnows, EditRead DEF PutMediaWrite
<1>4. CASE item[q.of] # Gone
  <2>1. PICK r, i : r = item[q.of] /\ i = q.of /\ ItemShape(r)
    BY <1>2, <1>4 DEF MenuKnown, MenuShapes
  <2>2. PICK media : media = [f \in DOMAIN r.media |->
                                IF f \in Changes(q.body, q.row) THEN q.body[f] ELSE r.media[f]]
    OBVIOUS
  <2>3. /\ item' = [item EXCEPT ![i].media = media]
        /\ skewed' = IF r.media # q.row THEN skewed \cup {i} ELSE skewed
    BY <1>1, <1>4, <2>1, <2>2 DEF PutMediaWrite
  <2>4. PICK row : row = [r EXCEPT !.media = media]
    OBVIOUS
  <2>5. /\ item' = [j \in Products |-> item'[j]] /\ item'[i] = row
        /\ \A j \in Products \ {i} : item'[j] = item[j]
    BY <1>2, <2>1, <2>3, <2>4 DEF MenuKnown, MenuShapes
  <2>6. ItemShape(row) /\ row.media = media
    BY <2>1, <2>4 DEF ItemShape
  <2>7. i \in skewed' \/ MediaValid(media)
    BY <1>2, <2>2, <2>3, WrittenAsMerged
  <2>8. \A j \in Products : AsPut(j)' /\ AsJudged(j)'
    BY <1>2, <2>3, <2>5, <2>6, <2>7 DEF MenuKnown, AsPut, AsJudged, Links
  <2>9. /\ editor' = [f \in Editors |-> editor'[f]]
        /\ \A f \in Editors : EditorKnows(editor'[f])
    BY <1>2, IdleEditorKnows, EditorMoves
  <2>10. QED
    BY <1>2, <2>5, <2>6, <2>8, <2>9 DEF MenuKnown, MenuShapes
<1>5. QED
  BY <1>3, <1>4

LEMMA PutModifiersWriteKnown ==
  ASSUME MenuKnown, NEW e \in Editors, PutModifiersWrite(e)
  PROVE  MenuKnown'
<1>1. PICK q : q = editor[e]
  OBVIOUS
<1>2. /\ q.pc = "links" /\ q.of \in Products /\ q.ids \subseteq Modifiers
      /\ editor' = [editor EXCEPT ![e] = IdleEditor]
      /\ UNCHANGED <<category, item, modifier>>
  BY <1>1 DEF PutModifiersWrite, EditEnd, MenuKnown, EditorKnows
<1>3. CASE ~Relinkable(q)
  BY <1>1, <1>2, <1>3, IdleEditorKnows, EditRead DEF PutModifiersWrite
<1>4. CASE Relinkable(q)
  <2>1. /\ linked' = Relinked(q)
        /\ put' = [put EXCEPT ![q.of] = {m \in q.ids : modifier[m] # Gone}]
        /\ skewed' = IF Links(q.of) # q.row THEN skewed \cup {q.of} ELSE skewed
    BY <1>1, <1>4 DEF PutModifiersWrite
  <2>2. /\ put' = [j \in Products |-> put'[j]]
        /\ put'[q.of] = {m \in q.ids : modifier[m] # Gone}
        /\ \A j \in Products \ {q.of} : put'[j] = put[j]
    BY <1>2, <2>1 DEF MenuKnown, MenuShapes
  <2>3. \A m \in Modifiers :
          <<q.of, m>> \in linked' <=> \/ <<q.of, m>> \in linked /\ ~(m \in q.row /\ m \notin q.ids)
                                      \/ m \in q.ids /\ m \notin q.row
    BY <2>1 DEF Relinked
  <2>4. \A j \in Products \ {q.of}, m \in Modifiers : <<j, m>> \in linked' <=> <<j, m>> \in linked
    BY <2>1 DEF Relinked
  <2>5. \A i \in Products, m \in Modifiers : <<i, m>> \in linked' => modifier[m] # Gone
    BY <1>4, <2>3, <2>4 DEF MenuKnown, Relinkable
  <2>6. \A j \in Products \ {q.of} : Links(j)' = Links(j)
    BY <2>4 DEF Links
  <2>7. Links(q.of) = q.row => Links(q.of)' = put'[q.of]
    <3>1. SUFFICES ASSUME Links(q.of) = q.row
                   PROVE  \A m \in Modifiers : <<q.of, m>> \in linked' <=> m \in put'[q.of]
      BY <1>2, <2>2 DEF Links
    <3>2. \A m \in Modifiers : m \in q.row <=> <<q.of, m>> \in linked
      BY <3>1 DEF Links
    <3>3. \A m \in Modifiers : <<q.of, m>> \in linked' <=> m \in q.ids
      BY <2>3, <3>2
    <3>4. \A m \in q.ids : modifier[m] # Gone
      BY <1>2, <2>5, <3>3
    <3>5. QED
      BY <2>2, <3>3, <3>4
  <2>8. \A j \in Products : AsPut(j)' /\ AsJudged(j)'
    BY <1>2, <2>1, <2>2, <2>6, <2>7 DEF MenuKnown, AsPut, AsJudged
  <2>9. /\ editor' = [f \in Editors |-> editor'[f]]
        /\ \A f \in Editors : EditorKnows(editor'[f])
    BY <1>2, IdleEditorKnows, EditorMoves
  <2>10. QED
    BY <1>2, <2>2, <2>5, <2>8, <2>9 DEF MenuKnown, MenuShapes
<1>5. QED
  BY <1>3, <1>4

LEMMA AdminKnown ==
  ASSUME MenuKnown, AdminNext
  PROVE  MenuKnown'
BY CategoryKnown, ModifierKnown, ItemKnown, DeleteItemKnown, ReadsKnown, PutMediaWriteKnown,
   PutModifiersWriteKnown DEF AdminNext

\* The cart and the checkout look at less than the menu does.
LEMMA OfferedAddableSellable ==
  ASSUME NEW x
  PROVE  (Offered(x) => Addable(x)) /\ (Addable(x) => Sellable(x))
BY DEF Offered, Addable, Sellable

LEMMA AdminAndCustomer ==
  ASSUME CustomerKnows, AdminNext,
         customer' = IF /\ customer.pc \in {"chose", "added"}
                        /\ <<category, item, modifier, linked>>'
                             # <<category, item, modifier, linked>>
                     THEN [customer EXCEPT !.moved = TRUE] ELSE customer
  PROVE  CustomerKnows'
<1>1. CASE customer' = [customer EXCEPT !.moved = TRUE] /\ customer.pc \in {"chose", "added"}
  <2>1. PICK q : q = customer /\ q \in [pc : {q.pc}, x : {q.x}, moved : BOOLEAN]
    BY <1>1 DEF CustomerKnows
  <2>2. PICK r : r = [q EXCEPT !.moved = TRUE]
    OBVIOUS
  <2>3. r \in [pc : {r.pc}, x : {r.x}, moved : BOOLEAN] /\ r.pc = q.pc /\ r.moved
    BY <2>1, <2>2
  <2>4. customer' = r
    BY <1>1, <2>1, <2>2
  <2>5. QED
    BY <1>1, <2>1, <2>3, <2>4 DEF CustomerKnows
<1>2. CASE customer' = customer /\ customer.pc \notin {"chose", "added"}
  BY <1>2 DEF CustomerKnows
<1>3. CASE customer' = customer /\ UNCHANGED <<category, item, modifier, linked>>
  BY <1>3 DEF CustomerKnows, Offered, Addable, Links
<1>4. QED
  BY <1>1, <1>2, <1>3

LEMMA CustomerKnown ==
  ASSUME CustomerKnows, CustomerNext
  PROVE  CustomerKnows'
<1>1. UNCHANGED <<category, item, modifier, linked>>
  BY DEF CustomerNext
<1>2. ASSUME NEW x \in MenuChoices, Choose(x) PROVE CustomerKnows'
  <2>1. customer' = [pc |-> "chose", x |-> x, moved |-> FALSE] /\ Offered(x)
    BY <1>2 DEF Choose
  <2>2. Offered(x)'
    BY <1>1, <2>1 DEF Offered, Links
  <2>3. QED
    BY <2>1, <2>2 DEF CustomerKnows
<1>3. ASSUME NEW from, NEW to, customer.pc = from, from \in {"chose", "added"},
             to \in {"added", "sold", "refused"}, customer' = [customer EXCEPT !.pc = to],
             to = "added" => customer.moved \/ Addable(customer.x),
             to = "refused" => customer.moved
      PROVE  CustomerKnows'
  <2>1. PICK q : q = customer /\ q \in [pc : {q.pc}, x : {q.x}, moved : BOOLEAN]
    BY <1>3 DEF CustomerKnows
  <2>2. PICK r : r = [q EXCEPT !.pc = to]
    OBVIOUS
  <2>3. /\ r \in [pc : {r.pc}, x : {r.x}, moved : BOOLEAN]
        /\ r.pc = to /\ r.moved = q.moved /\ r.x = q.x
    BY <2>1, <2>2
  <2>4. customer' = r
    BY <1>3, <2>1, <2>2
  <2>5. to = "added" => q.moved \/ Addable(q.x)'
    BY <1>1, <1>3, <2>1 DEF Addable, Links
  <2>6. QED
    BY <1>3, <2>1, <2>3, <2>4, <2>5 DEF CustomerKnows
<1>4. CASE AddToCart
  BY <1>3, <1>4, OfferedAddableSellable DEF AddToCart, CustomerKnows
<1>5. CASE Order
  BY <1>3, <1>5, OfferedAddableSellable DEF Order, CustomerKnows
<1>6. QED
  BY <1>2, <1>4, <1>5 DEF CustomerNext

LEMMA CatalogueInitKnown == CatalogueInit => MenuKnown /\ CustomerKnows
<1> SUFFICES ASSUME CatalogueInit PROVE MenuKnown /\ CustomerKnows
  OBVIOUS
<1>1. PICK c : item = [i \in Products |-> NewItem(c)]
  BY DEF CatalogueInit
<1>2. \A i \in Products : Links(i) = {} /\ put[i] = {}
  BY DEF CatalogueInit, Links
<1>3. \A m \in Modifiers : modifier[m] # Gone
  BY CatalogueAssumption DEF CatalogueInit
<1>4. MenuKnown
  BY <1>1, <1>2, <1>3, NewItemIs, IdleEditorKnows
     DEF CatalogueInit, MenuKnown, MenuShapes, AsPut, AsJudged
<1>5. QED
  BY <1>4 DEF CatalogueInit, CustomerKnows

LEMMA CatalogueStepKnown ==
  MenuKnown /\ CustomerKnows /\ [CatalogueNext]_menuVars => MenuKnown' /\ CustomerKnows'
<1> SUFFICES ASSUME MenuKnown, CustomerKnows, [CatalogueNext]_menuVars
             PROVE  MenuKnown' /\ CustomerKnows'
  OBVIOUS
<1>1. CASE AdminNext /\ customer' = IF /\ customer.pc \in {"chose", "added"}
                                       /\ <<category, item, modifier, linked>>'
                                            # <<category, item, modifier, linked>>
                                    THEN [customer EXCEPT !.moved = TRUE] ELSE customer
  BY <1>1, AdminKnown, AdminAndCustomer
<1>2. CASE CustomerNext
  <2>1. UNCHANGED <<category, item, modifier, linked, editor, put, skewed>>
    BY <1>2 DEF CustomerNext
  <2>2. QED
    BY <1>2, <2>1, CustomerKnown DEF MenuKnown, MenuShapes, AsPut, AsJudged, Links
<1>3. CASE UNCHANGED menuVars
  BY <1>3 DEF menuVars, MenuKnown, MenuShapes, AsPut, AsJudged, Links, CustomerKnows,
              Offered, Addable
<1>4. QED
  BY <1>1, <1>2, <1>3 DEF CatalogueNext

\* menu_public.py, cart.py and stop_list.py judge a choice each in its own way:
\* for any menu and any edits, a customer is refused what he was offered only
\* if the menu changed under his hands.
THEOREM OfferKept == CatalogueSpec => []OfferedIsSold
<1>1. CustomerKnows => OfferedIsSold
  BY DEF CustomerKnows, OfferedIsSold
<1>2. QED
  BY <1>1, CatalogueInitKnown, CatalogueStepKnown, PTL DEF CatalogueSpec

\* menu_admin.py writes the columns, and the links, that differ from what it
\* has read: for any number of overlapping edits, an item is as its last edit
\* asked for, unless two of them overlapped in what they wrote.
THEOREM EditsLeaveValidItems == CatalogueSpec => []ItemAsEdited
<1>1. MenuKnown => ItemAsEdited
  BY DEF MenuKnown, AsPut, AsJudged, ItemAsEdited
<1>2. QED
  BY <1>1, CatalogueInitKnown, CatalogueStepKnown, PTL DEF CatalogueSpec

-----------------------------------------------------------------------------
(* The addresses of a customer, for any addresses and callers.             *)
(* There is one default, and it is the one last asked for: the rows that   *)
(* a request demotes never include the one it is about to promote.         *)

\* The default that a request demotes is not the address it makes the default.
CallerKnows(q) ==
  q.pc \in {"select", "flush", "promote"} =>
    /\ q \in [pc : {q.pc}, place : {q.place}, was : {q.was}, old : {q.old}]
    /\ q.place \in Places /\ q.place \notin q.old

AddressesInv ==
  /\ address = [a \in Places |-> address[a]] /\ caller = [c \in Callers |-> caller[c]]
  /\ \A c \in Callers : caller[c].pc \in {"idle", "select", "flush", "promote"}
  /\ \A c \in Callers : CallerKnows(caller[c])
  /\ \A a, b \in Defaults : a = b
  /\ raced \/ Defaults = {chosen} \ {NoPlace}

LEMMA NoTwoInOne ==
  ASSUME NEW S, IsFiniteSet(S), Cardinality(S) <= 1, NEW a \in S, NEW b \in S
  PROVE  a = b
<1>1. IsFiniteSet(S \ {a}) /\ Cardinality(S \ {a}) = Cardinality(S) - 1
  BY FS_RemoveElement
<1>2. Cardinality(S) \in Nat /\ Cardinality(S \ {a}) \in Nat
  BY <1>1, FS_CardinalityType
<1>3. Cardinality(S \ {a}) = 0
  BY <1>1, <1>2
<1>4. QED
  BY <1>1, <1>3, FS_EmptySet

LEMMA IdleCallerKnows == IdleCaller.pc = "idle" /\ CallerKnows(IdleCaller)
BY DEF IdleCaller, CallerKnows

LEMMA AddressesInitKnown == AddressesInit => AddressesInv
<1> SUFFICES ASSUME AddressesInit PROVE AddressesInv
  OBVIOUS
<1>1. /\ address = [a \in Places |-> "none"] /\ caller = [c \in Callers |-> IdleCaller]
      /\ chosen = NoPlace
  BY DEF AddressesInit
<1>2. Defaults = {}
  BY <1>1 DEF Defaults
<1>3. QED
  BY <1>1, <1>2, IdleCallerKnows DEF AddressesInv

\* A row that stops being there, or the default, leaves the others as they are.
LEMMA RowWritten ==
  ASSUME AddressesInv, NEW a \in Places, NEW look \in {"none", "plain"},
         address' = [address EXCEPT ![a] = look],
         chosen' = IF chosen = a THEN NoPlace ELSE chosen, UNCHANGED <<caller, raced>>
  PROVE  AddressesInv'
<1>1. /\ address' = [b \in Places |-> address'[b]] /\ address'[a] # "default"
      /\ \A b \in Places \ {a} : address'[b] = address[b]
  BY DEF AddressesInv
<1>2. Defaults' = Defaults \ {a}
  BY <1>1 DEF Defaults
<1>3. raced' \/ Defaults' = {chosen'} \ {NoPlace}
  <2>1. CASE chosen = a
    BY <1>2, <2>1 DEF AddressesInv
  <2>2. CASE chosen # a
    BY <1>2, <2>2 DEF AddressesInv
  <2>3. QED
    BY <2>1, <2>2
<1>4. QED
  BY <1>1, <1>2, <1>3 DEF AddressesInv

\* A request moves on, or fails, and writes nothing.
LEMMA CallerMoves ==
  ASSUME AddressesInv, NEW c \in Callers, NEW q, caller' = [caller EXCEPT ![c] = q],
         q.pc \in {"idle", "select", "flush", "promote"}, CallerKnows(q),
         UNCHANGED <<address, chosen, raced>>
  PROVE  AddressesInv'
<1>1. /\ caller' = [d \in Callers |-> caller'[d]] /\ caller'[c] = q
      /\ \A d \in Callers \ {c} : caller'[d] = caller[d]
  BY DEF AddressesInv
<1>2. Defaults' = Defaults
  BY DEF Defaults
<1>3. QED
  BY <1>1, <1>2 DEF AddressesInv

LEMMA CallerReads ==
  ASSUME AddressesInv, NEW c \in Callers, NEW a \in Places, GetOwned(c, a) \/ SelectDefault(c)
  PROVE  AddressesInv'
<1>1. CASE GetOwned(c, a)
  <2> DEFINE q == [IdleCaller EXCEPT !.pc = "select", !.place = a, !.was = address[a]]
  <2>1. caller' = [caller EXCEPT ![c] = q] /\ UNCHANGED <<address, chosen, raced>>
    BY <1>1 DEF GetOwned
  <2>2. q.pc = "select" /\ CallerKnows(q)
    BY DEF IdleCaller, CallerKnows
  <2> HIDE DEF q
  <2>3. QED
    BY <2>1, <2>2, CallerMoves
<1>2. CASE SelectDefault(c)
  <2>1. PICK p : p = caller[c]
    OBVIOUS
  <2>2. p \in [pc : {p.pc}, place : {p.place}, was : {p.was}, old : {p.old}] /\ p.place \in Places
    BY <1>2, <2>1 DEF SelectDefault, AddressesInv, CallerKnows
  <2> DEFINE q == [p EXCEPT !.pc = "flush", !.old = Defaults \ {p.place}]
  <2>3. caller' = [caller EXCEPT ![c] = q] /\ UNCHANGED <<address, chosen, raced>>
    BY <1>2, <2>1 DEF SelectDefault, AddressesInv
  <2>4. /\ q.pc = "flush" /\ q.place = p.place /\ q.was = p.was /\ q.old = Defaults \ {p.place}
        /\ q \in [pc : {q.pc}, place : {q.place}, was : {q.was}, old : {q.old}]
    BY <2>2
  <2> HIDE DEF q
  <2>5. CallerKnows(q)
    BY <2>2, <2>4 DEF CallerKnows
  <2>6. QED
    BY <2>3, <2>4, <2>5, CallerMoves
<1>3. QED
  BY <1>1, <1>2

LEMMA FailKnown ==
  ASSUME AddressesInv, NEW c \in Callers, Fail(c)
  PROVE  AddressesInv'
BY IdleCallerKnows, CallerMoves DEF Fail

LEMMA FlushKnown ==
  ASSUME AddressesInv, NEW c \in Callers, FlushDemotion(c)
  PROVE  AddressesInv'
<1>1. CASE Fail(c)
  BY <1>1, FailKnown
<1>2. CASE /\ caller' = [caller EXCEPT ![c].pc = "promote"]
           /\ UNCHANGED <<address, chosen, raced>>
  <2>1. PICK p : p = caller[c]
    OBVIOUS
  <2>2. /\ p \in [pc : {p.pc}, place : {p.place}, was : {p.was}, old : {p.old}]
        /\ p.place \in Places /\ p.place \notin p.old
    BY <2>1 DEF FlushDemotion, AddressesInv, CallerKnows
  <2> DEFINE q == [p EXCEPT !.pc = "promote"]
  <2>3. caller' = [caller EXCEPT ![c] = q]
    BY <1>2, <2>1 DEF AddressesInv
  <2>4. /\ q.pc = "promote" /\ q.place = p.place /\ q.old = p.old
        /\ q \in [pc : {q.pc}, place : {q.place}, was : {q.was}, old : {q.old}]
    BY <2>2
  <2> HIDE DEF q
  <2>5. CallerKnows(q)
    BY <2>2, <2>4 DEF CallerKnows
  <2>6. QED
    BY <1>2, <2>3, <2>4, <2>5, CallerMoves
<1>3. QED
  BY <1>1, <1>2 DEF FlushDemotion

\* The unique index leaves one default, and that is the one asked for, unless
\* its row is not as it was read.
LEMMA PromoteKnown ==
  ASSUME AddressesInv, NEW c \in Callers, PromoteAndCommit(c)
  PROVE  AddressesInv'
<1>1. PICK q : q = caller[c]
  OBVIOUS
<1>2. q.pc = "promote" /\ q.place \in Places /\ q.place \notin q.old
  BY <1>1 DEF PromoteAndCommit, AddressesInv, CallerKnows
<1>3. CASE Fail(c)
  BY <1>3, FailKnown
<1>4. CASE /\ NoSecondDefault(Promoted(q)) /\ address' = Promoted(q) /\ chosen' = q.place
           /\ raced' = (raced \/ q.was # address[q.place])
           /\ caller' = [caller EXCEPT ![c] = IdleCaller]
  <2>1. /\ caller' = [d \in Callers |-> caller'[d]] /\ caller'[c] = IdleCaller
        /\ \A d \in Callers \ {c} : caller'[d] = caller[d]
    BY <1>4 DEF AddressesInv
  <2>2. address' = [a \in Places |-> address'[a]]
    BY <1>4 DEF Promoted
  <2>3. Cardinality(Defaults') <= 1 /\ IsFiniteSet(Defaults')
    <3>1. Defaults' = {a \in Places : Promoted(q)[a] = "default"}
      BY <1>4 DEF Defaults
    <3>2. IsFiniteSet({a \in Places : Promoted(q)[a] = "default"})
      BY AddressesAssumption, FS_Subset
    <3>3. QED
      BY <1>4, <3>1, <3>2 DEF NoSecondDefault
  <2>4. \A a, b \in Defaults' : a = b
    BY <2>3, NoTwoInOne
  <2>5. raced' \/ Defaults' = {chosen'} \ {NoPlace}
    <3>1. SUFFICES ASSUME q.was = address[q.place] PROVE Defaults' = {q.place} \ {NoPlace}
      BY <1>4
    <3>2. address'[q.place] = "default"
      BY <1>2, <1>4, <3>1 DEF Promoted
    <3>3. q.place \in Defaults'
      BY <1>2, <3>2 DEF Defaults
    <3>4. Defaults' = {q.place}
      BY <2>4, <3>3
    <3>5. QED
      BY <1>2, <3>4, AddressesAssumption
  <2>6. \A d \in Callers : /\ caller'[d].pc \in {"idle", "select", "flush", "promote"}
                           /\ CallerKnows(caller'[d])
    BY <2>1, IdleCallerKnows DEF AddressesInv
  <2>7. QED
    BY <2>1, <2>2, <2>4, <2>5, <2>6 DEF AddressesInv
<1>5. QED
  BY <1>1, <1>3, <1>4 DEF PromoteAndCommit

LEMMA AddressesStepKnown == AddressesInv /\ [AddressesNext]_addressVars => AddressesInv'
<1> SUFFICES ASSUME AddressesInv, [AddressesNext]_addressVars PROVE AddressesInv'
  OBVIOUS
<1>1. ASSUME NEW a \in Places, PutPlain(a) \/ DeleteAddress(a) PROVE AddressesInv'
  BY <1>1, RowWritten DEF PutPlain, DeleteAddress
<1>2. ASSUME NEW c \in Callers,
             \/ \E a \in Places : GetOwned(c, a)
             \/ FlushDemotion(c) \/ PromoteAndCommit(c) \/ DeadlockDetected(c)
      PROVE  AddressesInv'
  BY <1>2, CallerReads, FlushKnown, PromoteKnown, FailKnown DEF DeadlockDetected
<1>3. ASSUME NEW c \in Callers, SelectDefault(c) PROVE AddressesInv'
  <2>1. \E a : a \in Places
    BY <1>3 DEF SelectDefault, AddressesInv, CallerKnows
  <2>2. QED
    BY <1>3, <2>1, CallerReads
<1>4. CASE UNCHANGED addressVars
  <2>1. Defaults' = Defaults
    BY <1>4 DEF addressVars, Defaults
  <2>2. QED
    BY <1>4, <2>1 DEF addressVars, AddressesInv
<1>5. QED
  BY <1>1, <1>2, <1>3, <1>4 DEF AddressesNext

\* For any addresses and overlapping requests: never two defaults, and the
\* default is the one that the last successful request asked for or left, but
\* for a request that had read its own row before another changed it
\* (_demote_current_default, and the partial unique index).
THEOREM DefaultKept == AddressesSpec => []DefaultAsAsked
<1>1. AddressesInv => DefaultAsAsked
  <2> SUFFICES ASSUME AddressesInv PROVE Cardinality(Defaults) <= 1
    BY DEF AddressesInv, DefaultAsAsked
  <2>1. CASE Defaults = {}
    BY <2>1, FS_EmptySet
  <2>2. ASSUME NEW a \in Defaults PROVE Cardinality(Defaults) <= 1
    <3>1. Defaults = {a}
      BY DEF AddressesInv
    <3>2. QED
      BY <3>1, FS_Singleton
  <2>3. QED
    BY <2>1, <2>2
<1>2. QED
  BY <1>1, AddressesInitKnown, AddressesStepKnown, PTL DEF AddressesSpec

-----------------------------------------------------------------------------
(* The soonest slot, for any hours, clock, lead and length of a day.       *)
(* An opening within 24 hours is one of today or of tomorrow before this   *)
(* time of day, so that the first of the two is the nearest.               *)

DayOf(t) == t \div Day

LEMMA DivBounds ==
  ASSUME NEW n \in Nat, NEW m \in Nat \ {0}
  PROVE  n \div m \in Nat /\ (n \div m) * m <= n /\ n < (n \div m) * m + m
OBVIOUS

LEMMA NextMultiple == ASSUME NEW n \in Nat, NEW m \in Nat PROVE (n + 1) * m = n * m + m
OBVIOUS

LEMMA MultiplesGrow ==
  ASSUME NEW n \in Nat, NEW k \in Nat, NEW m \in Nat, n <= k
  PROVE  n * m \in Nat /\ k * m \in Nat /\ n * m <= k * m
OBVIOUS

LEMMA WithinDay ==
  ASSUME NEW t \in Nat
  PROVE  /\ DayOf(t) \in Nat /\ Midnight(t) \in Nat /\ Midnight(t) = DayOf(t) * Day
         /\ Midnight(t) <= t /\ t < Midnight(t) + Day
<1>1. Day \in Nat \ {0}
  BY SlotsAssumption
<1>2. t \div Day \in Nat /\ (t \div Day) * Day <= t /\ t < (t \div Day) * Day + Day
  BY <1>1, DivBounds
<1>3. (t \div Day) * Day \in Nat
  BY <1>1, <1>2, MultiplesGrow
<1>4. QED
  BY <1>2, <1>3 DEF DayOf, Midnight

LEMMA DayIs ==
  ASSUME NEW t \in Nat, NEW d \in Nat, d * Day <= t, t < d * Day + Day
  PROVE  DayOf(t) = d
<1>0. PICK q : q = DayOf(t)
  OBVIOUS
<1>1. q \in Nat /\ q * Day <= t /\ t < q * Day + Day
  BY <1>0, WithinDay
<1>2. Day \in Nat \ {0} /\ d * Day \in Nat /\ q * Day \in Nat
  BY <1>1, SlotsAssumption, MultiplesGrow
<1>3. (d + 1) * Day = d * Day + Day /\ (q + 1) * Day = q * Day + Day
  BY <1>1, <1>2, NextMultiple
<1>4. ~(d + 1 <= q)
  <2>1. SUFFICES ASSUME d + 1 <= q PROVE FALSE
    OBVIOUS
  <2>2. (d + 1) * Day <= q * Day
    BY <1>1, <1>2, <2>1, MultiplesGrow
  <2>3. QED
    BY <1>1, <1>2, <1>3, <2>2
<1>5. ~(q + 1 <= d)
  <2>1. SUFFICES ASSUME q + 1 <= d PROVE FALSE
    OBVIOUS
  <2>2. (q + 1) * Day <= d * Day
    BY <1>1, <1>2, <2>1, MultiplesGrow
  <2>3. QED
    BY <1>1, <1>2, <1>3, <2>2
<1>6. QED
  BY <1>0, <1>1, <1>4, <1>5

LEMMA RestOf == ASSUME NEW n \in Nat, NEW m \in Nat \ {0} PROVE n % m \in 0..(m - 1)
OBVIOUS

SlotsKnown == clock \in Nat /\ hours \in Schedules /\ AsapIsNearest

\* The hours of a day, and its opening.
LEMMA OpeningKnown ==
  ASSUME NEW t \in Nat, hours \in Schedules
  PROVE  /\ HoursOf(t).open \in 0..(Day - 1) /\ OpeningOn(t) \in Nat
         /\ Midnight(t) <= OpeningOn(t) /\ OpeningOn(t) < Midnight(t) + Day
         /\ DayOf(OpeningOn(t)) = DayOf(t)
<1>1. Day \in Nat \ {0} /\ Week \in Nat \ {0}
  BY SlotsAssumption
<1>2. DayOf(t) % Week \in 0..(Week - 1)
  BY <1>1, WithinDay, RestOf
<1>3. hours \in [0..(Week - 1) -> [open : 0..(Day - 1), close : 0..(Day - 1)]]
  BY SlotsAssumption
<1>4. HoursOf(t) \in [open : 0..(Day - 1), close : 0..(Day - 1)]
  BY <1>2, <1>3 DEF HoursOf, DayOf
<1>5. HoursOf(t).open \in 0..(Day - 1)
  BY <1>4
<1>6. /\ OpeningOn(t) \in Nat /\ Midnight(t) <= OpeningOn(t) /\ Midnight(t) \in Nat
      /\ OpeningOn(t) < Midnight(t) + Day
  <2>1. Midnight(t) \in Nat
    BY WithinDay
  <2>2. OpeningOn(t) = Midnight(t) + HoursOf(t).open
    BY DEF OpeningOn
  <2>3. QED
    BY <1>1, <1>5, <2>1, <2>2
<1>7. DayOf(OpeningOn(t)) = DayOf(t)
  BY <1>6, WithinDay, DayIs
<1>8. QED
  BY <1>5, <1>6, <1>7

\* Two moments of one day open at the same time.
LEMMA OneDay ==
  ASSUME NEW t, NEW s, DayOf(t) = DayOf(s)
  PROVE  HoursOf(t) = HoursOf(s) /\ OpeningOn(t) = OpeningOn(s)
BY DEF DayOf, HoursOf, OpeningOn, Midnight

LEMMA Tomorrow ==
  ASSUME NEW t \in Nat
  PROVE  DayOf(t + Day) = DayOf(t) + 1 /\ Midnight(t + Day) = Midnight(t) + Day
<1>1. Day \in Nat \ {0} /\ t + Day \in Nat
  BY SlotsAssumption
<1>2. /\ DayOf(t) \in Nat /\ Midnight(t) \in Nat /\ Midnight(t) = DayOf(t) * Day
      /\ Midnight(t) <= t /\ t < Midnight(t) + Day
  BY WithinDay
<1>3. (DayOf(t) + 1) * Day = Midnight(t) + Day
  BY <1>1, <1>2, NextMultiple
<1>4. DayOf(t + Day) = DayOf(t) + 1
  BY <1>1, <1>2, <1>3, DayIs
<1>5. QED
  BY <1>1, <1>3, <1>4, WithinDay

\* The coming 24 hours are the rest of today and the same time of tomorrow.
LEMMA TodayOrTomorrow ==
  ASSUME NEW c \in Nat, NEW t \in c..(c + Day)
  PROVE  DayOf(t) = DayOf(c) \/ (DayOf(t) = DayOf(c + Day) /\ Midnight(t) = Midnight(c) + Day)
<1>1. Day \in Nat \ {0} /\ t \in Nat
  BY SlotsAssumption
<1>2. /\ DayOf(c) \in Nat /\ Midnight(c) \in Nat /\ Midnight(c) = DayOf(c) * Day
      /\ Midnight(c) <= c /\ c < Midnight(c) + Day
  BY WithinDay
<1>3. CASE t < Midnight(c) + Day
  <2>1. DayOf(c) * Day <= t /\ t < DayOf(c) * Day + Day
    BY <1>1, <1>2, <1>3
  <2>2. QED
    BY <1>1, <1>2, <2>1, DayIs
<1>4. CASE Midnight(c) + Day <= t
  <2>1. /\ DayOf(c + Day) = DayOf(c) + 1 /\ Midnight(c + Day) = Midnight(c) + Day
        /\ (DayOf(c) + 1) * Day = Midnight(c) + Day
    BY <1>1, <1>2, Tomorrow, NextMultiple
  <2>2. DayOf(t) = DayOf(c) + 1
    BY <1>1, <1>2, <1>4, <2>1, DayIs
  <2>3. Midnight(t) = Midnight(c) + Day
    BY <1>1, <2>1, <2>2, WithinDay
  <2>4. QED
    BY <2>1, <2>2, <2>3
<1>5. QED
  BY <1>1, <1>2, <1>3, <1>4

\* _next_opening_within_24h finds the first of the coming openings, or there
\* are none.
LEMMA NextIsFirst ==
  ASSUME clock \in Nat, hours \in Schedules
  PROVE  IF NextOpening = NoSlot THEN Openings = {}
         ELSE NextOpening \in Openings /\ \A t \in Openings : NextOpening <= t
<1>1. PICK soon, next : soon = OpeningOn(clock) /\ next = OpeningOn(clock + Day)
  OBVIOUS
<1>2. /\ Day \in Nat \ {0} /\ clock + Day \in Nat
      /\ Midnight(clock) \in Nat /\ Midnight(clock) <= clock /\ clock < Midnight(clock) + Day
      /\ Midnight(clock + Day) = Midnight(clock) + Day
  <2>1. Day \in Nat \ {0} /\ clock + Day \in Nat
    BY SlotsAssumption
  <2>2. Midnight(clock) \in Nat /\ Midnight(clock) <= clock /\ clock < Midnight(clock) + Day
    BY WithinDay
  <2>3. Midnight(clock + Day) = Midnight(clock) + Day
    BY Tomorrow
  <2>4. QED
    BY <2>1, <2>2, <2>3
<1>3. /\ soon \in Nat /\ Midnight(clock) <= soon /\ soon < Midnight(clock) + Day
      /\ DayOf(soon) = DayOf(clock)
      /\ HoursOf(soon) = HoursOf(clock) /\ OpeningOn(soon) = soon
  BY <1>1, OpeningKnown, OneDay
<1>4. /\ next \in Nat /\ Midnight(clock) + Day <= next /\ DayOf(next) = DayOf(clock + Day)
      /\ HoursOf(next) = HoursOf(clock + Day) /\ OpeningOn(next) = next
  BY <1>1, <1>2, OpeningKnown, OneDay
<1>5. ASSUME NEW t \in Openings
      PROVE  \/ t = soon /\ OpeningToday
             \/ t = next /\ OpeningTomorrow
  <2>1. /\ t \in clock..(clock + Day) /\ Works(HoursOf(t)) /\ t = OpeningOn(t)
        /\ clock <= t /\ t <= clock + Day
    BY <1>2 DEF Openings
  <2>2. DayOf(t) = DayOf(clock) \/ DayOf(t) = DayOf(clock + Day)
    BY <2>1, TodayOrTomorrow
  <2>3. CASE DayOf(t) = DayOf(clock)
    <3>1. HoursOf(t) = HoursOf(clock) /\ OpeningOn(t) = OpeningOn(clock)
      BY <2>3, OneDay
    <3>2. QED
      BY <1>1, <2>1, <3>1 DEF OpeningToday
  <2>4. CASE DayOf(t) = DayOf(clock + Day)
    <3>1. HoursOf(t) = HoursOf(clock + Day) /\ OpeningOn(t) = OpeningOn(clock + Day)
      BY <2>4, OneDay
    <3>2. QED
      BY <1>1, <2>1, <3>1 DEF OpeningTomorrow
  <2>5. QED
    BY <2>2, <2>3, <2>4
<1>6. CASE OpeningToday
  <2>1. NextOpening = soon /\ soon # NoSlot
    BY <1>1, <1>3, <1>6 DEF NextOpening, NoSlot
  <2>2. soon \in clock..(clock + Day) /\ Works(HoursOf(soon))
    BY <1>1, <1>2, <1>3, <1>6 DEF OpeningToday
  <2>3. soon \in Openings
    BY <1>3, <2>2 DEF Openings
  <2>4. soon <= next /\ soon <= soon
    BY <1>2, <1>3, <1>4
  <2>5. QED
    BY <1>5, <2>1, <2>3, <2>4
<1>7. CASE ~OpeningToday /\ OpeningTomorrow
  <2>1. NextOpening = next /\ next # NoSlot
    BY <1>1, <1>4, <1>7 DEF NextOpening, NoSlot
  <2>2. next \in clock..(clock + Day) /\ Works(HoursOf(next))
    BY <1>1, <1>2, <1>4, <1>7 DEF OpeningTomorrow
  <2>3. next \in Openings /\ next <= next
    BY <1>4, <2>2 DEF Openings
  <2>4. QED
    BY <1>5, <1>7, <2>1, <2>3
<1>8. CASE ~OpeningToday /\ ~OpeningTomorrow
  <2>1. NextOpening = NoSlot
    BY <1>8 DEF NextOpening
  <2>2. QED
    BY <1>5, <1>8, <2>1
<1>9. QED
  BY <1>6, <1>7, <1>8

LEMMA LeadKnown == ASSUME NEW type PROVE Lead(type) \in Nat \ {0}
BY SlotsAssumption DEF Lead

\* What validate_time_slot answers, at the clock and the hours of its moment.
LEMMA AnswerKnown ==
  ASSUME clock \in Nat, hours \in Schedules, NEW type, NEW at \in {ASAP} \cup Nat,
         NEW slot, slot = TimeSlot(type, at), NEW lead, lead = Lead(type)
  PROVE  /\ at # ASAP => (slot # NoSlot => slot = at /\ at >= clock + Prep /\ WithinHours(at))
         /\ at = ASAP /\ slot = NoSlot => Openings = {} /\ ~WithinHours(clock + lead)
         /\ at = ASAP /\ slot # NoSlot =>
              \/ slot = clock + lead /\ WithinHours(clock + lead)
              \/ /\ ~WithinHours(clock + lead)
                 /\ slot - lead \in Openings
                 /\ \A t \in Openings : slot - lead <= t
<1>1. /\ lead \in Nat \ {0} /\ Prep \in Nat /\ Day \in Nat
      /\ \A t \in Openings : t \in Nat
  BY LeadKnown, SlotsAssumption DEF Openings
<1>2. CASE at # ASAP
  <2>1. slot # NoSlot => slot = at /\ at - clock >= Prep /\ WithinHours(at) /\ at \in Nat
    BY <1>1, <1>2 DEF TimeSlot, RequestedSlot
  <2>2. slot # NoSlot => slot = at /\ at >= clock + Prep /\ WithinHours(at)
    BY <1>1, <2>1
  <2>3. QED
    BY <1>2, <2>2
<1>3. CASE at = ASAP /\ WithinHours(clock + lead)
  <2>1. slot = clock + lead /\ slot # NoSlot
    BY <1>1, <1>3 DEF TimeSlot, AsapSlot, NoSlot
  <2>2. QED
    BY <1>3, <2>1
<1>4. CASE at = ASAP /\ ~WithinHours(clock + lead)
  <2>1. CASE NextOpening = NoSlot
    <3>1. slot = NoSlot /\ Openings = {}
      BY <1>4, <2>1, NextIsFirst DEF TimeSlot, AsapSlot
    <3>2. QED
      BY <1>4, <3>1
  <2>2. CASE NextOpening # NoSlot
    <3>1. PICK next : next = NextOpening /\ next \in Openings /\ \A t \in Openings : next <= t
      BY <2>2, NextIsFirst
    <3>2. slot = next + lead
      BY <1>4, <2>2, <3>1 DEF TimeSlot, AsapSlot
    <3>3. slot # NoSlot /\ slot - lead = next
      BY <1>1, <3>1, <3>2 DEF NoSlot
    <3>4. QED
      BY <1>4, <3>1, <3>3
  <2>3. QED
    BY <2>1, <2>2
<1>5. QED
  BY <1>2, <1>3, <1>4

LEMMA SlotsInitKnown == SlotsInit => SlotsKnown
BY SlotsAssumption DEF SlotsInit, SlotsKnown, NoAnswer, AsapIsNearest

LEMMA AskKnown ==
  ASSUME SlotsKnown, NEW type, NEW at \in {ASAP} \cup Nat, Ask(type, at)
  PROVE  SlotsKnown'
<1>1. PICK slot, lead : slot = TimeSlot(type, at) /\ lead = Lead(type)
  OBVIOUS
<1>2. /\ answer' = [at |-> at, slot |-> slot, lead |-> lead, asked |-> TRUE]
      /\ UNCHANGED <<clock, hours>> /\ clock \in Nat /\ hours \in Schedules
  BY <1>1 DEF Ask, SlotsKnown
<1>3. /\ answer'.at = at /\ answer'.slot = slot /\ answer'.lead = lead
      /\ Openings' = Openings /\ WithinHours(answer.at)' = WithinHours(at)
      /\ WithinHours(clock + answer.lead)' = WithinHours(clock + lead)
  BY <1>2 DEF Openings, HoursOf, OpeningOn, Midnight, WithinHours
<1>4. AsapIsNearest'
  <2>1. /\ at # ASAP => (slot # NoSlot => slot = at /\ at >= clock + Prep /\ WithinHours(at))
        /\ at = ASAP /\ slot = NoSlot => Openings = {} /\ ~WithinHours(clock + lead)
        /\ at = ASAP /\ slot # NoSlot =>
             \/ slot = clock + lead /\ WithinHours(clock + lead)
             \/ /\ ~WithinHours(clock + lead)
                /\ slot - lead \in Openings
                /\ \A t \in Openings : slot - lead <= t
    BY <1>1, <1>2, AnswerKnown
  <2>2. CASE at # ASAP
    BY <1>2, <1>3, <2>1, <2>2 DEF AsapIsNearest
  <2>3. CASE at = ASAP /\ slot = NoSlot
    BY <1>2, <1>3, <2>1, <2>3 DEF AsapIsNearest
  <2>4. CASE at = ASAP /\ slot # NoSlot
    BY <1>2, <1>3, <2>1, <2>4 DEF AsapIsNearest
  <2>5. QED
    BY <2>2, <2>3, <2>4
<1>5. QED
  BY <1>2, <1>4 DEF SlotsKnown

LEMMA SlotsStepKnown == SlotsKnown /\ [SlotsNext]_slotVars => SlotsKnown'
<1> SUFFICES ASSUME SlotsKnown, [SlotsNext]_slotVars PROVE SlotsKnown'
  OBVIOUS
<1>1. CASE TimePasses \/ PutHours
  <2>1. answer'.asked = FALSE /\ clock' \in Nat /\ hours' \in Schedules
    BY <1>1 DEF TimePasses, PutHours, NoAnswer, SlotsKnown
  <2>2. QED
    BY <2>1 DEF SlotsKnown, AsapIsNearest
<1>2. ASSUME NEW type, NEW at \in {ASAP} \cup 0..(LastTick + Day), Ask(type, at)
      PROVE  SlotsKnown'
  <2>1. at \in {ASAP} \cup Nat
    BY SlotsAssumption
  <2>2. QED
    BY <1>2, <2>1, AskKnown
<1>3. CASE UNCHANGED slotVars
  <2>1. /\ answer' = answer /\ clock' = clock /\ hours' = hours
        /\ Openings' = Openings /\ \A t : WithinHours(t)' <=> WithinHours(t)
    BY <1>3 DEF slotVars, Openings, HoursOf, OpeningOn, Midnight, WithinHours
  <2>2. QED
    BY <2>1 DEF SlotsKnown, AsapIsNearest
<1>4. QED
  BY <1>1, <1>2, <1>3 DEF SlotsNext

\* working_hours.py, validate_time_slot, for any hours, leads and length of a
\* day: the answer is now plus the lead when the hours allow that, else the
\* lead after the very next opening, and a refusal means that neither exists.
THEOREM NearestSlotGiven == SlotsSpec => []AsapIsNearest
<1>1. SlotsKnown => AsapIsNearest
  BY DEF SlotsKnown
<1>2. QED
  BY <1>1, SlotsInitKnown, SlotsStepKnown, PTL DEF SlotsSpec

-----------------------------------------------------------------------------
(* The lookups of an address, for any texts, lookups and threshold.        *)
(* A date past its threshold is in the set of the dates warned about, or   *)
(* some lookup is between its count and its warning, or died there.        *)

Fine == {"street", "number", "exact"}

LookupKnows(q) ==
  /\ q.pc = "call" => q = [pc |-> "call", text |-> q.text]
  /\ q.pc \in Upstream => q.pc \in Fine
  /\ q.pc = "warn" => q.day \in Days

\* A date that is past its threshold has been warned about, or a request is on
\* its way to do so, or one died on it.
DateKnows(d) ==
  /\ warnings[d] = IF d \in warnedKey THEN 1 ELSE 0
  /\ dayCount[d] >= WarnAt =>
       \/ d \in warnedKey \cup abandoned
       \/ \E k \in Lookups : lookup[k].pc = "warn" /\ lookup[k].day = d

MapsInv ==
  /\ today \in Days /\ answered \subseteq Fine
  /\ lookup = [k \in Lookups |-> lookup[k]] /\ cached = [t \in Texts |-> cached[t]]
  /\ dayCount \in [Days -> Nat] /\ warnings \in [Days -> Nat]
  /\ \A t \in Texts : cached[t] = NotCached \/ cached[t].precision \in Fine
  /\ \A k \in Lookups : LookupKnows(lookup[k])
  /\ \A d \in Days : DateKnows(d)

LEMMA FinePrecision ==
  ASSUME NEW p, ~LowPrecision(p)
  PROVE  p \in Fine
<1>1. PICK i \in 4..6 : Precisions[i] = p
  BY DEF LowPrecision
<1>2. i = 4 \/ i = 5 \/ i = 6
  BY <1>1
<1>3. Precisions[4] = "street" /\ Precisions[5] = "number" /\ Precisions[6] = "exact"
  BY DEF Precisions
<1>4. QED
  BY <1>1, <1>2, <1>3 DEF Fine

LEMMA MapsInitKnown == MapsInit => MapsInv
<1> SUFFICES ASSUME MapsInit PROVE MapsInv
  OBVIOUS
<1>1. /\ today = 1 /\ cached = [t \in Texts |-> NotCached]
      /\ dayCount = [d \in Days |-> 0] /\ warnedKey = {}
      /\ lookup = [k \in Lookups |-> IdleLookup]
      /\ answered = {} /\ warnings = [d \in Days |-> 0]
  BY DEF MapsInit
<1>2. today \in Days
  BY <1>1, MapsAssumption DEF Days
<1>3. LookupKnows(IdleLookup)
  BY DEF LookupKnows, IdleLookup, Upstream
<1>4. \A d \in Days : DateKnows(d)
  BY <1>1, MapsAssumption DEF DateKnows
<1>5. QED
  BY <1>1, <1>2, <1>3, <1>4 DEF MapsInv

\* A request moves on without touching the counters.
LEMMA LookupMoves ==
  ASSUME MapsInv, NEW k \in Lookups, NEW q, lookup' = [lookup EXCEPT ![k] = q], LookupKnows(q),
         lookup[k].pc # "warn", UNCHANGED <<today, dayCount, warnedKey, warnings, abandoned>>,
         answered' \subseteq Fine, cached' = [t \in Texts |-> cached'[t]],
         \A t \in Texts : cached'[t] = cached[t] \/ cached'[t].precision \in Fine
  PROVE  MapsInv'
<1>1. /\ lookup' = [j \in Lookups |-> lookup'[j]] /\ lookup'[k] = q
      /\ \A j \in Lookups \ {k} : lookup'[j] = lookup[j]
  BY DEF MapsInv
<1>2. \A j \in Lookups : LookupKnows(lookup'[j])
  BY <1>1 DEF MapsInv
<1>3. ASSUME NEW d \in Days PROVE DateKnows(d)'
  <2>1. DateKnows(d)
    BY DEF MapsInv
  <2>2. \A j \in Lookups : lookup[j].pc = "warn" => lookup'[j] = lookup[j]
    BY <1>1
  <2>3. QED
    BY <2>1, <2>2 DEF DateKnows
<1>4. \A t \in Texts : cached'[t] = NotCached \/ cached'[t].precision \in Fine
  BY DEF MapsInv
<1>5. QED
  BY <1>1, <1>2, <1>3, <1>4 DEF MapsInv

LEMMA IdleLookupKnows == LookupKnows(IdleLookup) /\ IdleLookup.pc = "idle"
BY DEF LookupKnows, IdleLookup, Upstream

LEMMA StartLookupKnown == ASSUME MapsInv, NEW k \in Lookups, StartLookup(k) PROVE MapsInv'
<1>1. PICK t \in Texts :
        /\ lookup[k].pc = "idle"
        /\ IF cached[t].until >= today
           THEN answered' = answered \cup {cached[t].precision} /\ UNCHANGED lookup
           ELSE LookupTo(k, [pc |-> "call", text |-> t]) /\ UNCHANGED answered
        /\ UNCHANGED <<today, cached, dayCount, warnedKey, warnings, abandoned>>
  BY DEF StartLookup
<1>2. cached' = [s \in Texts |-> cached'[s]]
  BY <1>1 DEF MapsInv
<1>3. CASE cached[t].until >= today
  <2>1. answered' = answered \cup {cached[t].precision} /\ UNCHANGED lookup
    BY <1>1, <1>3
  <2>2. today >= 1 /\ NotCached.until = 0
    BY DEF MapsInv, Days, NotCached
  <2>3. cached[t].precision \in Fine
    BY <1>3, <2>2 DEF MapsInv, Days
  <2>4. answered' \subseteq Fine
    BY <2>1, <2>3 DEF MapsInv
  <2>5. \A d \in Days : DateKnows(d)'
    BY <1>1, <2>1 DEF MapsInv, DateKnows
  <2>6. QED
    BY <1>1, <1>2, <2>1, <2>4, <2>5 DEF MapsInv
<1>4. CASE ~(cached[t].until >= today)
  <2> DEFINE q == [pc |-> "call", text |-> t]
  <2>1. LookupKnows(q) /\ lookup' = [lookup EXCEPT ![k] = q] /\ answered' = answered
    BY <1>1, <1>4 DEF LookupKnows, LookupTo, Upstream
  <2>2. answered' \subseteq Fine
    BY <2>1 DEF MapsInv
  <2> HIDE DEF q
  <2>3. QED
    BY <1>1, <1>2, <2>1, <2>2, LookupMoves
<1>5. QED
  BY <1>3, <1>4

LEMMA StartSuggestKnown == ASSUME MapsInv, NEW k \in Lookups, StartSuggest(k) PROVE MapsInv'
<1>1. lookup[k].pc = "idle" /\ lookup' = [lookup EXCEPT ![k] = [pc |-> "count"]]
      /\ UNCHANGED <<today, cached, dayCount, warnedKey, answered, warnings, abandoned>>
  BY DEF StartSuggest, LookupTo
<1>2. LookupKnows([pc |-> "count"])
  BY DEF LookupKnows, Upstream
<1>3. answered' \subseteq Fine /\ cached' = [s \in Texts |-> cached'[s]]
  BY <1>1 DEF MapsInv
<1>4. QED
  BY <1>1, <1>2, <1>3, LookupMoves

LEMMA GeocodeKnown == ASSUME MapsInv, NEW k \in Lookups, Geocode(k) PROVE MapsInv'
<1>1. PICK p \in Upstream :
        lookup' = [lookup EXCEPT ![k] =
          IF p \in {"unavailable", "refused", "nothing"} \/ LowPrecision(p)
          THEN IdleLookup ELSE [lookup[k] EXCEPT !.pc = p]]
  BY DEF Geocode, LookupTo
<1>2. /\ lookup[k].pc = "call"
      /\ UNCHANGED <<today, cached, dayCount, warnedKey, answered, warnings, abandoned>>
  BY DEF Geocode
<1>3. answered' \subseteq Fine /\ cached' = [s \in Texts |-> cached'[s]]
  BY <1>2 DEF MapsInv
<1>4. CASE p \in {"unavailable", "refused", "nothing"} \/ LowPrecision(p)
  <2>1. lookup' = [lookup EXCEPT ![k] = IdleLookup]
    BY <1>1, <1>4
  <2>2. QED
    BY <1>2, <1>3, <2>1, IdleLookupKnows, LookupMoves
<1>5. CASE ~(p \in {"unavailable", "refused", "nothing"} \/ LowPrecision(p))
  <2> DEFINE q == [lookup[k] EXCEPT !.pc = p]
  <2>1. lookup' = [lookup EXCEPT ![k] = q]
    BY <1>1, <1>5
  <2>2. lookup[k] = [pc |-> "call", text |-> lookup[k].text]
    BY <1>2 DEF MapsInv, LookupKnows
  <2>3. q.pc = p
    BY <2>2
  <2>4. p \in Fine /\ p # "call" /\ p # "warn"
    BY <1>5, FinePrecision DEF Fine
  <2> HIDE DEF q
  <2>5. LookupKnows(q)
    BY <2>3, <2>4 DEF LookupKnows
  <2>6. QED
    BY <1>2, <1>3, <2>1, <2>5, LookupMoves
<1>6. QED
  BY <1>4, <1>5

LEMMA CacheAnswerKnown == ASSUME MapsInv, NEW k \in Lookups, CacheAnswer(k) PROVE MapsInv'
<1> DEFINE p == lookup[k].pc
           row == [precision |-> p, until |-> today + CacheDays]
<1>1. /\ p \in Upstream /\ cached' = [cached EXCEPT ![lookup[k].text] = row]
      /\ answered' = answered \cup {p} /\ lookup' = [lookup EXCEPT ![k] = [pc |-> "count"]]
      /\ UNCHANGED <<today, dayCount, warnedKey, warnings, abandoned>>
  BY DEF CacheAnswer, LookupTo
<1>2. p \in Fine
  BY <1>1 DEF MapsInv, LookupKnows
<1>3. LookupKnows([pc |-> "count"])
  BY DEF LookupKnows, Upstream
<1>4. row.precision = p
  OBVIOUS
<1>5. answered' \subseteq Fine /\ p # "warn"
  BY <1>1, <1>2 DEF MapsInv, Fine
<1> HIDE DEF row
<1>6. /\ cached' = [t \in Texts |-> cached'[t]]
      /\ \A t \in Texts : cached'[t] = cached[t] \/ cached'[t].precision \in Fine
  BY <1>1, <1>2, <1>4 DEF MapsInv
<1>7. QED
  BY <1>1, <1>3, <1>5, <1>6, LookupMoves

LEMMA BumpKnown == ASSUME MapsInv, NEW k \in Lookups, BumpDailyRate(k) PROVE MapsInv'
<1> DEFINE q == IF dayCount[today] + 1 >= WarnAt THEN [pc |-> "warn", day |-> today]
                ELSE IdleLookup
<1>1. /\ lookup[k].pc = "count" /\ dayCount' = [dayCount EXCEPT ![today] = @ + 1]
      /\ lookup' = [lookup EXCEPT ![k] = q]
      /\ UNCHANGED <<today, cached, warnedKey, answered, warnings, abandoned>>
  BY DEF BumpDailyRate, LookupTo
<1>2. today \in Days /\ dayCount \in [Days -> Nat]
  BY DEF MapsInv
<1>3. LookupKnows(q) /\ (dayCount[today] + 1 >= WarnAt => q.pc = "warn" /\ q.day = today)
  BY <1>2, IdleLookupKnows DEF LookupKnows, Upstream
<1> HIDE DEF q
<1>4. /\ dayCount' \in [Days -> Nat] /\ dayCount'[today] = dayCount[today] + 1
      /\ \A d \in Days \ {today} : dayCount'[d] = dayCount[d]
  BY <1>1, <1>2
<1>5. /\ lookup' = [j \in Lookups |-> lookup'[j]] /\ lookup'[k] = q
      /\ \A j \in Lookups \ {k} : lookup'[j] = lookup[j]
  BY <1>1 DEF MapsInv
<1>6. \A j \in Lookups : LookupKnows(lookup'[j])
  BY <1>3, <1>5 DEF MapsInv
<1>7. ASSUME NEW d \in Days PROVE DateKnows(d)'
  <2>1. DateKnows(d) /\ \A j \in Lookups : lookup[j].pc = "warn" => lookup'[j] = lookup[j]
    BY <1>1, <1>5 DEF MapsInv
  <2>2. CASE d = today
    BY <1>1, <1>3, <1>4, <1>5, <2>1, <2>2 DEF DateKnows
  <2>3. CASE d # today
    BY <1>1, <1>4, <2>1, <2>3 DEF DateKnows
  <2>4. QED
    BY <2>2, <2>3
<1>8. QED
  BY <1>1, <1>4, <1>5, <1>6, <1>7 DEF MapsInv

\* A request that was to warn is over: it has warned, or died.
LEMMA WarnEnds ==
  ASSUME MapsInv, NEW k \in Lookups, NEW d \in Days, lookup[k].pc = "warn" => lookup[k].day = d,
         lookup' = [lookup EXCEPT ![k] = IdleLookup],
         UNCHANGED <<today, cached, dayCount, answered>>,
         warnings' \in [Days -> Nat], DateKnows(d)',
         \A e \in Days \ {d} : warnings'[e] = warnings[e] /\ (e \in warnedKey' <=> e \in warnedKey),
         abandoned \subseteq abandoned'
  PROVE  MapsInv'
<1>1. /\ lookup' = [j \in Lookups |-> lookup'[j]] /\ lookup'[k] = IdleLookup
      /\ \A j \in Lookups \ {k} : lookup'[j] = lookup[j]
  BY DEF MapsInv
<1>2. \A j \in Lookups : LookupKnows(lookup'[j])
  BY <1>1, IdleLookupKnows DEF MapsInv
<1>3. ASSUME NEW e \in Days \ {d} PROVE DateKnows(e)'
  <2>1. DateKnows(e) /\ warnings'[e] = warnings[e] /\ (e \in warnedKey' <=> e \in warnedKey)
    BY DEF MapsInv
  <2>2. \A j \in Lookups : lookup[j].pc = "warn" /\ lookup[j].day = e => lookup'[j] = lookup[j]
    BY <1>1
  <2>3. QED
    BY <2>1, <2>2 DEF DateKnows
<1>4. \A e \in Days : DateKnows(e)'
  BY <1>3
<1>5. QED
  BY <1>1, <1>2, <1>4 DEF MapsInv

LEMMA WarnKnown == ASSUME MapsInv, NEW k \in Lookups, Warn(k) PROVE MapsInv'
<1>1. lookup[k].pc = "warn" /\ LookupKnows(lookup[k]) /\ warnings \in [Days -> Nat]
  BY DEF Warn, MapsInv
<1>2. PICK d \in Days : d = lookup[k].day
  BY <1>1 DEF LookupKnows
<1>3. /\ warnings' = IF FirstToWarn(d) THEN [warnings EXCEPT ![d] = @ + 1] ELSE warnings
      /\ warnedKey' = warnedKey \cup {d} /\ lookup' = [lookup EXCEPT ![k] = IdleLookup]
      /\ UNCHANGED <<today, cached, dayCount, answered, abandoned>>
  BY <1>2 DEF Warn, LookupTo
<1>4. DateKnows(d)
  BY DEF MapsInv
<1>5. /\ warnings' \in [Days -> Nat] /\ warnings'[d] = 1
      /\ \A e \in Days \ {d} : warnings'[e] = warnings[e]
  BY <1>1, <1>3, <1>4 DEF FirstToWarn, DateKnows
<1>6. DateKnows(d)'
  BY <1>3, <1>5 DEF DateKnows
<1>7. QED
  BY <1>2, <1>3, <1>5, <1>6, WarnEnds

LEMMA DiesKnown == ASSUME MapsInv, NEW k \in Lookups, LookupDies(k) PROVE MapsInv'
<1>1. /\ lookup' = [lookup EXCEPT ![k] = IdleLookup]
      /\ abandoned' = IF lookup[k].pc = "warn" THEN abandoned \cup {lookup[k].day} ELSE abandoned
      /\ UNCHANGED <<today, cached, dayCount, warnedKey, answered, warnings>>
  BY DEF LookupDies, LookupTo
<1>2. LookupKnows(lookup[k]) /\ today \in Days /\ warnings \in [Days -> Nat]
  BY DEF MapsInv
<1>3. PICK d \in Days : lookup[k].pc = "warn" => lookup[k].day = d
  BY <1>2 DEF LookupKnows
<1>4. DateKnows(d)'
  <2>1. DateKnows(d) /\ \A j \in Lookups \ {k} : lookup'[j] = lookup[j]
    BY <1>1 DEF MapsInv
  <2>2. CASE lookup[k].pc = "warn"
    <3>1. d \in abandoned'
      BY <1>1, <1>3, <2>2
    <3>2. QED
      BY <1>1, <2>1, <3>1 DEF DateKnows
  <2>3. CASE lookup[k].pc # "warn"
    BY <1>1, <2>1, <2>3 DEF DateKnows
  <2>4. QED
    BY <2>2, <2>3
<1>5. QED
  BY <1>1, <1>2, <1>3, <1>4, WarnEnds

LEMMA MapsStepKnown == MapsInv /\ [MapsNext]_mapsVars => MapsInv'
<1> SUFFICES ASSUME MapsInv, [MapsNext]_mapsVars PROVE MapsInv'
  OBVIOUS
<1>1. ASSUME NEW k \in Lookups,
             StartLookup(k) \/ StartSuggest(k) \/ Geocode(k) \/ CacheAnswer(k)
               \/ BumpDailyRate(k) \/ Warn(k) \/ LookupDies(k)
      PROVE  MapsInv'
  BY <1>1, StartLookupKnown, StartSuggestKnown, GeocodeKnown, CacheAnswerKnown, BumpKnown,
     WarnKnown, DiesKnown
<1>2. CASE DayEnds \/ UNCHANGED mapsVars
  <2>1. UNCHANGED <<cached, dayCount, warnedKey, lookup, answered, warnings, abandoned>>
    BY <1>2 DEF DayEnds, mapsVars
  <2>2. today' \in Days
    BY <1>2, MapsAssumption DEF DayEnds, mapsVars, MapsInv, Days
  <2>3. \A d \in Days : DateKnows(d)'
    BY <2>1 DEF MapsInv, DateKnows
  <2>4. QED
    BY <2>1, <2>2, <2>3 DEF MapsInv
<1>3. QED
  BY <1>1, <1>2 DEF MapsNext

\* The quota of a date is warned about exactly once, however many requests
\* cross the threshold together or die between the count and the warning, and
\* no answer is coarser than a street (_bump_daily_rate, geocode).
THEOREM QuotaWarnedOnce == MapsSpec => []WarnedOnce
<1>1. MapsInv => WarnedOnce
  <2> SUFFICES ASSUME MapsInv PROVE WarnedOnce
    OBVIOUS
  <2>1. answered \subseteq {"street", "number", "exact"} /\ \A d \in Days : DateKnows(d)
    BY DEF MapsInv, Fine
  <2>2. QED
    BY <2>1 DEF WarnedOnce, DateKnows
<1>2. QED
  BY <1>1, MapsInitKnown, MapsStepKnown, PTL DEF MapsSpec

-----------------------------------------------------------------------------
(* The paged lists, for any rows and any length of a page.                 *)
(* A row not yet shown that is tied with no other has at least all the     *)
(* rows of the pages read so far ahead of it, whatever is committed        *)
(* between two pages.                                                      *)

\* A list of a finite set names every member once.
LEMMA ListNamesAll ==
  ASSUME NEW S, IsFiniteSet(S), NEW q \in SetToSeqs(S)
  PROVE  /\ q \in [1..Cardinality(S) -> S] /\ Cardinality(S) \in Nat
         /\ \A i, j \in 1..Cardinality(S) : i # j => q[i] # q[j]
         /\ \A r \in S : \E i \in 1..Cardinality(S) : q[i] = r
<1>1. Cardinality(S) \in Nat
  BY FS_CardinalityType
<1>2. /\ q \in [1..Cardinality(S) -> S]
      /\ \A i, j \in 1..Cardinality(S) : i # j => q[i] # q[j]
  BY DEF SetToSeqs
<1>3. q \in Injection(1..Cardinality(S), S)
  BY <1>2 DEF Injection, IsInjective
<1>4. IsFiniteSet(1..Cardinality(S)) /\ Cardinality(1..Cardinality(S)) = Cardinality(S)
  BY <1>1, FS_Interval
<1>5. q \in Surjection(1..Cardinality(S), S)
  BY <1>3, <1>4, FS_Injection
<1>6. QED
  BY <1>1, <1>2, <1>5 DEF Surjection

\* Page n has the rows from place k + 1 to place k + PerPage, and is short only
\* if the list ends before that.
LEMMA PageShows ==
  ASSUME NEW S, NEW c \in Nat, NEW q \in [1..c -> S], NEW n \in Nat \ {0},
         NEW k \in Nat, k = (n - 1) * PerPage
  PROVE  /\ \A i \in 1..c : k < i /\ i <= k + PerPage => q[i] \in Range(PageOf(q, n))
         /\ Range(PageOf(q, n)) \subseteq S
         /\ Len(PageOf(q, n)) < PerPage => c < k + PerPage
         /\ n * PerPage = k + PerPage
<1>1. PerPage \in Nat \ {0}
  BY FeedsAssumption
<1>2. n * PerPage = k + PerPage
  BY <1>1
<1>3. q \in Seq(S) /\ Len(q) = c
  OBVIOUS
<1>4. PICK b : b = IF k + PerPage < c THEN k + PerPage ELSE c
  OBVIOUS
<1>5. b \in Nat /\ PageOf(q, n) = SubSeq(q, k + 1, b)
  BY <1>1, <1>2, <1>3, <1>4 DEF PageOf
<1>6. PICK p : p = SubSeq(q, k + 1, b)
  OBVIOUS
<1>7. /\ Len(p) = IF k + 1 <= b THEN b - k ELSE 0
      /\ DOMAIN p = 1..Len(p)
      /\ \A i \in 1..Len(p) : p[i] = q[k + i]
  BY <1>1, <1>3, <1>4, <1>5, <1>6
<1>8. ASSUME NEW i \in 1..c, k < i, i <= k + PerPage
      PROVE  q[i] \in Range(p)
  <2>1. i <= b /\ i - k \in 1..Len(p)
    BY <1>1, <1>4, <1>7, <1>8
  <2>2. p[i - k] = q[i]
    BY <1>7, <2>1
  <2>3. QED
    BY <1>7, <2>1, <2>2 DEF Range
<1>9. Len(p) < PerPage => c < k + PerPage
  BY <1>1, <1>4, <1>7
<1>10. ASSUME NEW i \in 1..Len(p) PROVE p[i] \in S
  <2>1. k + i \in 1..c
    BY <1>1, <1>4, <1>7, <1>10
  <2>2. QED
    BY <1>7, <2>1
<1>11. Range(p) \subseteq S
  BY <1>7, <1>10 DEF Range
<1>12. QED
  BY <1>2, <1>5, <1>6, <1>8, <1>9, <1>11

-----------------------------------------------------------------------------
FeedRowShape(x) ==
  /\ x \in [is : {"open", "finished", "failed"}, created : Nat, updated : Nat]
  /\ x.created < feedClock /\ x.updated < feedClock
Present(r) == feedRow[r] # NoRow
WriterShape(w) ==
  \/ w = IdleFeedWriter
  \/ /\ w \in [is : {"open"}, rows : SUBSET Rows, at : Nat]
     /\ w.at < feedClock

FeedTyped ==
  /\ feed \in FeedNames /\ feedClock \in Nat
  /\ feedRow = [r \in Rows |-> feedRow[r]]
  /\ \A r \in Rows : Present(r) => FeedRowShape(feedRow[r])
  /\ WriterShape(feedWriter)
  /\ feedWriter # IdleFeedWriter => \A r \in feedWriter.rows : ~Present(r)
  /\ walk \in [page : Nat \ {0}, shown : {walk.shown}, ended : BOOLEAN]

\* Where one transaction writes one row, no two rows have one created_at; and
\* orders of failed refunds are written one by one.
OneByOne == feed \notin {"notices", "points"}
CreatedApart ==
  OneByOne =>
    /\ \A r, s \in Rows : Present(r) /\ Present(s) /\ r # s =>
         feedRow[r].created # feedRow[s].created
    /\ feedWriter # IdleFeedWriter =>
         /\ \A r \in Rows : Present(r) => feedRow[r].created # feedWriter.at
         /\ \A r, s \in feedWriter.rows : r = s
FailedApart ==
  \A r, s \in Rows :
    feedRow[r].is = "failed" /\ feedRow[s].is = "failed" /\ r # s =>
      feedRow[r].updated # feedRow[s].updated

Tied(r) == /\ feed \in {"points", "finished"}
           /\ \E s \in InFeed \ {r} : KeyOfRow(feedRow[s]) = KeyOfRow(feedRow[r])
AheadOf(r) == {s \in InFeed : Ahead(s, r)}

\* What the reader has been shown: of the rows that were there all along, those
\* not yet shown have all the pages so far ahead of them.
WalkKnows ==
  /\ stable \subseteq InFeed
  /\ walk.page = 1 => ~walk.ended /\ stable = {} /\ walk.shown = {}
  /\ ~left => \A r \in stable \ walk.shown :
       Tied(r) \/ (~walk.ended /\ Cardinality(AheadOf(r)) >= (walk.page - 1) * PerPage)

FeedsKnown == FeedTyped /\ CreatedApart /\ FailedApart /\ WalkKnows

LEMMA InFeedFinite ==
  /\ InFeed \subseteq Rows /\ IsFiniteSet(InFeed)
  /\ \A r : AheadOf(r) \subseteq InFeed /\ IsFiniteSet(AheadOf(r))
            /\ Cardinality(AheadOf(r)) \in Nat
<1>1. InFeed \subseteq Rows /\ IsFiniteSet(InFeed)
  BY FeedsAssumption, FS_Subset DEF InFeed
<1>2. ASSUME NEW r
      PROVE  /\ AheadOf(r) \subseteq InFeed /\ IsFiniteSet(AheadOf(r))
             /\ Cardinality(AheadOf(r)) \in Nat
  <2>1. AheadOf(r) \subseteq InFeed
    BY DEF AheadOf
  <2>2. IsFiniteSet(AheadOf(r))
    BY <1>1, <2>1, FS_Subset
  <2>3. QED
    BY <2>1, <2>2, FS_CardinalityType
<1>3. QED
  BY <1>1, <1>2

LEMMA RowsStayFinite ==
  \A r : IsFiniteSet(AheadOf(r)') /\ Cardinality(AheadOf(r)') \in Nat
<1>1. SUFFICES ASSUME NEW r
               PROVE  IsFiniteSet(AheadOf(r)') /\ Cardinality(AheadOf(r)') \in Nat
  OBVIOUS
<1>2. AheadOf(r)' \subseteq Rows
  BY DEF AheadOf, InFeed
<1>3. IsFiniteSet(AheadOf(r)')
  BY <1>2, FeedsAssumption, FS_Subset
<1>4. QED
  BY <1>3, FS_CardinalityType

LEMMA ListedIsPresent ==
  ASSUME FeedTyped, NEW r \in InFeed
  PROVE  /\ r \in Rows /\ r \in Nat /\ Present(r) /\ FeedRowShape(feedRow[r])
         /\ KeyOfRow(feedRow[r]) \in Nat
<1>1. r \in Rows /\ Listed(feedRow[r])
  BY DEF InFeed
<1>2. Present(r)
  BY <1>1 DEF Listed, Present, NoRow
<1>3. FeedRowShape(feedRow[r])
  BY <1>1, <1>2 DEF FeedTyped
<1>4. QED
  BY <1>1, <1>2, <1>3, FeedsAssumption DEF FeedRowShape, KeyOfRow

\* No row is ahead of itself, and of two rows that are not tied one is ahead.
LEMMA AheadOrBehind ==
  ASSUME FeedsKnown, NEW r \in InFeed, NEW s \in InFeed
  PROVE  /\ ~Ahead(r, r)
         /\ r # s /\ ~Tied(r) => Ahead(r, s) \/ Ahead(s, r)
<1>1. /\ r \in Rows /\ r \in Nat /\ Present(r) /\ FeedRowShape(feedRow[r])
      /\ s \in Rows /\ s \in Nat /\ Present(s) /\ FeedRowShape(feedRow[s])
      /\ KeyOfRow(feedRow[r]) \in Nat /\ KeyOfRow(feedRow[s]) \in Nat
  BY ListedIsPresent DEF FeedsKnown
<1>2. PICK k, m : k = KeyOfRow(feedRow[r]) /\ m = KeyOfRow(feedRow[s])
  OBVIOUS
<1>3. CASE feed = "notices"
  BY <1>1, <1>2, <1>3 DEF Ahead, NewestNoticeFirst
<1>4. CASE feed # "notices"
  <2>1. (Ahead(r, s) <=> k > m) /\ (Ahead(s, r) <=> m > k) /\ (Ahead(r, r) <=> k > k)
    BY <1>2, <1>4 DEF Ahead, NewestFirst
  <2>2. r # s /\ k = m => Tied(r)
    <3>1. SUFFICES ASSUME r # s, k = m PROVE Tied(r)
      OBVIOUS
    <3>2. feed \in {"points", "finished"}
      <4>1. SUFFICES ASSUME feed \notin {"points", "finished"} PROVE FALSE
        OBVIOUS
      <4>2. CASE feed = "failed"
        <5>1. /\ feedRow[r].is = "failed" /\ feedRow[s].is = "failed"
              /\ feedRow[r].updated = feedRow[s].updated
          BY <1>2, <3>1, <4>2 DEF KeyOfRow, InFeed, Listed, ListedForStaff, ListedUser,
                                  ListedPromocode, OwnFeeds
        <5>2. QED
          BY <1>1, <3>1, <5>1 DEF FeedsKnown, FailedApart
      <4>3. CASE feed # "failed"
        <5>1. feedRow[r].created = feedRow[s].created
          BY <1>2, <3>1, <4>1, <4>3 DEF KeyOfRow
        <5>2. QED
          BY <1>1, <1>4, <3>1, <4>1, <5>1 DEF FeedsKnown, CreatedApart, OneByOne
      <4>4. QED
        BY <4>2, <4>3
    <3>3. QED
      BY <1>2, <3>1, <3>2 DEF Tied
  <2>3. k > m \/ m > k \/ k = m
    BY <1>1, <1>2
  <2>4. ~(k > k)
    BY <1>1, <1>2
  <2>5. QED
    BY <2>1, <2>2, <2>3, <2>4
<1>5. QED
  BY <1>3, <1>4

\* In a sorted list a row that is not tied stands right behind the rows ahead.
LEMMA PlaceInList ==
  ASSUME FeedsKnown, NEW q \in Sorted, NEW r \in InFeed, ~Tied(r)
  PROVE  /\ q \in [1..Cardinality(InFeed) -> InFeed] /\ Cardinality(InFeed) \in Nat
         /\ \E p \in 1..Cardinality(InFeed) :
              q[p] = r /\ Cardinality(AheadOf(r)) = p - 1
<1>1. PICK c : c = Cardinality(InFeed)
  OBVIOUS
<1>2. /\ q \in [1..c -> InFeed] /\ c \in Nat
      /\ \A i, j \in 1..c : i # j => q[i] # q[j]
      /\ \A s \in InFeed : \E i \in 1..c : q[i] = s
  <2>1. q \in SetToSeqs(InFeed) /\ IsFiniteSet(InFeed)
    BY InFeedFinite DEF Sorted
  <2>2. QED
    BY <1>1, <2>1, ListNamesAll
<1>3. \A i, j \in 1..c : i < j => ~Ahead(q[j], q[i])
  BY <1>2 DEF Sorted
<1>4. PICK p \in 1..c : q[p] = r
  BY <1>2
<1>5. ASSUME NEW i \in 1..c PROVE Ahead(q[i], r) <=> i < p
  <2>1. q[i] \in InFeed
    BY <1>2
  <2>2. CASE i = p
    BY <1>2, <1>4, <2>2, AheadOrBehind
  <2>3. CASE i > p
    BY <1>2, <1>3, <1>4, <2>3
  <2>4. CASE i < p
    <3>1. q[i] # r /\ ~Ahead(r, q[i])
      BY <1>2, <1>3, <1>4, <2>4
    <3>2. QED
      BY <2>1, <2>4, <3>1, AheadOrBehind
  <2>5. QED
    BY <1>2, <2>2, <2>3, <2>4
<1>6. PICK f : f = [i \in 1..(p - 1) |-> q[i]]
  OBVIOUS
<1>7. \A i \in 1..(p - 1) : i \in 1..c /\ i < p /\ f[i] = q[i]
  BY <1>2, <1>6
<1>8. f \in [1..(p - 1) -> AheadOf(r)]
  <2>1. \A i \in 1..(p - 1) : f[i] \in AheadOf(r)
    BY <1>2, <1>5, <1>7 DEF AheadOf
  <2>2. QED
    BY <1>6, <2>1
<1>9. \A i, j \in 1..(p - 1) : f[i] = f[j] => i = j
  BY <1>2, <1>7
<1>10. ASSUME NEW s \in AheadOf(r) PROVE \E i \in 1..(p - 1) : f[i] = s
  <2>1. s \in InFeed /\ Ahead(s, r)
    BY DEF AheadOf
  <2>2. PICK i \in 1..c : q[i] = s
    BY <1>2, <2>1
  <2>3. i < p
    BY <1>5, <2>1, <2>2
  <2>4. i \in 1..(p - 1)
    BY <1>2, <2>3
  <2>5. QED
    BY <1>7, <2>2, <2>4
<1>11. ExistsBijection(1..(p - 1), AheadOf(r))
  <2>1. f \in Injection(1..(p - 1), AheadOf(r))
    BY <1>8, <1>9 DEF Injection, IsInjective
  <2>2. f \in Surjection(1..(p - 1), AheadOf(r))
    BY <1>8, <1>10 DEF Surjection
  <2>3. QED
    BY <2>1, <2>2 DEF ExistsBijection, Bijection
<1>12. IsFiniteSet(1..(p - 1)) /\ Cardinality(1..(p - 1)) = p - 1
  <2>1. PICK b : b = p - 1
    OBVIOUS
  <2>2. b \in Nat
    BY <1>2, <2>1
  <2>3. IsFiniteSet(1..b) /\ Cardinality(1..b) = IF 1 > b THEN 0 ELSE b - 1 + 1
    BY <2>2, FS_Interval
  <2>4. QED
    BY <2>1, <2>2, <2>3
<1>13. Cardinality(AheadOf(r)) = p - 1
  BY <1>11, <1>12, FS_Bijection
<1>14. QED
  BY <1>1, <1>2, <1>4, <1>13

\* A page that does not show the row is full, and all of it is ahead of the row.
LEMMA PageIsAhead ==
  ASSUME FeedsKnown, NEW q \in Sorted, NEW r \in InFeed, ~Tied(r),
         NEW k \in Nat, k = (walk.page - 1) * PerPage,
         Cardinality(AheadOf(r)) >= k, r \notin Range(PageOf(q, walk.page))
  PROVE  /\ ~(Len(PageOf(q, walk.page)) < PerPage)
         /\ Cardinality(AheadOf(r)) >= k + PerPage
<1>1. PICK c : c = Cardinality(InFeed)
  OBVIOUS
<1>2. q \in [1..c -> InFeed] /\ c \in Nat
  BY <1>1, PlaceInList
<1>3. PICK p \in 1..c : q[p] = r /\ Cardinality(AheadOf(r)) = p - 1
  BY <1>1, PlaceInList
<1>4. walk.page \in Nat \ {0}
  BY DEF FeedsKnown, FeedTyped
<1>5. PICK n \in Nat \ {0} : n = walk.page
  BY <1>4
<1>6. /\ \A i \in 1..c : k < i /\ i <= k + PerPage => q[i] \in Range(PageOf(q, n))
      /\ Len(PageOf(q, n)) < PerPage => c < k + PerPage
  <2>1. k = (n - 1) * PerPage
    BY <1>5
  <2>2. QED
    BY <1>2, <2>1, PageShows
<1>7. p > k /\ p > k + PerPage
  <2>1. p > k
    BY <1>2, <1>3
  <2>2. ~(p <= k + PerPage)
    BY <1>3, <1>5, <1>6, <2>1
  <2>3. QED
    BY <1>2, <2>1, <2>2, FeedsAssumption
<1>8. QED
  <2>1. p <= c /\ c \in Nat /\ k + PerPage \in Nat
    BY <1>2, <1>3, FeedsAssumption
  <2>2. ~(c < k + PerPage)
    BY <1>7, <2>1
  <2>3. ~(Len(PageOf(q, walk.page)) < PerPage)
    BY <1>5, <1>6, <2>2
  <2>4. p - 1 >= k + PerPage
    BY <1>7, <2>1
  <2>5. QED
    BY <1>3, <2>3, <2>4

-----------------------------------------------------------------------------
LEMMA FeedsStart ==
  ASSUME FeedsInit PROVE FeedsKnown
<1>1. /\ feed \in FeedNames /\ feedRow = [r \in Rows |-> NoRow]
      /\ feedWriter = IdleFeedWriter
      /\ walk = [page |-> 1, shown |-> {}, ended |-> FALSE]
      /\ stable = {} /\ left = FALSE /\ feedClock = 1
  BY DEF FeedsInit
<1>2. \A r \in Rows : ~Present(r) /\ feedRow[r].is = "absent"
  BY <1>1 DEF Present, NoRow
<1>3. FeedTyped
  BY <1>1, <1>2 DEF FeedTyped, WriterShape
<1>4. CreatedApart
  BY <1>1, <1>2 DEF CreatedApart
<1>5. FailedApart
  BY <1>2 DEF FailedApart
<1>6. WalkKnows
  BY <1>1 DEF WalkKnows
<1>7. QED
  BY <1>3, <1>4, <1>5, <1>6 DEF FeedsKnown

\* A step of the writers is invisible to the walk if the rows listed before it
\* stay listed with their keys, or some row leaves the list.
WriterStep ==
  /\ feed' = feed /\ walk' = walk
  /\ left' \/ \A s \in InFeed : s \in InFeed' /\ KeyOfRow(feedRow'[s]) = KeyOfRow(feedRow[s])
  /\ left => left'
  /\ stable' \subseteq stable /\ stable' \subseteq InFeed'

LEMMA WalkUndisturbed ==
  ASSUME FeedsKnown, WriterStep PROVE WalkKnows'
<1>1. feed' = feed /\ walk' = walk /\ stable' \subseteq stable /\ stable' \subseteq InFeed'
  BY DEF WriterStep
<1>2. walk'.page = 1 => ~walk'.ended /\ stable' = {} /\ walk'.shown = {}
  BY <1>1 DEF FeedsKnown, WalkKnows
<1>3. ASSUME ~left', NEW r \in stable' \ walk'.shown
      PROVE  Tied(r)' \/ (~walk'.ended
               /\ Cardinality(AheadOf(r)') >= (walk'.page - 1) * PerPage)
  <2>1. /\ ~left /\ r \in stable \ walk.shown /\ r \in InFeed
        /\ \A s \in InFeed :
             s \in InFeed' /\ KeyOfRow(feedRow'[s]) = KeyOfRow(feedRow[s])
    BY <1>1, <1>3 DEF WriterStep, FeedsKnown, WalkKnows
  <2>2. CASE Tied(r)
    <3>1. PICK s \in InFeed \ {r} : KeyOfRow(feedRow[s]) = KeyOfRow(feedRow[r])
      BY <2>2 DEF Tied
    <3>2. /\ s \in InFeed' \ {r}
          /\ KeyOfRow(feedRow'[s]) = KeyOfRow(feedRow'[r])
      BY <2>1, <3>1
    <3>3. KeyOfRow(feedRow[s])' = KeyOfRow(feedRow[r])'
      BY <1>1, <3>2 DEF KeyOfRow
    <3>4. feed' \in {"points", "finished"}
      BY <1>1, <2>2 DEF Tied
    <3>5. QED
      BY <3>2, <3>3, <3>4 DEF Tied
  <2>3. CASE ~Tied(r)
    <3>1. ~walk.ended /\ Cardinality(AheadOf(r)) >= (walk.page - 1) * PerPage
      BY <2>1, <2>3 DEF FeedsKnown, WalkKnows
    <3>2. AheadOf(r) \subseteq AheadOf(r)'
      <4>1. SUFFICES ASSUME NEW s \in AheadOf(r) PROVE s \in AheadOf(r)'
        OBVIOUS
      <4>2. s \in InFeed /\ Ahead(s, r)
        BY DEF AheadOf
      <4>3. /\ s \in InFeed'
            /\ KeyOfRow(feedRow[s])' = KeyOfRow(feedRow[s])
            /\ KeyOfRow(feedRow[r])' = KeyOfRow(feedRow[r])
        BY <1>1, <2>1, <4>2 DEF KeyOfRow
      <4>4. Ahead(s, r)'
        BY <1>1, <4>2, <4>3 DEF Ahead, NewestFirst, NewestNoticeFirst
      <4>5. QED
        BY <4>3, <4>4 DEF AheadOf
    <3>3. /\ IsFiniteSet(AheadOf(r)) /\ IsFiniteSet(AheadOf(r)')
          /\ Cardinality(AheadOf(r)) \in Nat /\ Cardinality(AheadOf(r)') \in Nat
      BY InFeedFinite, RowsStayFinite
    <3>4. Cardinality(AheadOf(r)) <= Cardinality(AheadOf(r)')
      BY <3>2, <3>3, FS_Subset
    <3>5. (walk.page - 1) * PerPage \in Int
      BY FeedsAssumption DEF FeedsKnown, FeedTyped
    <3>6. QED
      BY <1>1, <3>1, <3>3, <3>4, <3>5
  <2>4. QED
    BY <2>2, <2>3
<1>4. QED
  BY <1>1, <1>2, <1>3 DEF WalkKnows

LEMMA ManyRows ==
  ASSUME NEW rs \in SUBSET Rows, ~(Cardinality(rs) > 1), NEW r \in rs, NEW s \in rs
  PROVE  r = s
<1>1. SUFFICES ASSUME r # s PROVE FALSE
  OBVIOUS
<1>2. IsFiniteSet(rs) /\ IsFiniteSet({r, s}) /\ {r, s} \subseteq rs
  BY FeedsAssumption, FS_Subset
<1>3. Cardinality({r, s}) <= Cardinality(rs)
  BY <1>2, FS_Subset
<1>4. Cardinality({r, s}) = 2
  <2>1. IsFiniteSet({r}) /\ Cardinality({r}) = 1
    BY FS_Singleton
  <2>2. Cardinality({r} \cup {s}) = Cardinality({r}) + 1
    BY <1>1, <2>1, FS_AddElement
  <2>3. {r} \cup {s} = {r, s}
    OBVIOUS
  <2>4. QED
    BY <2>1, <2>2, <2>3
<1>5. Cardinality(rs) \in Nat
  BY <1>2, FS_CardinalityType
<1>6. QED
  BY <1>3, <1>4, <1>5

LEMMA RowsBegin ==
  ASSUME FeedsKnown, NEW rs \in SUBSET Rows, BeginRows(rs)
  PROVE  FeedsKnown'
<1>1. /\ feedWriter = IdleFeedWriter
      /\ \A r \in rs : feedRow[r] = NoRow
      /\ Cardinality(rs) > 1 => feed \in {"notices", "points"}
      /\ feedWriter' = [is |-> "open", rows |-> rs, at |-> feedClock]
      /\ feedClock' = feedClock + 1
      /\ feed' = feed /\ feedRow' = feedRow /\ walk' = walk /\ stable' = stable
      /\ left' = left
  BY DEF BeginRows
<1>2. /\ feed \in FeedNames /\ feedClock \in Nat
      /\ feedRow = [r \in Rows |-> feedRow[r]]
      /\ \A r \in Rows : Present(r) => FeedRowShape(feedRow[r])
      /\ walk \in [page : Nat \ {0}, shown : {walk.shown}, ended : BOOLEAN]
  BY DEF FeedsKnown, FeedTyped
<1>3. \A r \in Rows : Present(r)' => FeedRowShape(feedRow[r])'
  BY <1>1, <1>2 DEF Present, FeedRowShape
<1>4. feedWriter' # IdleFeedWriter => \A r \in feedWriter'.rows : ~Present(r)'
  BY <1>1 DEF Present
<1>5. WriterShape(feedWriter)'
  BY <1>1, <1>2 DEF WriterShape
<1>6. FeedTyped'
  BY <1>1, <1>2, <1>3, <1>4, <1>5 DEF FeedTyped
<1>7. CreatedApart'
  <2>1. SUFFICES ASSUME OneByOne PROVE CreatedApart'
    BY <1>1 DEF CreatedApart, OneByOne
  <2>2. \A r, s \in Rows : Present(r) /\ Present(s) /\ r # s =>
          feedRow[r].created # feedRow[s].created
    BY <2>1 DEF FeedsKnown, CreatedApart
  <2>3. \A r \in Rows : Present(r) => feedRow[r].created # feedClock
    BY <1>2 DEF FeedRowShape
  <2>4. \A r, s \in rs : r = s
    BY <1>1, <2>1, ManyRows DEF OneByOne
  <2>5. QED
    BY <1>1, <2>2, <2>3, <2>4 DEF CreatedApart, Present
<1>8. FailedApart'
  BY <1>1 DEF FeedsKnown, FailedApart
<1>9. WalkKnows'
  <2>1. InFeed' = InFeed
    BY <1>1 DEF InFeed, Listed, ListedForStaff, ListedUser, ListedPromocode
  <2>2. WriterStep
    BY <1>1, <2>1 DEF WriterStep, FeedsKnown, WalkKnows
  <2>3. QED
    BY <2>2, WalkUndisturbed
<1>10. QED
  BY <1>6, <1>7, <1>8, <1>9 DEF FeedsKnown

\* Rows that were absent are committed: the listed ones stay as they were.
LEMMA RowsAdded ==
  ASSUME FeedsKnown, NEW rs \in SUBSET Rows,
         \A r \in rs : ~Present(r), \A r \in Rows \ rs : feedRow'[r] = feedRow[r],
         feed' = feed, walk' = walk, stable' = stable, left' = left
  PROVE  WalkKnows'
<1>1. \A s \in InFeed : s \in Rows \ rs /\ feedRow'[s] = feedRow[s]
  BY ListedIsPresent DEF FeedsKnown
<1>2. \A s \in InFeed : s \in InFeed'
  BY <1>1 DEF InFeed, Listed, ListedForStaff, ListedUser, ListedPromocode
<1>3. WriterStep
  BY <1>1, <1>2 DEF WriterStep, FeedsKnown, WalkKnows
<1>4. QED
  BY <1>3, WalkUndisturbed

LEMMA RowsCommit ==
  ASSUME FeedsKnown, CommitRows PROVE FeedsKnown'
<1>1. PICK rs, at : rs = feedWriter.rows /\ at = feedWriter.at
  OBVIOUS
<1>2. /\ feedWriter # IdleFeedWriter /\ feedWriter' = IdleFeedWriter
      /\ feedRow' = [r \in Rows |-> IF r \in rs
           THEN [is |-> "open", created |-> at, updated |-> at] ELSE feedRow[r]]
      /\ feed' = feed /\ feedClock' = feedClock /\ walk' = walk /\ stable' = stable
      /\ left' = left
  BY <1>1 DEF CommitRows
<1>3. /\ feed \in FeedNames /\ feedClock \in Nat
      /\ \A r \in Rows : Present(r) => FeedRowShape(feedRow[r])
      /\ walk \in [page : Nat \ {0}, shown : {walk.shown}, ended : BOOLEAN]
      /\ rs \in SUBSET Rows /\ at \in Nat /\ at < feedClock
      /\ \A r \in rs : ~Present(r)
  BY <1>1, <1>2 DEF FeedsKnown, FeedTyped, WriterShape
<1>4. /\ \A r \in rs : feedRow'[r] = [is |-> "open", created |-> at, updated |-> at]
      /\ \A r \in Rows \ rs : feedRow'[r] = feedRow[r]
  BY <1>2, <1>3
<1>5. FeedTyped'
  <2>1. feedRow' = [r \in Rows |-> feedRow'[r]]
    BY <1>2
  <2>2. \A r \in Rows : Present(r)' => FeedRowShape(feedRow[r])'
    BY <1>2, <1>3, <1>4 DEF Present, FeedRowShape
  <2>3. QED
    BY <1>2, <1>3, <2>1, <2>2 DEF FeedTyped, WriterShape
<1>6. CreatedApart'
  <2>1. SUFFICES ASSUME OneByOne PROVE CreatedApart'
    BY <1>2 DEF CreatedApart, OneByOne
  <2>2. /\ \A r, s \in Rows : Present(r) /\ Present(s) /\ r # s =>
             feedRow[r].created # feedRow[s].created
        /\ \A r \in Rows : Present(r) => feedRow[r].created # at
        /\ \A r, s \in rs : r = s
    BY <1>1, <1>2, <2>1 DEF FeedsKnown, CreatedApart
  <2>3. ASSUME NEW r \in Rows, NEW s \in Rows, Present(r)', Present(s)', r # s
        PROVE  feedRow'[r].created # feedRow'[s].created
    <3>1. r \in rs => feedRow'[r].created = at
      BY <1>4
    <3>2. s \in rs => feedRow'[s].created = at
      BY <1>4
    <3>3. r \notin rs => Present(r) /\ feedRow'[r] = feedRow[r]
      BY <1>4, <2>3 DEF Present
    <3>4. s \notin rs => Present(s) /\ feedRow'[s] = feedRow[s]
      BY <1>4, <2>3 DEF Present
    <3>5. QED
      BY <2>2, <2>3, <3>1, <3>2, <3>3, <3>4
  <2>4. QED
    BY <1>2, <2>3 DEF CreatedApart
<1>7. FailedApart'
  <2>1. \A r \in rs : feedRow'[r].is = "open"
    BY <1>4
  <2>2. QED
    BY <1>4, <2>1 DEF FeedsKnown, FailedApart
<1>8. WalkKnows'
  BY <1>2, <1>3, <1>4, RowsAdded
<1>9. QED
  BY <1>5, <1>6, <1>7, <1>8 DEF FeedsKnown

LEMMA RowInserted ==
  ASSUME FeedsKnown, NEW r \in Rows, InsertRow(r) PROVE FeedsKnown'
<1>1. /\ feedRow[r] = NoRow
      /\ feedWriter # IdleFeedWriter => r \notin feedWriter.rows
      /\ feedRow' = [feedRow EXCEPT ![r] =
                       [is |-> "open", created |-> feedClock, updated |-> feedClock]]
      /\ feedClock' = feedClock + 1
      /\ feed' = feed /\ feedWriter' = feedWriter /\ walk' = walk /\ stable' = stable
      /\ left' = left
  BY DEF InsertRow
<1>2. /\ feed \in FeedNames /\ feedClock \in Nat
      /\ feedRow = [s \in Rows |-> feedRow[s]]
      /\ \A s \in Rows : Present(s) => FeedRowShape(feedRow[s])
      /\ WriterShape(feedWriter)
      /\ feedWriter # IdleFeedWriter => \A s \in feedWriter.rows : ~Present(s)
      /\ walk \in [page : Nat \ {0}, shown : {walk.shown}, ended : BOOLEAN]
  BY DEF FeedsKnown, FeedTyped
<1>3. PICK x : x = [is |-> "open", created |-> feedClock, updated |-> feedClock]
  OBVIOUS
<1>4. /\ feedRow'[r] = x /\ \A s \in Rows \ {r} : feedRow'[s] = feedRow[s]
      /\ feedRow' = [s \in Rows |-> feedRow'[s]]
      /\ x.is = "open" /\ x.created = feedClock /\ ~Present(r)
  <2>1. feedRow' = [s \in Rows |-> IF s = r THEN x ELSE feedRow[s]]
    BY <1>1, <1>2, <1>3
  <2>2. QED
    BY <1>1, <1>3, <2>1 DEF Present
<1>5. FeedTyped'
  <2>1. \A s \in Rows : Present(s)' => FeedRowShape(feedRow[s])'
    <3>1. FeedRowShape(feedRow[r])'
      BY <1>1, <1>2, <1>3, <1>4 DEF FeedRowShape
    <3>2. ASSUME NEW s \in Rows \ {r}, Present(s)' PROVE FeedRowShape(feedRow[s])'
      <4>1. feedRow'[s] = feedRow[s] /\ Present(s)
        BY <1>4, <3>2 DEF Present
      <4>2. QED
        BY <1>1, <1>2, <4>1 DEF FeedRowShape
    <3>3. QED
      BY <3>1, <3>2
  <2>2. WriterShape(feedWriter)'
    BY <1>1, <1>2 DEF WriterShape
  <2>3. feedWriter' # IdleFeedWriter => \A s \in feedWriter'.rows : ~Present(s)'
    <3>1. SUFFICES ASSUME feedWriter # IdleFeedWriter, NEW s \in feedWriter.rows
                   PROVE  ~Present(s)'
      BY <1>1
    <3>2. s \in Rows \ {r} /\ ~Present(s)
      BY <1>1, <1>2, <3>1 DEF WriterShape
    <3>3. QED
      BY <1>4, <3>2 DEF Present
  <2>4. QED
    BY <1>1, <1>2, <1>4, <2>1, <2>2, <2>3 DEF FeedTyped
<1>6. CreatedApart'
  <2>1. SUFFICES ASSUME OneByOne PROVE CreatedApart'
    BY <1>1 DEF CreatedApart, OneByOne
  <2>2. /\ \A s, u \in Rows : Present(s) /\ Present(u) /\ s # u =>
             feedRow[s].created # feedRow[u].created
        /\ feedWriter # IdleFeedWriter =>
             /\ \A s \in Rows : Present(s) => feedRow[s].created # feedWriter.at
             /\ \A s, u \in feedWriter.rows : s = u
    BY <2>1 DEF FeedsKnown, CreatedApart
  <2>3. \A s \in Rows \ {r} :
          Present(s)' => Present(s) /\ feedRow'[s] = feedRow[s] /\ feedRow[s].created # feedClock
    BY <1>2, <1>4 DEF Present, FeedRowShape
  <2>4. ASSUME NEW s \in Rows, NEW u \in Rows, Present(s)', Present(u)', s # u
        PROVE  feedRow'[s].created # feedRow'[u].created
    BY <1>4, <2>2, <2>3, <2>4
  <2>5. ASSUME feedWriter # IdleFeedWriter, NEW s \in Rows, Present(s)'
        PROVE  feedRow'[s].created # feedWriter.at
    <3>1. feedClock # feedWriter.at
      BY <1>2, <2>5 DEF WriterShape
    <3>2. QED
      BY <1>4, <2>2, <2>3, <2>5, <3>1
  <2>6. QED
    BY <1>1, <2>2, <2>4, <2>5 DEF CreatedApart
<1>7. FailedApart'
  BY <1>4 DEF FeedsKnown, FailedApart
<1>8. WalkKnows'
  <2>1. \A s \in {r} : ~Present(s)
    BY <1>4
  <2>2. /\ {r} \in SUBSET Rows /\ \A s \in Rows \ {r} : feedRow'[s] = feedRow[s]
        /\ feed' = feed /\ walk' = walk /\ stable' = stable /\ left' = left
    BY <1>1, <1>4
  <2>3. QED
    BY <2>1, <2>2, RowsAdded
<1>9. QED
  BY <1>5, <1>6, <1>7, <1>8 DEF FeedsKnown

LEMMA RowsChanged ==
  ASSUME FeedsKnown, NEW rs \in SUBSET Rows, NEW is \in {"finished", "failed"},
         ChangeRows(rs, is)
  PROVE  FeedsKnown'
<1>1. /\ \A r \in rs : feedRow[r] # NoRow /\ feedRow[r].is # is
      /\ Cardinality(rs) > 1 => is = "finished"
      /\ feed \notin {"notices", "points"}
      /\ feedRow' = [r \in Rows |-> IF r \in rs
           THEN [feedRow[r] EXCEPT !.is = is, !.updated = feedClock] ELSE feedRow[r]]
      /\ left' = (left \/ \E r \in rs : Listed(feedRow[r]) /\ ~Listed(feedRow'[r]))
      /\ stable' = {r \in stable : /\ Listed(feedRow'[r])
                                   /\ KeyOfRow(feedRow'[r]) = KeyOfRow(feedRow[r])}
      /\ feedClock' = feedClock + 1
      /\ feed' = feed /\ feedWriter' = feedWriter /\ walk' = walk
  BY DEF ChangeRows
<1>2. /\ feed \in FeedNames /\ feedClock \in Nat
      /\ \A s \in Rows : Present(s) => FeedRowShape(feedRow[s])
      /\ WriterShape(feedWriter)
      /\ feedWriter # IdleFeedWriter => \A s \in feedWriter.rows : ~Present(s)
      /\ walk \in [page : Nat \ {0}, shown : {walk.shown}, ended : BOOLEAN]
  BY DEF FeedsKnown, FeedTyped
<1>3. ASSUME NEW r \in rs
      PROVE  /\ Present(r) /\ FeedRowShape(feedRow[r]) /\ Present(r)'
             /\ feedRow'[r] \in [is : {is}, created : {feedRow[r].created},
                                 updated : {feedClock}]
  <2>1. Present(r) /\ r \in Rows
    BY <1>1 DEF Present
  <2>2. feedRow[r] \in [is : {"open", "finished", "failed"}, created : Nat, updated : Nat]
    BY <1>2, <2>1 DEF FeedRowShape
  <2>3. feedRow'[r] = [feedRow[r] EXCEPT !.is = is, !.updated = feedClock]
    BY <1>1, <2>1
  <2>4. feedRow'[r] \in [is : {is}, created : {feedRow[r].created}, updated : {feedClock}]
    BY <2>2, <2>3
  <2>5. Present(r)'
    BY <2>4 DEF Present, NoRow
  <2>6. QED
    BY <1>2, <2>1, <2>4, <2>5
<1>4. \A r \in Rows \ rs : feedRow'[r] = feedRow[r] /\ (Present(r)' <=> Present(r))
  BY <1>1 DEF Present
<1>5. /\ feedClock' = feedClock + 1 /\ feedClock < feedClock + 1
      /\ feed' = feed /\ feedWriter' = feedWriter /\ walk' = walk
  <2>1. feedClock < feedClock + 1
    BY <1>2
  <2>2. QED
    BY <2>1, Zenon DEF ChangeRows
<1>6. FeedTyped'
  <2>1. feedRow' = [r \in Rows |-> feedRow'[r]]
    BY <1>1
  <2>2. ASSUME NEW r \in rs PROVE FeedRowShape(feedRow[r])'
    <3>1. PICK x, y : x = feedRow[r] /\ y = feedRow'[r]
      OBVIOUS
    <3>2. x.created \in Nat /\ x.created < feedClock
      BY <1>3, <3>1 DEF FeedRowShape
    <3>3. y \in [is : {is}, created : {x.created}, updated : {feedClock}]
      BY <1>3, <3>1
    <3>4. /\ y \in [is : {"open", "finished", "failed"}, created : Nat, updated : Nat]
          /\ y.created < feedClock + 1 /\ y.updated < feedClock + 1
      BY <1>2, <3>2, <3>3
    <3>5. QED
      BY <1>5, <3>1, <3>4 DEF FeedRowShape
  <2>3. ASSUME NEW r \in Rows \ rs, Present(r)' PROVE FeedRowShape(feedRow[r])'
    <3>1. feedRow'[r] = feedRow[r] /\ FeedRowShape(feedRow[r])
      BY <1>2, <1>4, <2>3
    <3>2. QED
      BY <1>2, <1>5, <3>1 DEF FeedRowShape
  <2>4. WriterShape(feedWriter)'
    BY <1>5, <1>2 DEF WriterShape
  <2>5. feedWriter' # IdleFeedWriter => \A s \in feedWriter'.rows : ~Present(s)'
    <3>1. SUFFICES ASSUME feedWriter # IdleFeedWriter, NEW s \in feedWriter.rows
                   PROVE  ~Present(s)'
      BY <1>5
    <3>2. s \in Rows \ rs /\ ~Present(s)
      BY <1>2, <1>3, <3>1 DEF WriterShape
    <3>3. QED
      BY <1>4, <3>2
  <2>6. QED
    <3>1. \A r \in Rows : Present(r)' => FeedRowShape(feedRow[r])'
      BY <2>2, <2>3
    <3>2. walk' \in [page : Nat \ {0}, shown : {walk'.shown}, ended : BOOLEAN]
      BY <1>2, <1>5
    <3>3. QED
      BY <1>2, <1>5, <2>1, <2>4, <2>5, <3>1, <3>2 DEF FeedTyped
<1>7. CreatedApart'
  <2>1. \A r \in Rows : Present(r)' =>
          Present(r) /\ feedRow'[r].created = feedRow[r].created
    BY <1>3, <1>4
  <2>2. CreatedApart
    BY DEF FeedsKnown
  <2>3. QED
    <3>1. SUFFICES ASSUME OneByOne PROVE CreatedApart'
      BY <1>5 DEF CreatedApart, OneByOne
    <3>2. /\ \A r, s \in Rows : Present(r) /\ Present(s) /\ r # s =>
               feedRow[r].created # feedRow[s].created
          /\ feedWriter # IdleFeedWriter =>
               /\ \A r \in Rows : Present(r) => feedRow[r].created # feedWriter.at
               /\ \A r, s \in feedWriter.rows : r = s
      BY <2>2, <3>1 DEF CreatedApart
    <3>3. QED
      BY <1>5, <2>1, <3>2 DEF CreatedApart
<1>8. FailedApart'
  <2>1. \A r \in rs : feedRow'[r].is = is /\ feedRow'[r].updated = feedClock
    BY <1>3
  <2>2. \A r \in Rows \ rs : feedRow'[r] = feedRow[r]
    BY <1>4
  <2>3. ASSUME NEW r \in Rows, feedRow[r].is = "failed" PROVE feedRow[r].updated # feedClock
    <3>1. Present(r)
      BY <2>3 DEF Present, NoRow
    <3>2. QED
      BY <1>2, <3>1 DEF FeedRowShape
  <2>4. is = "failed" => \A r, s \in rs : r = s
    BY <1>1, ManyRows
  <2>5. FailedApart
    BY DEF FeedsKnown
  <2>6. ASSUME NEW r \in Rows, NEW s \in Rows, feedRow'[r].is = "failed",
               feedRow'[s].is = "failed", r # s
        PROVE  feedRow'[r].updated # feedRow'[s].updated
    <3>1. CASE r \in rs /\ s \in rs
      BY <2>1, <2>4, <2>6, <3>1
    <3>2. CASE r \in rs /\ s \notin rs
      BY <2>1, <2>2, <2>3, <2>6, <3>2
    <3>3. CASE r \notin rs /\ s \in rs
      BY <2>1, <2>2, <2>3, <2>6, <3>3
    <3>4. CASE r \notin rs /\ s \notin rs
      BY <2>2, <2>5, <2>6, <3>4 DEF FailedApart
    <3>5. QED
      BY <3>1, <3>2, <3>3, <3>4
  <2>7. QED
    BY <2>6 DEF FailedApart
<1>9. WalkKnows'
  <2>1. \A x : Listed(x)' <=> Listed(x)
    BY <1>1 DEF Listed, ListedForStaff, ListedUser, ListedPromocode
  <2>2. ASSUME ~left', NEW s \in InFeed
        PROVE  s \in InFeed' /\ KeyOfRow(feedRow'[s]) = KeyOfRow(feedRow[s])
    <3>1. s \in Rows /\ Listed(feedRow[s])
      BY DEF InFeed
    <3>2. CASE s \notin rs
      BY <1>4, <3>1, <3>2, <2>1 DEF InFeed
    <3>3. CASE s \in rs
      <4>1. Listed(feedRow'[s])
        BY <1>1, <2>2, <3>1, <3>3
      <4>2. feedRow[s].is # is /\ feedRow'[s].is = is
            /\ feedRow'[s].created = feedRow[s].created
        BY <1>1, <1>3, <3>3
      <4>3. feed \in OwnFeeds
        BY <3>1, <4>1, <4>2 DEF Listed, ListedForStaff, ListedUser, ListedPromocode
      <4>4. KeyOfRow(feedRow'[s]) = KeyOfRow(feedRow[s])
        BY <4>2, <4>3 DEF KeyOfRow, OwnFeeds
      <4>5. s \in InFeed'
        BY <2>1, <3>1, <4>1 DEF InFeed
      <4>6. QED
        BY <4>4, <4>5
    <3>4. QED
      BY <3>2, <3>3
  <2>3. stable' \subseteq stable /\ stable' \subseteq InFeed'
    <3>1. stable \subseteq Rows
      BY DEF FeedsKnown, WalkKnows, InFeed
    <3>2. QED
      BY <1>1, <2>1, <3>1 DEF InFeed
  <2>4. WriterStep
    BY <1>1, <2>2, <2>3 DEF WriterStep
  <2>5. QED
    BY <2>4, WalkUndisturbed
<1>10. QED
  BY <1>6, <1>7, <1>8, <1>9 DEF FeedsKnown

LEMMA PageRead ==
  ASSUME FeedsKnown, ReadPage PROVE FeedsKnown'
<1>1. PICK q \in Sorted :
        walk' = [page |-> walk.page + 1, shown |-> walk.shown \cup Range(PageOf(q, walk.page)),
                 ended |-> Len(PageOf(q, walk.page)) < PerPage]
  BY DEF ReadPage
<1>2. /\ ~walk.ended
      /\ stable' = IF walk.page = 1 THEN InFeed ELSE stable
      /\ left' = IF walk.page = 1 THEN FALSE ELSE left
      /\ feed' = feed /\ feedRow' = feedRow /\ feedWriter' = feedWriter
      /\ feedClock' = feedClock
  BY DEF ReadPage
<1>3. /\ feed \in FeedNames /\ feedClock \in Nat
      /\ feedRow = [s \in Rows |-> feedRow[s]]
      /\ \A s \in Rows : Present(s) => FeedRowShape(feedRow[s])
      /\ WriterShape(feedWriter)
      /\ feedWriter # IdleFeedWriter => \A s \in feedWriter.rows : ~Present(s)
      /\ walk.page \in Nat \ {0}
  BY DEF FeedsKnown, FeedTyped
<1>4. PICK n, k : n = walk.page /\ k = (n - 1) * PerPage
  OBVIOUS
<1>5. PICK p : p = PageOf(q, n)
  OBVIOUS
<1>6. /\ walk'.page = n + 1 /\ walk'.shown = walk.shown \cup Range(p)
      /\ walk'.ended <=> Len(p) < PerPage
  BY <1>1, <1>4, <1>5
<1>7. n \in Nat \ {0} /\ k \in Nat /\ (n + 1 - 1) * PerPage = k + PerPage
      /\ (n = 1 => k = 0)
  BY <1>3, <1>4, FeedsAssumption
<1>8. FeedTyped'
  <2>1. walk' \in [page : Nat \ {0}, shown : {walk'.shown}, ended : BOOLEAN]
    BY <1>1, <1>3
  <2>2. \A s \in Rows : Present(s)' => FeedRowShape(feedRow[s])'
    BY <1>2, <1>3 DEF Present, FeedRowShape
  <2>3. feedWriter' # IdleFeedWriter => \A s \in feedWriter'.rows : ~Present(s)'
    BY <1>2, <1>3 DEF Present
  <2>4. WriterShape(feedWriter)'
    BY <1>2, <1>3 DEF WriterShape
  <2>5. QED
    BY <1>2, <1>3, <2>1, <2>2, <2>3, <2>4 DEF FeedTyped
<1>9. CreatedApart' /\ FailedApart'
  BY <1>2 DEF FeedsKnown, CreatedApart, FailedApart, OneByOne, Present
<1>10. WalkKnows'
  <2>1. InFeed' = InFeed
    BY <1>2 DEF InFeed, Listed, ListedForStaff, ListedUser, ListedPromocode
  <2>2. stable' \subseteq InFeed'
    BY <1>2, <2>1 DEF FeedsKnown, WalkKnows
  <2>3. ASSUME ~left', NEW r \in stable' \ walk'.shown, ~Tied(r)'
        PROVE  ~walk'.ended /\ Cardinality(AheadOf(r)') >= k + PerPage
    <3>1. AheadOf(r)' = AheadOf(r)
      BY <1>2, <2>1 DEF AheadOf, Ahead, NewestFirst, NewestNoticeFirst, KeyOfRow
    <3>2. ~Tied(r)
      BY <1>2, <2>1, <2>3 DEF Tied, KeyOfRow
    <3>3. r \in InFeed /\ r \notin walk.shown /\ r \notin Range(p)
      BY <1>6, <2>1, <2>2, <2>3
    <3>4. Cardinality(AheadOf(r)) >= k
      <4>1. CASE n = 1
        BY <1>7, <4>1, InFeedFinite
      <4>2. CASE n # 1
        BY <1>2, <1>4, <2>3, <3>2, <3>3, <4>2 DEF FeedsKnown, WalkKnows
      <4>3. QED
        BY <4>1, <4>2
    <3>5. k = (walk.page - 1) * PerPage /\ r \notin Range(PageOf(q, walk.page))
      BY <1>4, <1>5, <3>3
    <3>6. /\ ~(Len(PageOf(q, walk.page)) < PerPage)
          /\ Cardinality(AheadOf(r)) >= k + PerPage
      BY <1>7, <3>2, <3>3, <3>4, <3>5, PageIsAhead
    <3>7. QED
      BY <1>4, <1>5, <1>6, <3>1, <3>6
  <2>4. walk'.page # 1
    BY <1>6, <1>7
  <2>5. (walk'.page - 1) * PerPage = k + PerPage
    BY <1>6, <1>7
  <2>6. QED
    BY <2>2, <2>3, <2>4, <2>5 DEF WalkKnows
<1>11. QED
  BY <1>8, <1>9, <1>10 DEF FeedsKnown

LEMMA FeedsStutter ==
  ASSUME FeedsKnown, UNCHANGED feedVars PROVE FeedsKnown'
<1>1. /\ feed' = feed /\ feedRow' = feedRow /\ feedWriter' = feedWriter /\ walk' = walk
      /\ stable' = stable /\ left' = left /\ feedClock' = feedClock
  BY DEF feedVars
<1>2. FeedTyped'
  BY <1>1 DEF FeedsKnown, FeedTyped, Present, FeedRowShape, WriterShape
<1>3. CreatedApart' /\ FailedApart'
  BY <1>1 DEF FeedsKnown, CreatedApart, FailedApart, OneByOne, Present
<1>4. InFeed' = InFeed
  BY <1>1 DEF InFeed, Listed, ListedForStaff, ListedUser, ListedPromocode
<1>5. WriterStep
  BY <1>1, <1>4 DEF WriterStep, FeedsKnown, WalkKnows
<1>6. QED
  BY <1>2, <1>3, <1>5, WalkUndisturbed DEF FeedsKnown

\* Of every list of the shop: turning the pages to the end shows every row that
\* was there all along, unless a row left the list meanwhile or rows with one
\* timestamp stand in a list whose query leaves open which comes first.
THEOREM NoRowMissed == FeedsSpec => []NoRowSkipped
<1>1. FeedsInit => FeedsKnown
  BY FeedsStart
<1>2. FeedsKnown /\ [FeedsNext]_feedVars => FeedsKnown'
  <2>1. SUFFICES ASSUME FeedsKnown, [FeedsNext]_feedVars PROVE FeedsKnown'
    OBVIOUS
  <2>2. ASSUME NEW rs \in SUBSET Rows, BeginRows(rs) PROVE FeedsKnown'
    BY <2>1, <2>2, RowsBegin
  <2>3. CASE CommitRows
    BY <2>1, <2>3, RowsCommit
  <2>4. ASSUME NEW r \in Rows, InsertRow(r) PROVE FeedsKnown'
    BY <2>1, <2>4, RowInserted
  <2>5. ASSUME NEW rs \in SUBSET Rows, NEW is \in {"finished", "failed"}, ChangeRows(rs, is)
        PROVE  FeedsKnown'
    BY <2>1, <2>5, RowsChanged
  <2>6. CASE ReadPage
    BY <2>1, <2>6, PageRead
  <2>7. CASE UNCHANGED feedVars
    BY <2>1, <2>7, FeedsStutter
  <2>8. ListOrders \/ ListTransactions \/ ListNotifications \/ ListOrdersForStaff
          \/ ListUsers \/ ListPromocodes => ReadPage
    BY DEF ListOrders, ListTransactions, ListNotifications, ListOrdersForStaff, ListUsers,
           ListPromocodes
  <2>9. QED
    BY <2>1, <2>2, <2>3, <2>4, <2>5, <2>6, <2>7, <2>8 DEF FeedsNext
<1>3. FeedsKnown => NoRowSkipped
  BY DEF FeedsKnown, WalkKnows, NoRowSkipped, Tied
<1>4. QED
  BY <1>1, <1>2, <1>3, PTL DEF FeedsSpec
-----------------------------------------------------------------------------
(* The one-time codes of a phone, for any limits, requests and tasks.      *)
(* A code is accepted once, whatever the SMS tasks write back: a task's    *)
(* copy is the record, or another code's record is there by now.  And the  *)
(* counters: the last grants are those of the window that is open.         *)

LogEntry == [at : Nat, wrong : Nat, accepted : Nat, torn : Nat]

OtpShape(r) ==
  r \in [code : {r.code}, attempts : Nat, status : {r.status}, deadline : Nat]
SmsShape(t) ==
  t \in [pc : {t.pc}, tries : {t.tries}, status : {t.status}, snap : {t.snap},
         ttl : {t.ttl}, readAt : {t.readAt}]

\* While its code was never torn, a record has the deadline it was created with.
OnTime(r, l) == l[r.code].torn = 0 => r.deadline = l[r.code].at + OtpTtl

\* The record in Redis: its code was not accepted since it was last brought back,
\* and every wrong guess since then is among its attempts.
RecordKnows(r, l) ==
  /\ OtpShape(r) /\ (r = NoOtp \/ r.code \in DOMAIN l)
  /\ r.code \in DOMAIN l =>
       /\ l[r.code].accepted <= l[r.code].torn
       /\ l[r.code].wrong <= MaxAttempts * l[r.code].torn + r.attempts
       /\ r.attempts < MaxAttempts
       /\ OnTime(r, l)

\* What an SMS task read, and the time to live that it will write: right, or the
\* record is another code's by now, and only a torn write brings the code back.
TaskKnows(t, l, c) ==
  /\ SmsShape(t)
  /\ t.pc \in {"ttl", "put"} =>
       /\ OtpShape(t.snap) /\ t.snap.code \in DOMAIN l
       /\ t.snap.attempts < MaxAttempts /\ OnTime(t.snap, l)
  /\ t.pc = "put" =>
       /\ t.ttl \in Nat /\ t.readAt \in Nat
       /\ \/ l[t.snap.code].torn > 0 \/ t.ttl = 0 \/ c # t.snap.code
          \/ t.ttl + t.readAt = l[t.snap.code].at + OtpTtl

EntryKnows(e) == e.accepted <= 1 + e.torn /\ e.wrong <= MaxAttempts * (1 + e.torn)

LogKnows(l) ==
  /\ l \in Seq(LogEntry)
  /\ \A m \in DOMAIN l : EntryKnows(l[m])

CodesKnown ==
  /\ now \in Nat
  /\ sms = [m \in Mints |-> sms[m]]
  /\ LogKnows(log) /\ RecordKnows(otp, log)
  /\ \A m \in Mints : TaskKnows(sms[m], log, otp.code)

\* What a step leaves of the log, and of the code that is in Redis.
Carries(l, k, c, d) ==
  /\ DOMAIN l \subseteq DOMAIN k
  /\ \A m \in DOMAIN l : k[m].at = l[m].at /\ (k[m].torn = 0 => l[m].torn = 0)
  /\ \A m \in DOMAIN k : k[m].torn \in Nat
  /\ d \in DOMAIN l => d = c \/ k[d].torn > 0

LEMMA LogIs ==
  ASSUME NEW l \in Seq(LogEntry)
  PROVE  /\ Len(l) \in Nat /\ DOMAIN l = 1..Len(l) /\ 0 \notin DOMAIN l
         /\ \A m \in DOMAIN l : l[m] \in LogEntry
OBVIOUS

LEMMA TaskCarried ==
  ASSUME NEW t, NEW l, NEW k, NEW c, NEW d, TaskKnows(t, l, c), Carries(l, k, c, d)
  PROVE  TaskKnows(t, k, d)
<1>1. ASSUME t.pc \in {"ttl", "put"}
      PROVE  /\ OtpShape(t.snap) /\ t.snap.code \in DOMAIN k
             /\ t.snap.attempts < MaxAttempts /\ OnTime(t.snap, k)
  BY <1>1 DEF TaskKnows, Carries, OnTime
<1>2. ASSUME t.pc = "put"
      PROVE  /\ t.ttl \in Nat /\ t.readAt \in Nat
             /\ \/ k[t.snap.code].torn > 0 \/ t.ttl = 0 \/ d # t.snap.code
                \/ t.ttl + t.readAt = k[t.snap.code].at + OtpTtl
  <2>1. t.snap.code \in DOMAIN l
    BY <1>2 DEF TaskKnows
  <2>2. PICK s : s = t.snap.code
    OBVIOUS
  <2>3. /\ k[s].at = l[s].at /\ (k[s].torn = 0 => l[s].torn = 0) /\ k[s].torn \in Nat
        /\ d = s => s = c \/ k[s].torn > 0
    BY <2>1, <2>2 DEF Carries
  <2>4. \/ l[s].torn > 0 \/ t.ttl = 0 \/ c # s
        \/ t.ttl + t.readAt = l[s].at + OtpTtl
    BY <1>2, <2>2 DEF TaskKnows
  <2>5. t.ttl \in Nat /\ t.readAt \in Nat
    BY <1>2 DEF TaskKnows
  <2>6. \/ k[s].torn > 0 \/ t.ttl = 0 \/ d # s
        \/ t.ttl + t.readAt = k[s].at + OtpTtl
    BY <2>3, <2>4
  <2>7. QED
    BY <2>2, <2>5, <2>6
<1>3. SmsShape(t)
  BY DEF TaskKnows
<1>4. QED
  BY <1>1, <1>2, <1>3 DEF TaskKnows

\* A step of one task, and what else has to be shown of it.
LEMMA TaskTurns ==
  ASSUME CodesKnown, NEW m \in Mints, NEW t, sms' = [sms EXCEPT ![m] = t], now' = now,
         LogKnows(log'), RecordKnows(otp', log'), Carries(log, log', otp.code, otp'.code),
         TaskKnows(t, log', otp'.code)
  PROVE  CodesKnown'
<1>1. /\ sms' = [n \in Mints |-> sms'[n]] /\ sms'[m] = t
      /\ \A n \in Mints \ {m} : sms'[n] = sms[n]
  BY DEF CodesKnown
<1>2. \A n \in Mints \ {m} : TaskKnows(sms[n], log', otp'.code)
  BY TaskCarried DEF CodesKnown
<1>3. \A n \in Mints : TaskKnows(sms'[n], log', otp'.code)
  BY <1>1, <1>2
<1>4. QED
  BY <1>1, <1>3 DEF CodesKnown

LEMMA NothingTorn ==
  ASSUME CodesKnown
  PROVE  /\ log \in Seq(LogEntry) /\ Carries(log, log, otp.code, otp.code)
         /\ Carries(log, log, otp.code, 0)
<1>1. log \in Seq(LogEntry)
  BY DEF CodesKnown, LogKnows
<1>2. \A m \in DOMAIN log : log[m].torn \in Nat
  BY <1>1, LogIs DEF LogEntry
<1>3. 0 \notin DOMAIN log
  BY <1>1, LogIs
<1>4. QED
  BY <1>1, <1>2, <1>3 DEF Carries

LEMMA TaskTurnsAlone ==
  ASSUME CodesKnown, NEW m \in Mints, NEW t, sms' = [sms EXCEPT ![m] = t], now' = now,
         log' = log, otp' = otp, TaskKnows(t, log, otp.code)
  PROVE  CodesKnown'
BY TaskTurns, NothingTorn DEF CodesKnown

LEMMA RecordGone ==
  ASSUME NEW l \in Seq(LogEntry)
  PROVE  RecordKnows(NoOtp, l) /\ NoOtp.code = 0
<1>1. 0 \notin DOMAIN l
  BY LogIs
<1>2. QED
  BY <1>1 DEF RecordKnows, OtpShape, NoOtp

LEMMA TaskOver ==
  ASSUME NEW l, NEW c, NEW t, t \in [pc : {"none", "queued", "get", "done"}, tries : {t.tries},
               status : {t.status}, snap : {t.snap}, ttl : {t.ttl}, readAt : {t.readAt}]
  PROVE  TaskKnows(t, l, c)
BY DEF TaskKnows, SmsShape

LEMMA RetriedIs ==
  ASSUME NEW l, NEW c, NEW t
  PROVE  TaskKnows(Retried(t), l, c) /\ TaskKnows([NoSms EXCEPT !.pc = "done"], l, c)
<1>1. PICK q : q = [NoSms EXCEPT !.pc = "done"]
  OBVIOUS
<1>2. PICK r : r = [NoSms EXCEPT !.pc = "queued", !.tries = t.tries + 1]
  OBVIOUS
<1>3. q \in [pc : {"done"}, tries : {q.tries}, status : {q.status}, snap : {q.snap},
             ttl : {q.ttl}, readAt : {q.readAt}]
  BY <1>1 DEF NoSms
<1>4. r \in [pc : {"queued"}, tries : {r.tries}, status : {r.status}, snap : {r.snap},
             ttl : {r.ttl}, readAt : {r.readAt}]
  BY <1>2 DEF NoSms
<1>5. TaskKnows(q, l, c) /\ TaskKnows(r, l, c)
  BY <1>3, <1>4, TaskOver
<1>6. QED
  BY <1>1, <1>2, <1>5 DEF Retried

LEMMA EntryCounts ==
  ASSUME NEW x \in LogEntry
  PROVE  /\ [x EXCEPT !.wrong = @ + 1] \in LogEntry
         /\ [x EXCEPT !.accepted = @ + 1] \in LogEntry
         /\ [x EXCEPT !.torn = @ + 1] \in LogEntry
BY DEF LogEntry

LEMMA EntryWritten ==
  ASSUME NEW l \in Seq(LogEntry), NEW m \in DOMAIN l, NEW e \in LogEntry,
         NEW k, k = [l EXCEPT ![m] = e]
  PROVE  /\ k \in Seq(LogEntry) /\ DOMAIN k = DOMAIN l
         /\ \A n \in DOMAIN l \ {m} : k[n] = l[n]
         /\ k[m] = e
<1>1. l = [n \in 1..Len(l) |-> l[n]] /\ Len(l) \in Nat
  BY LogIs
<1>2. k = [n \in 1..Len(l) |-> IF n = m THEN e ELSE l[n]]
  BY <1>1
<1>3. \A n \in 1..Len(l) : l[n] \in LogEntry
  BY LogIs
<1>4. k \in [1..Len(l) -> LogEntry]
  BY <1>2, <1>3
<1>5. k \in Seq(LogEntry) /\ DOMAIN k = 1..Len(l)
  BY <1>1, <1>4
<1>6. m \in 1..Len(l) /\ DOMAIN l = 1..Len(l)
  BY LogIs
<1>7. QED
  BY <1>2, <1>5, <1>6

LEMMA ProductsOf ==
  ASSUME NEW n \in Nat, NEW a \in Nat
  PROVE  a * n \in Nat /\ a * (1 + n) = a * n + a /\ a * (n + 1) = a * n + a
OBVIOUS

LEMMA EntryKnowsRecord ==
  ASSUME NEW x \in LogEntry, NEW a \in Nat, a < MaxAttempts, x.accepted <= x.torn,
         x.wrong <= MaxAttempts * x.torn + a
  PROVE  /\ EntryKnows(x)
         /\ EntryKnows([x EXCEPT !.accepted = @ + 1])
         /\ EntryKnows([x EXCEPT !.wrong = @ + 1])
<1>1. MaxAttempts \in Nat
  BY OtpAssumption
<1>2. PICK n, w, c : n = x.torn /\ w = x.wrong /\ c = x.accepted
  OBVIOUS
<1>3. n \in Nat /\ w \in Nat /\ c \in Nat
  BY <1>2 DEF LogEntry
<1>4. PICK p : p = MaxAttempts * n
  OBVIOUS
<1>5. p \in Nat /\ MaxAttempts * (1 + n) = p + MaxAttempts
  BY <1>1, <1>3, <1>4, ProductsOf
<1>6. c <= 1 + n /\ c + 1 <= 1 + n /\ w <= p + MaxAttempts /\ w + 1 <= p + MaxAttempts
  BY <1>1, <1>2, <1>3, <1>4, <1>5
<1>7. PICK y : y = [x EXCEPT !.accepted = @ + 1]
  OBVIOUS
<1>8. PICK z : z = [x EXCEPT !.wrong = @ + 1]
  OBVIOUS
<1>9. /\ y.accepted = c + 1 /\ y.wrong = w /\ y.torn = n
      /\ z.accepted = c /\ z.wrong = w + 1 /\ z.torn = n
  BY <1>2, <1>7, <1>8 DEF LogEntry
<1>10. EntryKnows(x) /\ EntryKnows(y) /\ EntryKnows(z)
  BY <1>2, <1>5, <1>6, <1>9 DEF EntryKnows
<1>11. QED
  BY <1>7, <1>8, <1>10

LEMMA OtpStart == ASSUME OtpInit PROVE CodesKnown
<1>1. log = <<>> /\ otp = NoOtp /\ now = 0 /\ sms = [m \in Mints |-> NoSms]
  BY DEF OtpInit
<1>2. log \in Seq(LogEntry) /\ DOMAIN log = {}
  BY <1>1
<1>3. \A m \in Mints : TaskKnows(sms[m], log, otp.code)
  BY <1>1 DEF TaskKnows, SmsShape, NoSms
<1>4. QED
  BY <1>1, <1>2, <1>3, RecordGone DEF CodesKnown, LogKnows

LEMMA TicksKnown == ASSUME CodesKnown, Tick PROVE CodesKnown'
BY DEF Tick, CodesKnown

LEMMA ReservesKnown ==
  ASSUME CodesKnown, NEW h \in Handlers, ReserveRateLimit(h) PROVE CodesKnown'
BY DEF ReserveRateLimit, CodesKnown

LEMMA CreatesKnown ==
  ASSUME CodesKnown, NEW h \in Handlers, CreateOtp(h) PROVE CodesKnown'
<1>1. PICK e : e = [at |-> now, wrong |-> 0, accepted |-> 0, torn |-> 0]
  OBVIOUS
<1>2. PICK r : r = [code |-> Len(log) + 1, attempts |-> 0, status |-> "created",
                    deadline |-> now + OtpTtl]
  OBVIOUS
<1>3. otp' = r /\ log' = Append(log, e) /\ sms' = sms /\ now' = now
  BY <1>1, <1>2 DEF CreateOtp
<1>4. /\ now \in Nat /\ log \in Seq(LogEntry)
      /\ \A m \in DOMAIN log : EntryKnows(log[m])
      /\ \A m \in Mints : TaskKnows(sms[m], log, otp.code)
  BY DEF CodesKnown, LogKnows
<1>5. e \in LogEntry /\ OtpTtl \in Nat /\ MaxAttempts \in Nat \ {0}
  BY <1>1, <1>4, OtpAssumption DEF LogEntry
<1>6. PICK n : n = Len(log)
  OBVIOUS
<1>7. /\ n \in Nat /\ DOMAIN log = 1..n /\ log' \in Seq(LogEntry)
      /\ DOMAIN log' = 1..(n + 1) /\ log'[n + 1] = e
      /\ \A m \in 1..n : log'[m] = log[m] /\ log[m] \in LogEntry
  BY <1>3, <1>4, <1>5, <1>6, LogIs
<1>8. EntryKnows(e)
  BY <1>1, <1>5 DEF EntryKnows
<1>9. LogKnows(log')
  <2>1. \A m \in 1..(n + 1) : m = n + 1 \/ m \in 1..n
    BY <1>7
  <2>2. QED
    BY <1>4, <1>7, <1>8, <2>1 DEF LogKnows
<1>10. RecordKnows(r, log')
  <2>1. r.code = n + 1 /\ r.attempts = 0 /\ r.deadline = now + OtpTtl
    BY <1>2, <1>6
  <2>2. OtpShape(r)
    BY <1>2, <1>4, <1>5 DEF OtpShape
  <2>3. log'[r.code] = e /\ r.code \in DOMAIN log'
    BY <1>7, <2>1
  <2>4. e.accepted = 0 /\ e.wrong = 0 /\ e.torn = 0 /\ e.at = now
    BY <1>1
  <2>5. MaxAttempts * e.torn + r.attempts = 0 /\ r.attempts < MaxAttempts
    BY <1>5, <2>1, <2>4
  <2>6. QED
    BY <2>1, <2>2, <2>3, <2>4, <2>5 DEF RecordKnows, OnTime
<1>11. Carries(log, log', otp.code, r.code)
  <2>1. \A m \in 1..(n + 1) : log'[m] \in LogEntry
    BY <1>7, LogIs
  <2>2. r.code \notin DOMAIN log
    BY <1>2, <1>6, <1>7
  <2>3. \A m \in DOMAIN log' : log'[m].torn \in Nat
    BY <1>7, <2>1 DEF LogEntry
  <2>4. \A m \in DOMAIN log : m \in DOMAIN log' /\ log'[m] = log[m]
    BY <1>7
  <2>5. QED
    BY <2>2, <2>3, <2>4 DEF Carries
<1>12. \A m \in Mints : TaskKnows(sms[m], log', r.code)
  BY <1>4, <1>11, TaskCarried
<1>13. QED
  BY <1>3, <1>4, <1>9, <1>10, <1>12 DEF CodesKnown

LEMMA SendsKnown ==
  ASSUME CodesKnown, NEW h \in Handlers, SendTask(h) PROVE CodesKnown'
<1>1. PICK c : c = handler[h].code
  OBVIOUS
<1>2. /\ sms' = [sms EXCEPT ![c].pc = "queued"]
      /\ otp' = otp /\ log' = log /\ now' = now
  BY <1>1 DEF SendTask
<1>3. CASE c \notin Mints
  <2>1. sms' = sms
    BY <1>2, <1>3 DEF CodesKnown
  <2>2. QED
    BY <1>2, <2>1 DEF CodesKnown
<1>4. CASE c \in Mints
  <2>1. PICK t : t = [sms[c] EXCEPT !.pc = "queued"]
    OBVIOUS
  <2>2. sms' = [sms EXCEPT ![c] = t]
    BY <1>2, <2>1
  <2>3. PICK q : q = sms[c]
    OBVIOUS
  <2>4. SmsShape(q)
    BY <1>4, <2>3 DEF CodesKnown, TaskKnows
  <2>5. t \in [pc : {"queued"}, tries : {t.tries}, status : {t.status}, snap : {t.snap},
               ttl : {t.ttl}, readAt : {t.readAt}]
    BY <2>1, <2>3, <2>4 DEF SmsShape
  <2>6. TaskKnows(t, log, otp.code)
    BY <2>5, TaskOver
  <2>7. QED
    BY <1>2, <1>4, <2>2, <2>6, TaskTurnsAlone
<1>5. QED
  BY <1>3, <1>4

LEMMA StoredIs ==
  ASSUME CodesKnown, Stored # NoOtp
  PROVE  Stored = otp /\ otp.deadline > now /\ otp.code \in DOMAIN log
BY DEF CodesKnown, RecordKnows, Stored

\* A guess: the record it leaves, and the counter that it moves.
LEMMA GuessKnown ==
  ASSUME CodesKnown, Verifiable, NEW f \in {"accepted", "wrong"}, NEW r,
         log' = Counted(otp.code, f), otp' = r, UNCHANGED <<now, sms>>,
         r = NoOtp \/
           (f = "wrong" /\ otp.attempts + 1 < MaxAttempts /\ r = [otp EXCEPT !.attempts = @ + 1])
  PROVE  CodesKnown'
<1>1. Stored = otp /\ otp.code \in DOMAIN log
  BY StoredIs DEF Verifiable, NoOtp
<1>2. PICK m : m = otp.code
  OBVIOUS
<1>3. m \in DOMAIN log /\ log \in Seq(LogEntry) /\ f \in {"wrong", "accepted", "torn"}
  BY <1>1, <1>2 DEF CodesKnown, LogKnows
<1>4. PICK x \in LogEntry : x = log[m]
  BY <1>3, LogIs
<1>5. PICK e \in LogEntry : /\ log' = [log EXCEPT ![m] = e]
                            /\ f = "accepted" => e = [x EXCEPT !.accepted = @ + 1]
                            /\ f = "wrong" => e = [x EXCEPT !.wrong = @ + 1]
  <2>1. CASE f = "accepted"
    <3>1. PICK e : e = [x EXCEPT !.accepted = @ + 1]
      OBVIOUS
    <3>2. log' = [log EXCEPT ![m] = e]
      BY <1>2, <1>4, <2>1, <3>1 DEF Counted
    <3>3. e \in LogEntry
      BY <1>4, <3>1, EntryCounts
    <3>4. QED
      BY <2>1, <3>1, <3>2, <3>3
  <2>2. CASE f = "wrong"
    <3>1. PICK e : e = [x EXCEPT !.wrong = @ + 1]
      OBVIOUS
    <3>2. log' = [log EXCEPT ![m] = e]
      BY <1>2, <1>4, <2>2, <3>1 DEF Counted
    <3>3. e \in LogEntry
      BY <1>4, <3>1, EntryCounts
    <3>4. QED
      BY <2>2, <3>1, <3>2, <3>3
  <2>3. QED
    BY <2>1, <2>2
<1>6. /\ log' \in Seq(LogEntry) /\ DOMAIN log' = DOMAIN log
      /\ \A n \in DOMAIN log \ {m} : log'[n] = log[n]
      /\ log'[m] = e
  BY <1>3, <1>5, EntryWritten
<1>7. /\ f = "accepted" => log'[m] = [x EXCEPT !.accepted = @ + 1]
      /\ f = "wrong" => log'[m] = [x EXCEPT !.wrong = @ + 1]
  BY <1>5, <1>6
<1>8. /\ log'[m].at = x.at /\ log'[m].torn = x.torn
      /\ f = "wrong" => log'[m].accepted = x.accepted /\ log'[m].wrong = x.wrong + 1
  BY <1>4, <1>7 DEF LogEntry
<1>9. /\ OtpShape(otp) /\ x.accepted <= x.torn
      /\ x.wrong <= MaxAttempts * x.torn + otp.attempts
      /\ otp.attempts < MaxAttempts /\ otp.attempts \in Nat
      /\ OnTime(otp, log)
  BY <1>2, <1>3, <1>4 DEF CodesKnown, RecordKnows, OtpShape
<1>10. LogKnows(log')
  <2>1. EntryKnows(log'[m])
    BY <1>4, <1>7, <1>9, EntryKnowsRecord
  <2>2. QED
    BY <1>6, <2>1 DEF CodesKnown, LogKnows
<1>11. RecordKnows(r, log')
  <2>1. CASE r = NoOtp
    BY <1>6, <2>1, RecordGone
  <2>2. CASE r # NoOtp
    <3>1. f = "wrong" /\ otp.attempts + 1 < MaxAttempts /\ r = [otp EXCEPT !.attempts = @ + 1]
      BY <2>2
    <3>2. PICK q, a : q = otp /\ a = otp.attempts
      OBVIOUS
    <3>3. /\ r.code = m /\ r.attempts = a + 1 /\ r.deadline = otp.deadline
          /\ OtpShape(r)
      BY <1>2, <1>9, <3>1, <3>2 DEF OtpShape
    <3>4. log'[m].accepted <= log'[m].torn
      BY <1>8, <1>9, <3>1
    <3>5. log'[m].wrong <= MaxAttempts * log'[m].torn + r.attempts
      <4>1. PICK p : p = MaxAttempts * x.torn
        OBVIOUS
      <4>2. p \in Nat /\ x.wrong \in Nat
        BY <1>4, <4>1, OtpAssumption, ProductsOf DEF LogEntry
      <4>3. x.wrong + 1 <= p + (a + 1)
        BY <1>9, <3>2, <4>1, <4>2
      <4>4. QED
        BY <1>8, <3>1, <3>3, <4>1, <4>3
    <3>6. OnTime(r, log')
      BY <1>2, <1>4, <1>8, <1>9, <3>3 DEF OnTime
    <3>7. r.attempts < MaxAttempts
      BY <3>1, <3>2, <3>3
    <3>8. QED
      BY <1>3, <1>6, <3>3, <3>4, <3>5, <3>6, <3>7 DEF RecordKnows
  <2>3. QED
    BY <2>1, <2>2
<1>12. Carries(log, log', otp.code, r.code)
  <2>1. \A n \in DOMAIN log : log'[n].at = log[n].at /\ log'[n].torn = log[n].torn
    BY <1>4, <1>6, <1>8
  <2>2. \A n \in DOMAIN log : log[n].torn \in Nat
    BY <1>3, LogIs DEF LogEntry
  <2>3. r.code = 0 \/ r.code = otp.code
    BY <1>9 DEF OtpShape, NoOtp
  <2>4. 0 \notin DOMAIN log
    BY <1>3, LogIs
  <2>5. QED
    BY <1>6, <2>1, <2>2, <2>3, <2>4 DEF Carries
<1>13. \A n \in Mints : TaskKnows(sms[n], log', r.code)
  BY <1>12, TaskCarried DEF CodesKnown
<1>14. QED
  BY <1>10, <1>11, <1>13 DEF CodesKnown

LEMMA VerifiesKnown == ASSUME CodesKnown, VerifyOtp PROVE CodesKnown'
<1>1. Verifiable
  BY DEF VerifyOtp, VerifyRight, VerifyWrong
<1>2. Stored = otp
  BY <1>1, StoredIs DEF Verifiable, NoOtp
<1>3. CASE VerifyRight
  <2>1. log' = Counted(otp.code, "accepted") /\ otp' = NoOtp /\ UNCHANGED <<now, sms>>
    BY <1>2, <1>3 DEF VerifyRight
  <2>2. QED
    BY <1>1, <2>1, GuessKnown
<1>4. CASE \E guess \in 0..Len(log) : VerifyWrong(guess)
  <2>1. /\ log' = Counted(otp.code, "wrong") /\ UNCHANGED <<now, sms>>
        /\ otp' = IF AttemptsSpent THEN NoOtp ELSE [otp EXCEPT !.attempts = @ + 1]
    BY <1>2, <1>4 DEF VerifyWrong
  <2>2. CASE AttemptsSpent
    BY <1>1, <2>1, <2>2, GuessKnown
  <2>3. CASE ~AttemptsSpent
    <3>1. otp.attempts \in Nat /\ MaxAttempts \in Nat
      BY OtpAssumption DEF CodesKnown, RecordKnows, OtpShape
    <3>2. otp.attempts + 1 < MaxAttempts
      BY <1>2, <2>3, <3>1 DEF AttemptsSpent
    <3>3. QED
      BY <1>1, <2>1, <2>3, <3>2, GuessKnown
  <2>4. QED
    BY <2>2, <2>3
<1>5. QED
  BY <1>3, <1>4 DEF VerifyOtp

-----------------------------------------------------------------------------
LEMMA DeliversKnown ==
  ASSUME CodesKnown, NEW m \in Mints, Delivered(m) \/ NotDelivered(m) PROVE CodesKnown'
<1>1. PICK q : q = sms[m]
  OBVIOUS
<1>2. SmsShape(q)
  BY <1>1 DEF CodesKnown, TaskKnows
<1>3. PICK t : /\ sms' = [sms EXCEPT ![m] = t]
               /\ \/ t = Retried(q)
                  \/ \E s : t = [q EXCEPT !.pc = "get", !.status = s]
  BY <1>1 DEF Delivered, NotDelivered, Turn
<1>4. now' = now /\ log' = log /\ otp' = otp
  BY DEF Delivered, NotDelivered, Turn
<1>5. TaskKnows(t, log, otp.code)
  <2>1. CASE t = Retried(q)
    BY <2>1, RetriedIs
  <2>2. ASSUME NEW s, t = [q EXCEPT !.pc = "get", !.status = s]
        PROVE  TaskKnows(t, log, otp.code)
    <3>1. t \in [pc : {"get"}, tries : {t.tries}, status : {t.status}, snap : {t.snap},
                 ttl : {t.ttl}, readAt : {t.readAt}]
      BY <1>2, <2>2 DEF SmsShape
    <3>2. QED
      BY <3>1, TaskOver
  <2>3. QED
    BY <1>3, <2>1, <2>2
<1>6. QED
  BY <1>3, <1>4, <1>5, TaskTurnsAlone

LEMMA GetsKnown ==
  ASSUME CodesKnown, NEW m \in Mints, UpdateGet(m) PROVE CodesKnown'
<1>1. PICK q : q = sms[m]
  OBVIOUS
<1>2. SmsShape(q)
  BY <1>1 DEF CodesKnown, TaskKnows
<1>3. now' = now /\ log' = log /\ otp' = otp
  BY DEF UpdateGet, Turn
<1>4. CASE Stored = NoOtp
  <2>1. sms' = [sms EXCEPT ![m] = [NoSms EXCEPT !.pc = "done"]]
    BY <1>4 DEF UpdateGet, Turn
  <2>2. QED
    BY <1>3, <2>1, RetriedIs, TaskTurnsAlone
<1>5. CASE Stored # NoOtp
  <2>1. PICK t : t = [q EXCEPT !.pc = "ttl", !.snap = otp]
    OBVIOUS
  <2>2. sms' = [sms EXCEPT ![m] = t]
    BY <1>1, <1>5, <2>1, StoredIs DEF UpdateGet, Turn
  <2>3. t.pc = "ttl" /\ t.snap = otp /\ SmsShape(t)
    BY <1>2, <2>1 DEF SmsShape
  <2>4. otp.code \in DOMAIN log
    BY <1>5, StoredIs
  <2>5. OtpShape(otp) /\ otp.attempts < MaxAttempts /\ OnTime(otp, log)
    BY <2>4 DEF CodesKnown, RecordKnows
  <2>6. TaskKnows(t, log, otp.code)
    BY <2>3, <2>4, <2>5 DEF TaskKnows
  <2>7. QED
    BY <1>3, <2>2, <2>6, TaskTurnsAlone
<1>6. QED
  BY <1>4, <1>5

LEMMA TtlKnown ==
  ASSUME CodesKnown, NEW m \in Mints, UpdateTtl(m) PROVE CodesKnown'
<1>1. PICK q : q = sms[m]
  OBVIOUS
<1>2. /\ SmsShape(q) /\ OtpShape(q.snap) /\ q.snap.code \in DOMAIN log
      /\ q.snap.attempts < MaxAttempts /\ OnTime(q.snap, log)
  BY <1>1 DEF CodesKnown, TaskKnows, UpdateTtl, Turn
<1>3. now' = now /\ log' = log /\ otp' = otp
  BY DEF UpdateTtl, Turn
<1>4. PICK l : l = IF Stored = NoOtp THEN 0 ELSE otp.deadline - now
  OBVIOUS
<1>5. PICK t : t = [q EXCEPT !.pc = "put", !.readAt = now, !.ttl = l]
  OBVIOUS
<1>6. sms' = [sms EXCEPT ![m] = t]
  BY <1>1, <1>4, <1>5 DEF UpdateTtl, Turn
<1>7. t.pc = "put" /\ t.snap = q.snap /\ t.ttl = l /\ t.readAt = now /\ SmsShape(t)
  BY <1>2, <1>5 DEF SmsShape
<1>8. now \in Nat /\ OtpShape(otp)
  BY DEF CodesKnown, RecordKnows
<1>9. l \in Nat
  BY <1>4, <1>8, StoredIs DEF OtpShape
<1>10. \/ log[q.snap.code].torn > 0 \/ l = 0 \/ otp.code # q.snap.code
       \/ l + now = log[q.snap.code].at + OtpTtl
  <2>1. SUFFICES ASSUME l # 0, otp.code = q.snap.code, ~(log[q.snap.code].torn > 0)
                 PROVE  l + now = log[q.snap.code].at + OtpTtl
    OBVIOUS
  <2>2. Stored # NoOtp /\ l = otp.deadline - now
    BY <1>4, <2>1
  <2>3. OnTime(otp, log) /\ otp.code \in DOMAIN log
    BY <1>2, <2>1 DEF CodesKnown, RecordKnows
  <2>4. log[otp.code].torn \in Nat
    BY <2>3, NothingTorn, LogIs DEF LogEntry
  <2>5. log[otp.code].torn = 0
    BY <2>1, <2>4
  <2>6. otp.deadline = log[otp.code].at + OtpTtl
    BY <2>3, <2>5 DEF OnTime
  <2>7. otp.deadline \in Nat
    BY <1>8 DEF OtpShape
  <2>8. l + now = otp.deadline
    BY <1>8, <2>2, <2>7
  <2>9. QED
    BY <2>1, <2>6, <2>8
<1>11. TaskKnows(t, log, otp.code)
  BY <1>2, <1>7, <1>8, <1>9, <1>10 DEF TaskKnows
<1>12. QED
  BY <1>3, <1>6, <1>11, TaskTurnsAlone

\* The write: of the record as it is, or torn.
LEMMA AppliedKnown ==
  ASSUME CodesKnown, NEW m \in Mints, sms[m].pc = "put", UpdateApplied(sms[m])
  PROVE  /\ LogKnows(log') /\ RecordKnows(otp', log')
         /\ Carries(log, log', otp.code, otp'.code)
<1>1. PICK t : t = sms[m]
  OBVIOUS
<1>2. PICK s, k : s = t.snap /\ k = t.snap.code
  OBVIOUS
<1>3. /\ OtpShape(s) /\ s.code = k /\ k \in DOMAIN log /\ s.attempts < MaxAttempts
      /\ t.ttl \in Nat /\ t.readAt \in Nat
      /\ \/ log[k].torn > 0 \/ t.ttl = 0 \/ otp.code # k
         \/ t.ttl + t.readAt = log[k].at + OtpTtl
  BY <1>1, <1>2 DEF CodesKnown, TaskKnows
<1>4. now \in Nat /\ log \in Seq(LogEntry) /\ LogKnows(log) /\ RecordKnows(otp, log)
  BY DEF CodesKnown, LogKnows
<1>5. UpdateApplied(t)
  BY <1>1
<1>6. CASE otp' = otp /\ log' = log
  BY <1>4, <1>6, NothingTorn
<1>7. CASE otp' = NoOtp /\ log' = log
  BY <1>4, <1>7, NothingTorn, RecordGone
<1>8. CASE t.status = "sent" /\ t.ttl > 0
  <2>1. PICK r : r = [s EXCEPT !.status = t.status, !.deadline = now + t.ttl]
    OBVIOUS
  <2>2. otp' = r /\ log' = IF Torn(t) THEN Counted(k, "torn") ELSE log
    BY <1>2, <1>5, <1>8, <2>1 DEF UpdateApplied, Rewritten
  <2>3. r.code = k /\ r.attempts = s.attempts /\ r.deadline = now + t.ttl /\ OtpShape(r)
    <3>1. PICK d : d = now + t.ttl
      OBVIOUS
    <3>2. d \in Nat
      BY <1>3, <1>4, <3>1
    <3>3. r = [s EXCEPT !.status = t.status, !.deadline = d]
      BY <2>1, <3>1
    <3>4. s \in [code : {s.code}, attempts : Nat, status : {s.status}, deadline : Nat]
      BY <1>3 DEF OtpShape
    <3>5. /\ r.code = s.code /\ r.attempts = s.attempts /\ r.deadline = d
          /\ r \in [code : {r.code}, attempts : Nat, status : {r.status}, deadline : Nat]
      BY <3>2, <3>3, <3>4
    <3>6. QED
      BY <1>3, <3>1, <3>5 DEF OtpShape
  <2>4. PICK x \in LogEntry : x = log[k]
    BY <1>3, <1>4, LogIs
  <2>5. CASE Torn(t)
    <3>1. PICK y : y = [x EXCEPT !.torn = @ + 1]
      OBVIOUS
    <3>2. y \in LogEntry
      BY <2>4, <3>1, EntryCounts
    <3>3. log' = [log EXCEPT ![k] = y]
      BY <2>2, <2>4, <2>5, <3>1 DEF Counted
    <3>4. /\ log' \in Seq(LogEntry) /\ DOMAIN log' = DOMAIN log
          /\ \A n \in DOMAIN log \ {k} : log'[n] = log[n]
          /\ log'[k] = y
      BY <1>3, <1>4, <3>2, <3>3, EntryWritten
    <3>5. /\ y.at = x.at /\ y.accepted = x.accepted /\ y.wrong = x.wrong
          /\ y.torn = x.torn + 1
      BY <2>4, <3>1 DEF LogEntry
    <3>6. x.accepted <= 1 + x.torn /\ x.wrong <= MaxAttempts * (1 + x.torn)
      BY <1>3, <1>4, <2>4 DEF LogKnows, EntryKnows
    <3>7. PICK p : p = MaxAttempts * x.torn + MaxAttempts
      OBVIOUS
    <3>8. /\ x.torn \in Nat /\ x.wrong \in Nat /\ x.accepted \in Nat
          /\ s.attempts \in Nat /\ MaxAttempts \in Nat
      BY <1>3, <2>4, OtpAssumption DEF LogEntry, OtpShape
    <3>9. /\ p \in Nat /\ MaxAttempts * (1 + x.torn) = p /\ MaxAttempts * (x.torn + 1) = p
          /\ MaxAttempts * (1 + (x.torn + 1)) = p + MaxAttempts
      <4>1. x.torn + 1 \in Nat
        BY <3>8
      <4>2. MaxAttempts * x.torn \in Nat
        BY <3>8, ProductsOf
      <4>3. MaxAttempts * (1 + x.torn) = p /\ MaxAttempts * (x.torn + 1) = p
        BY <3>7, <3>8, ProductsOf
      <4>4. MaxAttempts * (1 + (x.torn + 1)) = MaxAttempts * (x.torn + 1) + MaxAttempts
        BY <3>8, <4>1, ProductsOf
      <4>5. QED
        BY <3>7, <3>8, <4>2, <4>3, <4>4
    <3>10. y.accepted <= y.torn /\ y.wrong <= MaxAttempts * y.torn + s.attempts
      BY <3>5, <3>6, <3>8, <3>9
    <3>11. EntryKnows(y)
      BY <3>5, <3>6, <3>8, <3>9 DEF EntryKnows
    <3>12. LogKnows(log')
      BY <1>4, <3>4, <3>11 DEF LogKnows
    <3>13. RecordKnows(r, log')
      <4>1. y.torn # 0
        BY <3>5, <3>8
      <4>2. OnTime(r, log')
        BY <2>3, <3>4, <4>1 DEF OnTime
      <4>3. QED
        BY <1>3, <2>3, <3>4, <3>10, <4>2 DEF RecordKnows
    <3>14. Carries(log, log', otp.code, r.code)
      <4>1. \A n \in DOMAIN log : log[n] \in LogEntry
        BY <1>4, LogIs
      <4>2. y.torn \in Nat /\ y.torn > 0 /\ (y.torn = 0 => x.torn = 0)
        BY <3>5, <3>8
      <4>3. \A n \in DOMAIN log : n = k \/ log'[n] = log[n]
        BY <3>4
      <4>4. \A n \in DOMAIN log' : log'[n].torn \in Nat
        BY <3>4, <4>1, <4>2, <4>3 DEF LogEntry
      <4>5. \A n \in DOMAIN log :
              log'[n].at = log[n].at /\ (log'[n].torn = 0 => log[n].torn = 0)
        BY <2>4, <3>4, <3>5, <4>2, <4>3
      <4>6. log'[r.code].torn > 0
        BY <2>3, <3>4, <4>2
      <4>7. QED
        BY <3>4, <4>4, <4>5, <4>6 DEF Carries
    <3>15. QED
      BY <2>2, <3>12, <3>13, <3>14
  <2>6. CASE ~Torn(t)
    <3>1. s = Stored /\ t.readAt = now /\ log' = log
      BY <1>2, <2>2, <2>6 DEF Torn
    <3>2. s # NoOtp
      <4>1. 0 \notin DOMAIN log
        BY <1>4, LogIs
      <4>2. QED
        BY <1>3, <4>1 DEF NoOtp
    <3>3. s = otp /\ otp.code = k
      BY <1>3, <3>1, <3>2, StoredIs
    <3>4. /\ x.accepted <= x.torn /\ x.wrong <= MaxAttempts * x.torn + s.attempts
      BY <1>3, <1>4, <2>4, <3>3 DEF RecordKnows
    <3>5. OnTime(r, log)
      <4>1. SUFFICES ASSUME x.torn = 0 PROVE r.deadline = x.at + OtpTtl
        BY <2>3, <2>4 DEF OnTime
      <4>2. t.ttl + t.readAt = x.at + OtpTtl
        BY <1>3, <1>8, <2>4, <3>3, <4>1
      <4>3. t.ttl + t.readAt = now + t.ttl
        BY <1>3, <1>4, <3>1
      <4>4. QED
        BY <2>3, <4>2, <4>3
    <3>6. RecordKnows(r, log)
      BY <1>3, <2>3, <2>4, <3>4, <3>5 DEF RecordKnows
    <3>7. r.code = otp.code
      BY <2>3, <3>3
    <3>8. QED
      BY <1>4, <2>2, <3>1, <3>6, <3>7, NothingTorn
  <2>7. QED
    BY <2>5, <2>6
<1>9. QED
  BY <1>5, <1>6, <1>7, <1>8 DEF UpdateApplied

LEMMA PutsKnown ==
  ASSUME CodesKnown, NEW m \in Mints, UpdatePut(m) PROVE CodesKnown'
<1>1. PICK t : t = [NoSms EXCEPT !.pc = "done"]
  OBVIOUS
<1>2. /\ sms' = [sms EXCEPT ![m] = t] /\ now' = now /\ sms[m].pc = "put"
      /\ UpdateApplied(sms[m])
  BY <1>1 DEF UpdatePut, Turn
<1>3. TaskKnows(t, log', otp'.code)
  BY <1>1, RetriedIs
<1>4. QED
  BY <1>2, <1>3, AppliedKnown, TaskTurns

LEMMA LosesKnown ==
  ASSUME CodesKnown, NEW m \in Mints, UpdateLost(m) PROVE CodesKnown'
<1>1. PICK t : t = Retried(sms[m])
  OBVIOUS
<1>2. /\ sms' = [sms EXCEPT ![m] = t] /\ now' = now
      /\ \/ otp' = otp /\ log' = log
         \/ sms[m].pc = "put" /\ UpdateApplied(sms[m])
  BY <1>1 DEF UpdateLost, Turn
<1>3. TaskKnows(t, log', otp'.code)
  BY <1>1, RetriedIs
<1>4. CASE otp' = otp /\ log' = log
  BY <1>2, <1>3, <1>4, TaskTurnsAlone
<1>5. CASE sms[m].pc = "put" /\ UpdateApplied(sms[m])
  BY <1>2, <1>3, <1>5, AppliedKnown, TaskTurns
<1>6. QED
  BY <1>2, <1>4, <1>5

LEMMA OtpStepKnown == CodesKnown /\ [OtpNext]_otpVars => CodesKnown'
<1>1. SUFFICES ASSUME CodesKnown, [OtpNext]_otpVars PROVE CodesKnown'
  OBVIOUS
<1>2. CASE Tick
  BY <1>1, <1>2, TicksKnown
<1>3. ASSUME NEW h \in Handlers, ReserveRateLimit(h) \/ CreateOtp(h) \/ SendTask(h)
      PROVE  CodesKnown'
  BY <1>1, <1>3, ReservesKnown, CreatesKnown, SendsKnown
<1>4. CASE VerifyOtp
  BY <1>1, <1>4, VerifiesKnown
<1>5. ASSUME NEW m \in Mints,
             \/ Delivered(m) \/ NotDelivered(m) \/ UpdateGet(m)
             \/ UpdateTtl(m) \/ UpdatePut(m) \/ UpdateLost(m)
      PROVE  CodesKnown'
  BY <1>1, <1>5, DeliversKnown, GetsKnown, TtlKnown, PutsKnown, LosesKnown
<1>6. CASE UNCHANGED otpVars
  BY <1>1, <1>6 DEF otpVars, CodesKnown
<1>7. QED
  BY <1>1, <1>2, <1>3, <1>4, <1>5, <1>6 DEF OtpNext, SendCode

\* otp.py, verify_otp, and sms-worker tasks/otp.py: for any limits and any number
\* of requests and tasks, a code works once and takes MaxAttempts wrong guesses,
\* and once more for each torn status write; and no other write prolongs it.
THEOREM CodeWorksOnce == OtpSpec => []CodeSpent
<1>1. OtpInit => CodesKnown
  BY OtpStart
<1>2. CodesKnown => CodeSpent
  <2>1. SUFFICES ASSUME CodesKnown PROVE CodeSpent
    OBVIOUS
  <2>2. \A m \in Minted : EntryKnows(log[m])
    BY <2>1 DEF CodesKnown, LogKnows, Minted
  <2>3. ASSUME Stored # NoOtp, log[otp.code].torn = 0
        PROVE  otp.deadline <= log[otp.code].at + OtpTtl
    <3>1. otp.code \in DOMAIN log /\ OtpShape(otp)
      BY <2>1, <2>3, StoredIs DEF CodesKnown, RecordKnows
    <3>2. otp.deadline = log[otp.code].at + OtpTtl
      BY <2>1, <2>3, <3>1 DEF CodesKnown, RecordKnows, OnTime
    <3>3. otp.deadline \in Nat
      BY <3>1 DEF OtpShape
    <3>4. QED
      BY <3>2, <3>3
  <2>4. QED
    BY <2>2, <2>3 DEF CodeSpent, EntryKnows
<1>3. QED
  BY <1>1, <1>2, OtpStepKnown, PTL DEF OtpSpec

-----------------------------------------------------------------------------
(* How much quota a counter has granted                                    *)

\* A set of numbers has a least one.
LEMMA LeastOf ==
  ASSUME NEW S \in SUBSET Nat, S # {}
  PROVE  \E a \in S : \A y \in S : a <= y
<1>1. PICK R : R = OpToRel(<, Nat)
  OBVIOUS
<1>2. IsWellFoundedOn(R, Nat)
  BY <1>1, NatLessThanWellFounded
<1>3. PICK a \in S : \A y \in S : ~(<<y, a>> \in R)
  BY <1>2, WFMin
<1>4. R = {ss \in Nat \X Nat : ss[1] < ss[2]}
  BY <1>1 DEF OpToRel
<1>5. \A y \in S : ~(y < a)
  BY <1>3, <1>4
<1>6. QED
  BY <1>3, <1>5

\* q: when quota was granted, in order.
Granted(q, t) ==
  /\ q \in Seq(Nat) /\ \A i \in 1..Len(q) : q[i] <= t
  /\ \A i, j \in 1..Len(q) : i <= j => q[i] <= q[j]

\* A counter c with deadline d: the last c grants are those of its window, which
\* began with the first of them, at least a length after the window before it; and
\* two full windows of grants never fit into one length.
CounterKnows(q, c, d, lim, len) ==
  /\ c \in Nat /\ d \in Nat /\ c <= lim /\ c <= Len(q)
  /\ Len(q) > 0 => c > 0
  /\ \A k \in 1..Len(q) : k + c = Len(q) + 1 => q[k] + len = d
  /\ \A e, k \in 1..Len(q) :
       k + c = Len(q) + 1 /\ e + lim = k => q[e] + len <= q[k]
  /\ \A i, m \in 1..Len(q) : m + 1 = i + 2 * lim => q[i] + len <= q[m]

QuotaKnown ==
  /\ now \in Nat /\ Granted(reserved, now)
  /\ \A w \in Windows :
       /\ rate[w] \in [count : {rate[w].count}, deadline : {rate[w].deadline}]
       /\ CounterKnows(reserved, rate[w].count, rate[w].deadline, Limit[w], Length[w])

LEMMA GrantAppended ==
  ASSUME NEW q, NEW t \in Nat, Granted(q, t), NEW p, p = Append(q, t)
  PROVE  /\ Granted(p, t) /\ Len(q) \in Nat /\ Len(p) = Len(q) + 1
         /\ p[Len(q) + 1] = t /\ \A i \in 1..Len(q) : p[i] = q[i] /\ q[i] \in Nat /\ q[i] <= t
<1>1. q \in Seq(Nat) /\ \A i \in 1..Len(q) : q[i] <= t
  BY DEF Granted
<1>2. PICK n : n = Len(q)
  OBVIOUS
<1>3. n \in Nat /\ \A i \in 1..n : q[i] \in Nat
  BY <1>1, <1>2
<1>4. p \in Seq(Nat) /\ Len(p) = n + 1 /\ p[n + 1] = t /\ \A i \in 1..n : p[i] = q[i]
  BY <1>1, <1>2, <1>3
<1>5. \A i \in 1..(n + 1) : i = n + 1 \/ i \in 1..n
  BY <1>3
<1>6. \A i, j \in 1..n : i <= j => q[i] <= q[j]
  BY <1>2 DEF Granted
<1>7. \A i \in 1..(n + 1) : p[i] <= t
  BY <1>1, <1>2, <1>4, <1>5
<1>8. \A i, j \in 1..(n + 1) : i <= j => p[i] <= p[j]
  <2>1. SUFFICES ASSUME NEW i \in 1..(n + 1), NEW j \in 1..(n + 1), i <= j
                 PROVE  p[i] <= p[j]
    OBVIOUS
  <2>2. CASE j = n + 1
    BY <1>4, <1>7, <2>2
  <2>3. CASE j \in 1..n
    <3>1. i \in 1..n
      BY <1>3, <2>1, <2>3
    <3>2. QED
      BY <1>4, <1>6, <2>1, <2>3, <3>1
  <2>4. QED
    BY <1>5, <2>2, <2>3
<1>9. QED
  BY <1>1, <1>2, <1>3, <1>4, <1>7, <1>8 DEF Granted

\* A grant in the window of the counter.
LEMMA CounterGoesOn ==
  ASSUME NEW q, NEW t \in Nat, Granted(q, t), NEW c, NEW d,
         NEW lim \in Nat \ {0}, NEW len \in Nat \ {0}, CounterKnows(q, c, d, lim, len),
         c # 0, t < d, c < lim
  PROVE  CounterKnows(Append(q, t), c + 1, d, lim, len)
<1>1. PICK p : p = Append(q, t)
  OBVIOUS
<1>2. PICK n : n = Len(q)
  OBVIOUS
<1>3. /\ n \in Nat /\ Len(p) = n + 1 /\ p[n + 1] = t
      /\ \A i \in 1..n : p[i] = q[i] /\ q[i] \in Nat /\ q[i] <= t
  BY <1>1, <1>2, GrantAppended
<1>4. \A i, j \in 1..n : i <= j => q[i] <= q[j]
  BY <1>2 DEF Granted
<1>5. c \in Nat /\ d \in Nat /\ c <= n /\ c > 0
  BY <1>2 DEF CounterKnows
<1>6. \A k \in 1..n : k + c = n + 1 => q[k] + len = d
  BY <1>2 DEF CounterKnows
<1>7. \A e, k \in 1..n : k + c = n + 1 /\ e + lim = k => q[e] + len <= q[k]
  BY <1>2 DEF CounterKnows
<1>8. \A i, m \in 1..n : m + 1 = i + 2 * lim => q[i] + len <= q[m]
  BY <1>2 DEF CounterKnows
<1>9. \* the window began where it did
      \A k \in 1..(n + 1) : k + (c + 1) = n + 2 => k \in 1..n /\ k + c = n + 1
  BY <1>3, <1>5
<1>10. ASSUME NEW k \in 1..(n + 1), k + (c + 1) = n + 2 PROVE p[k] + len = d
  BY <1>3, <1>6, <1>9, <1>10
<1>11. ASSUME NEW e \in 1..(n + 1), NEW k \in 1..(n + 1), k + (c + 1) = n + 2, e + lim = k
       PROVE  p[e] + len <= p[k]
  <2>1. k \in 1..n /\ e \in 1..n /\ k + c = n + 1
    BY <1>3, <1>9, <1>11
  <2>2. q[e] + len <= q[k]
    BY <1>7, <1>11, <2>1
  <2>3. QED
    BY <1>3, <2>1, <2>2
<1>12. ASSUME NEW i \in 1..(n + 1), NEW m \in 1..(n + 1), m + 1 = i + 2 * lim
       PROVE  p[i] + len <= p[m]
  <2>1. i \in 1..n
    BY <1>3, <1>12
  <2>2. CASE m \in 1..n
    <3>1. q[i] + len <= q[m]
      BY <1>8, <1>12, <2>1, <2>2
    <3>2. QED
      BY <1>3, <2>1, <2>2, <3>1
  <2>3. CASE m = n + 1
    <3>1. PICK e : e = i + lim - c - 1
      OBVIOUS
    <3>2. PICK k : k = e + lim
      OBVIOUS
    <3>3. e \in 1..n /\ k \in 1..n /\ k + c = n + 1 /\ i <= e /\ e + lim = k
      BY <1>3, <1>5, <1>12, <2>1, <2>3, <3>1, <3>2
    <3>4. q[i] <= q[e]
      BY <1>4, <2>1, <3>3
    <3>5. q[e] + len <= q[k]
      BY <1>7, <3>3
    <3>6. /\ q[i] \in Nat /\ q[e] \in Nat /\ q[k] \in Nat /\ q[k] <= t /\ p[i] = q[i]
          /\ p[m] = t
      BY <1>3, <2>1, <2>3, <3>3
    <3>7. QED
      BY <3>4, <3>5, <3>6
  <2>4. m \in 1..n \/ m = n + 1
    BY <1>3
  <2>5. QED
    BY <2>2, <2>3, <2>4
<1>13. c + 1 \in Nat /\ c + 1 <= lim /\ c + 1 <= n + 1 /\ c + 1 > 0 /\ (n + 1) + 1 = n + 2
  BY <1>3, <1>5
<1>14. PICK b : b = c + 1
  OBVIOUS
<1>15. PICK l : l = Len(p)
  OBVIOUS
<1>16. /\ b \in Nat /\ d \in Nat /\ b <= lim /\ b <= l /\ b > 0 /\ l = n + 1 /\ l + 1 = n + 2
  BY <1>3, <1>5, <1>13, <1>14, <1>15
<1>17. CounterKnows(p, b, d, lim, len)
  <2>1. \A k \in 1..l : k + b = l + 1 => p[k] + len = d
    BY <1>10, <1>14, <1>16
  <2>2. \A e, k \in 1..l : k + b = l + 1 /\ e + lim = k => p[e] + len <= p[k]
    BY <1>11, <1>14, <1>16
  <2>3. \A i, m \in 1..l : m + 1 = i + 2 * lim => p[i] + len <= p[m]
    BY <1>12, <1>16
  <2>4. QED
    BY <1>15, <1>16, <2>1, <2>2, <2>3 DEF CounterKnows
<1>18. QED
  BY <1>1, <1>14, <1>17

\* A grant that begins a window.
LEMMA CounterStartsOver ==
  ASSUME NEW q, NEW t \in Nat, Granted(q, t), NEW c, NEW d,
         NEW lim \in Nat \ {0}, NEW len \in Nat \ {0}, CounterKnows(q, c, d, lim, len),
         c = 0 \/ d <= t
  PROVE  CounterKnows(Append(q, t), 1, t + len, lim, len)
<1>1. PICK p : p = Append(q, t)
  OBVIOUS
<1>2. PICK n : n = Len(q)
  OBVIOUS
<1>3. /\ n \in Nat /\ Len(p) = n + 1 /\ p[n + 1] = t
      /\ \A i \in 1..n : p[i] = q[i] /\ q[i] \in Nat /\ q[i] <= t
  BY <1>1, <1>2, GrantAppended
<1>4. \A i, j \in 1..n : i <= j => q[i] <= q[j]
  BY <1>2 DEF Granted
<1>5. c \in Nat /\ d \in Nat /\ c <= n /\ c <= lim /\ (n > 0 => c > 0)
  BY <1>2 DEF CounterKnows
<1>6. \A k \in 1..n : k + c = n + 1 => q[k] + len = d
  BY <1>2 DEF CounterKnows
<1>7. \A i, m \in 1..n : m + 1 = i + 2 * lim => q[i] + len <= q[m]
  BY <1>2 DEF CounterKnows
<1>8. \* what came before the last window began is a length away
      ASSUME NEW i \in 1..n, i + c <= n + 1 PROVE q[i] + len <= t
  <2>1. PICK k : k = n + 1 - c
    OBVIOUS
  <2>2. c > 0 /\ k \in 1..n /\ d <= t /\ k + c = n + 1 /\ i <= k
    BY <1>3, <1>5, <1>8, <2>1
  <2>3. q[k] + len = d /\ q[i] <= q[k]
    BY <1>4, <1>6, <1>8, <2>2
  <2>4. q[i] \in Nat /\ q[k] \in Nat
    BY <1>3, <1>8, <2>2
  <2>5. QED
    BY <1>5, <2>2, <2>3, <2>4
<1>9. ASSUME NEW e \in 1..(n + 1), e + lim = n + 1 PROVE p[e] + len <= t
  <2>1. e \in 1..n /\ e + c <= n + 1
    BY <1>3, <1>5, <1>9
  <2>2. QED
    BY <1>3, <1>8, <2>1
<1>10. ASSUME NEW i \in 1..(n + 1), NEW m \in 1..(n + 1), m + 1 = i + 2 * lim
       PROVE  p[i] + len <= p[m]
  <2>1. i \in 1..n
    BY <1>3, <1>10
  <2>2. CASE m \in 1..n
    <3>1. q[i] + len <= q[m]
      BY <1>7, <1>10, <2>1, <2>2
    <3>2. QED
      BY <1>3, <2>1, <2>2, <3>1
  <2>3. CASE m = n + 1
    <3>1. i + c <= n + 1
      BY <1>3, <1>5, <1>10, <2>3
    <3>2. q[i] + len <= t /\ p[i] = q[i] /\ p[m] = t
      BY <1>3, <1>8, <2>1, <2>3, <3>1
    <3>3. QED
      BY <3>2
  <2>4. m \in 1..n \/ m = n + 1
    BY <1>3
  <2>5. QED
    BY <2>2, <2>3, <2>4
<1>11. PICK l : l = Len(p)
  OBVIOUS
<1>12. PICK b : b = t + len
  OBVIOUS
<1>13. b \in Nat /\ l = n + 1 /\ l \in Nat /\ p[l] = t /\ 1 <= lim /\ 1 <= l
  BY <1>3, <1>11, <1>12
<1>14. CounterKnows(p, 1, b, lim, len)
  <2>1. \A k \in 1..l : k + 1 = l + 1 => k = l
    BY <1>13
  <2>2. \A k \in 1..l : k + 1 = l + 1 => p[k] + len = b
    BY <1>12, <1>13, <2>1
  <2>3. \A e, k \in 1..l : k + 1 = l + 1 /\ e + lim = k => p[e] + len <= p[k]
    BY <1>9, <1>13, <2>1
  <2>4. \A i, m \in 1..l : m + 1 = i + 2 * lim => p[i] + len <= p[m]
    BY <1>10, <1>13
  <2>5. QED
    BY <1>11, <1>13, <2>2, <2>3, <2>4 DEF CounterKnows
<1>15. QED
  BY <1>1, <1>12, <1>14

\* So any span of a window's length has fewer than two windows of grants.
LEMMA SpanBounded ==
  ASSUME NEW q, NEW t \in Nat, Granted(q, t), NEW c, NEW d,
         NEW lim \in Nat \ {0}, NEW len \in Nat \ {0}, CounterKnows(q, c, d, lim, len),
         NEW s \in Nat
  PROVE  Cardinality({j \in DOMAIN q : q[j] \in s..(s + len - 1)}) <= 2 * lim - 1
<1>1. PICK n : n = Len(q)
  OBVIOUS
<1>2. n \in Nat /\ DOMAIN q = 1..n /\ \A i \in 1..n : q[i] \in Nat
  BY <1>1 DEF Granted
<1>3. \A i, j \in 1..n : i <= j => q[i] <= q[j]
  BY <1>1 DEF Granted
<1>4. \A i, m \in 1..n : m + 1 = i + 2 * lim => q[i] + len <= q[m]
  BY <1>1 DEF CounterKnows
<1>5. PICK S : S = {j \in DOMAIN q : q[j] \in s..(s + len - 1)}
  OBVIOUS
<1>6. S \subseteq 1..n /\ S \in SUBSET Nat
  BY <1>2, <1>5
<1>7. PICK m : m = 2 * lim - 1
  OBVIOUS
<1>8. m \in Nat
  BY <1>7
<1>9. CASE S = {}
  <2>1. Cardinality(S) = 0
    BY <1>9, FS_EmptySet
  <2>2. QED
    BY <1>5, <1>7, <1>8, <2>1
<1>10. CASE S # {}
  <2>1. PICK a \in S : \A y \in S : a <= y
    BY <1>6, <1>10, LeastOf
  <2>2. ASSUME NEW y \in S PROVE y \in a..(a + m - 1)
    <3>1. a \in 1..n /\ y \in 1..n /\ a <= y
      BY <1>6, <2>1
    <3>2. /\ s <= q[a] /\ q[a] <= s + len - 1 /\ s <= q[y] /\ q[y] <= s + len - 1
          /\ q[a] \in Nat /\ q[y] \in Nat
      BY <1>2, <1>5, <3>1
    <3>3. SUFFICES ASSUME y >= a + m PROVE FALSE
      BY <1>8, <3>1
    <3>4. a + m \in 1..n
      BY <1>2, <1>8, <3>1, <3>3
    <3>5. q[a] + len <= q[a + m]
      <4>1. PICK z : z = a + m
        OBVIOUS
      <4>2. z \in 1..n /\ z + 1 = a + 2 * lim
        BY <1>7, <3>1, <3>4, <4>1
      <4>3. QED
        BY <1>4, <3>1, <4>1, <4>2
    <3>6. q[a + m] <= q[y] /\ q[a + m] \in Nat
      BY <1>2, <1>3, <3>1, <3>3, <3>4
    <3>7. QED
      BY <3>2, <3>5, <3>6
  <2>3. a \in Nat
    BY <1>6, <2>1
  <2>4. IsFiniteSet(a..(a + m - 1)) /\ Cardinality(a..(a + m - 1)) <= m
    <3>1. PICK b : b = a + m - 1
      OBVIOUS
    <3>2. b \in Int
      BY <1>8, <2>3, <3>1
    <3>3. /\ IsFiniteSet(a..b)
          /\ Cardinality(a..b) = IF a > b THEN 0 ELSE b - a + 1
      BY <2>3, <3>2, FS_Interval
    <3>4. QED
      BY <1>8, <2>3, <3>1, <3>3
  <2>5. S \subseteq a..(a + m - 1)
    BY <2>2
  <2>6. IsFiniteSet(S) /\ Cardinality(S) <= Cardinality(a..(a + m - 1))
    BY <2>4, <2>5, FS_Subset
  <2>7. Cardinality(S) \in Nat /\ Cardinality(a..(a + m - 1)) \in Nat
    BY <2>4, <2>6, FS_CardinalityType
  <2>8. Cardinality(S) <= m
    BY <1>8, <2>4, <2>6, <2>7
  <2>9. QED
    BY <1>5, <1>7, <2>8
<1>11. QED
  BY <1>9, <1>10

LEMMA QuotaReserved ==
  ASSUME QuotaKnown, NEW h \in Handlers, ReserveRateLimit(h) PROVE QuotaKnown'
<1>1. /\ QuotaLeft /\ now' = now /\ reserved' = Append(reserved, now)
      /\ rate' = [w \in Windows |->
           IF Count(w) = 0 THEN [count |-> 1, deadline |-> now + Length[w]]
           ELSE [rate[w] EXCEPT !.count = @ + 1]]
  BY DEF ReserveRateLimit
<1>2. now \in Nat /\ Granted(reserved, now)
  BY DEF QuotaKnown
<1>3. Granted(reserved', now)
  BY <1>1, <1>2, GrantAppended
<1>4. ASSUME NEW w \in Windows
      PROVE  /\ rate'[w] \in [count : {rate'[w].count}, deadline : {rate'[w].deadline}]
             /\ CounterKnows(reserved', rate'[w].count, rate'[w].deadline,
                             Limit[w], Length[w])
  <2>1. PICK c, d, r : c = rate[w].count /\ d = rate[w].deadline /\ r = rate[w]
    OBVIOUS
  <2>2. /\ r \in [count : {c}, deadline : {d}]
        /\ CounterKnows(reserved, c, d, Limit[w], Length[w])
    BY <2>1 DEF QuotaKnown
  <2>3. Limit[w] \in Nat \ {0} /\ Length[w] \in Nat \ {0}
    BY OtpAssumption
  <2>4. c \in Nat /\ d \in Nat
    BY <2>2 DEF CounterKnows
  <2>5. CASE Count(w) = 0
    <3>1. c = 0 \/ d <= now
      BY <1>2, <2>1, <2>4, <2>5 DEF Count
    <3>2. rate'[w] = [count |-> 1, deadline |-> now + Length[w]]
      BY <1>1, <2>5
    <3>3. CounterKnows(reserved', 1, now + Length[w], Limit[w], Length[w])
      BY <1>1, <1>2, <2>2, <2>3, <3>1, CounterStartsOver
    <3>4. QED
      BY <3>2, <3>3
  <2>6. CASE Count(w) # 0
    <3>1. c # 0 /\ now < d /\ Count(w) = c
      BY <1>2, <2>1, <2>4, <2>6 DEF Count
    <3>2. c < Limit[w]
      BY <1>1, <3>1 DEF QuotaLeft
    <3>3. rate'[w] = [r EXCEPT !.count = @ + 1]
      BY <1>1, <2>1, <2>6
    <3>4. rate'[w] \in [count : {c + 1}, deadline : {d}]
      BY <2>2, <3>3
    <3>5. CounterKnows(reserved', c + 1, d, Limit[w], Length[w])
      BY <1>1, <1>2, <2>2, <2>3, <3>1, <3>2, CounterGoesOn
    <3>6. QED
      BY <3>4, <3>5
  <2>7. QED
    BY <2>5, <2>6
<1>5. QED
  BY <1>1, <1>2, <1>3, <1>4 DEF QuotaKnown

LEMMA QuotaStepKnown == QuotaKnown /\ [OtpNext]_otpVars => QuotaKnown'
<1>1. SUFFICES ASSUME QuotaKnown, [OtpNext]_otpVars PROVE QuotaKnown'
  OBVIOUS
<1>2. CASE Tick
  <2>1. now' = now + 1 /\ reserved' = reserved /\ rate' = rate
    BY <1>2 DEF Tick
  <2>2. now \in Nat /\ Granted(reserved, now)
    BY <1>1 DEF QuotaKnown
  <2>3. \A i \in 1..Len(reserved) : reserved[i] \in Nat
    BY <2>2 DEF Granted
  <2>4. Granted(reserved, now + 1) /\ now + 1 \in Nat
    BY <2>2, <2>3 DEF Granted
  <2>5. QED
    BY <1>1, <2>1, <2>4 DEF QuotaKnown
<1>3. ASSUME NEW h \in Handlers, ReserveRateLimit(h) PROVE QuotaKnown'
  BY <1>1, <1>3, QuotaReserved
<1>4. ASSUME now' = now, reserved' = reserved, rate' = rate PROVE QuotaKnown'
  BY <1>1, <1>4 DEF QuotaKnown
<1>5. ASSUME NEW h \in Handlers, CreateOtp(h) \/ SendTask(h) PROVE QuotaKnown'
  BY <1>4, <1>5 DEF CreateOtp, SendTask
<1>6. CASE VerifyOtp
  BY <1>4, <1>6 DEF VerifyOtp, VerifyRight, VerifyWrong
<1>7. ASSUME NEW m \in Mints,
             \/ Delivered(m) \/ NotDelivered(m) \/ UpdateGet(m)
             \/ UpdateTtl(m) \/ UpdatePut(m) \/ UpdateLost(m)
      PROVE  QuotaKnown'
  BY <1>4, <1>7 DEF Delivered, NotDelivered, UpdateGet, UpdateTtl, UpdatePut, UpdateLost,
                    Turn
<1>8. CASE UNCHANGED otpVars
  BY <1>4, <1>8 DEF otpVars
<1>9. QED
  BY <1>1, <1>2, <1>3, <1>5, <1>6, <1>7, <1>8 DEF OtpNext, SendCode

\* INV-012 (otp.py, the Lua script of reserve_rate_limit): for any windows and
\* limits, the two fixed windows that a span of one length can meet grant it less
\* than twice the limit.
THEOREM QuotaGranted == OtpSpec => []SmsQuota
<1>1. OtpInit => QuotaKnown
  <2>1. SUFFICES ASSUME OtpInit PROVE QuotaKnown
    OBVIOUS
  <2>2. /\ now = 0 /\ reserved = <<>>
        /\ rate = [w \in Windows |-> [count |-> 0, deadline |-> 0]]
    BY <2>1 DEF OtpInit
  <2>3. Granted(reserved, now) /\ Len(reserved) = 0
    BY <2>2 DEF Granted
  <2>4. ASSUME NEW w \in Windows PROVE CounterKnows(reserved, 0, 0, Limit[w], Length[w])
    <3>1. Limit[w] \in Nat \ {0}
      BY OtpAssumption
    <3>2. QED
      BY <2>3, <3>1 DEF CounterKnows
  <2>5. QED
    BY <2>2, <2>3, <2>4 DEF QuotaKnown
<1>2. QuotaKnown => SmsQuota
  <2>1. SUFFICES ASSUME QuotaKnown, NEW w \in Windows, NEW i \in DOMAIN reserved
                 PROVE  Cardinality({j \in DOMAIN reserved :
                          reserved[j] \in reserved[i]..(reserved[i] + Length[w] - 1)})
                            <= 2 * Limit[w] - 1
    BY DEF SmsQuota
  <2>2. now \in Nat /\ Granted(reserved, now)
    BY <2>1 DEF QuotaKnown
  <2>3. CounterKnows(reserved, rate[w].count, rate[w].deadline, Limit[w], Length[w])
    BY <2>1 DEF QuotaKnown
  <2>4. reserved[i] \in Nat /\ Limit[w] \in Nat \ {0} /\ Length[w] \in Nat \ {0}
    BY <2>2, OtpAssumption DEF Granted
  <2>5. QED
    BY <2>2, <2>3, <2>4, SpanBounded
<1>3. QED
  BY <1>1, <1>2, QuotaStepKnown, PTL DEF OtpSpec
=============================================================================
