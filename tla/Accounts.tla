------------------------------ MODULE Accounts ------------------------------
(***************************************************************************)
(* The customers of one phone number: sign-in, blocking, unblocking and    *)
(* deletion with the cascade over their orders, and what becomes of their  *)
(* sessions and personal data (core-api services/user.py, admin_users.py,  *)
(* account_deletion.py, session_subjects.py).  A new row of users is made  *)
(* when the number signs in again after a deletion.  A transaction that    *)
(* locks users FOR UPDATE is one step; what a request read before it is    *)
(* kept in job.  An order is abstracted to whether it can be cancelled     *)
(* ("active"), is IN_DELIVERY, COMPLETED or CANCELLED; who changes it      *)
(* reads it without a lock and writes it, and the points, at the commit.   *)
(* CoreApi has those transactions in detail.                               *)
(***************************************************************************)
EXTENDS Sessions

CONSTANTS Orders,       \* bound: orders ever placed
          MaxMade,      \* bound: tokens and orders together
          MaxDeaths,    \* bound: requests that die half-way
          MaxBalance    \* bound: points an adjustment may leave

ASSUME AccountsAssumption == MaxBalance \in Nat

VARIABLES users,    \* rows of users with their profile, address and account
          orders,   \* rows of orders
          job,      \* what the account requests under way have read
          late,     \* history, of an account that was being ended: tokens, orders
                    \* and users (for an address) that a request added to it, and
                    \* orders written over by who had read them before
          broken,   \* history: accounts whose ending stopped half-way
          deaths

accountVars == <<users, orders, job, late, broken, deaths, sessionVars>>

NoUser == [status |-> "none", phone |-> FALSE, profile |-> FALSE,
           address |-> FALSE, balance |-> -1]
NoJob == [op |-> "none", user |-> NoOne, seen |-> "none", todo |-> {},
          fresh |-> FALSE, order |-> NoOne, balance |-> 0]

Ended == {"BLOCKED", "DELETED"}
Terminal == {"none", "COMPLETED", "CANCELLED"}
OrdersOf(u) == {o \in Orders : orders[o].owner = u}
\* _CANCELLABLE_ON_BLOCK and _CANCELLABLE_ON_DELETE
Cancellable(u) == {o \in OrdersOf(u) : orders[o].status = "active"}

AccountsInit ==
  /\ SessionsInit
  /\ users = [u \in Owners |-> NoUser]
  /\ orders = [o \in Orders |-> [owner |-> NoOne, status |-> "none"]]
  /\ job = [p \in Procs |-> NoJob]
  /\ late = {} /\ broken = {} /\ deaths = 0

Free(p) == proc[p].pc = "idle" /\ job[p].op = "none"
Room == Cardinality(issued)
          + Cardinality({o \in Orders : orders[o].status # "none"}) < MaxMade
SetUser(u, field, value) == users' = [users EXCEPT ![u][field] = value]
SetOrderStatus(o, s) == orders' = [orders EXCEPT ![o].status = s]
\* The session part of request p starts at pc, for user u.
Continue(p, u, pc) ==
  /\ proc' = [proc EXCEPT ![p] = [IdleProc EXCEPT !.pc = pc, !.owner = u]]
  /\ job' = [job EXCEPT ![p] = NoJob]
  /\ UNCHANGED <<sessions, index, issued, stray>>

Ending(u) == \/ users[u].status \in Ended
             \/ \E p \in Procs : /\ job[p].op \in {"block", "delete"}
                                 /\ job[p].user = u
Late(u, thing) == late' = IF Ending(u) THEN late \cup {thing} ELSE late

\* The UPDATE of an order read as "seen", whatever became of it since.  A
\* completion may earn a point and a cancellation return one: added to the
\* balance that was read with the order, or later.
StoreOrder(o, seen, to, balance) ==
  LET u == orders[o].owner IN
  /\ SetOrderStatus(o, to)
  /\ \/ UNCHANGED users
     \/ /\ to \in {"COMPLETED", "CANCELLED"}
        /\ \E b \in {balance, users[u].balance} :
             b < MaxBalance /\ SetUser(u, "balance", b + 1)
  /\ IF orders[o].status = seen THEN UNCHANGED late ELSE Late(u, o)

-----------------------------------------------------------------------------
(* Sign-in: send-code and verify-code                                      *)

Holder == {u \in Owners : users[u].phone}

\* phone_hash is unique: of two requests that find no row, one fails.
CreateUser(u) ==
  /\ users[u] = NoUser
  /\ users' = [users EXCEPT ![u] = [NoUser EXCEPT
       !.status = "PENDING_VERIFICATION", !.phone = TRUE, !.profile = TRUE]]

SendCode ==
  /\ Holder = {}
  /\ \E u \in Owners : CreateUser(u)
  /\ UNCHANGED <<orders, job, late, broken, deaths, sessionVars>>

\* verify-code with the right code: get_or_create_user, the 403 of an ended
\* account, and the branch to activate_user, on the row as read here.
VerifyCode(p) ==
  /\ Free(p)
  /\ \E u \in Owners :
       /\ \/ /\ Holder = {} /\ CreateUser(u)
             /\ job' = [job EXCEPT ![p] = [NoJob EXCEPT
                          !.op = "activate", !.user = u]]
             /\ UNCHANGED sessionVars
          \/ /\ u \in Holder /\ users[u].status = "PENDING_VERIFICATION"
             /\ job' = [job EXCEPT ![p] = [NoJob EXCEPT
                          !.op = "activate", !.user = u]]
             /\ UNCHANGED <<users, sessionVars>>
          \/ /\ u \in Holder /\ users[u].status = "ACTIVE"
             /\ Continue(p, u, "issue")
             /\ UNCHANGED users
  /\ UNCHANGED <<orders, late, broken, deaths>>

\* Mutant: the account row is made only when there is none.
ActivateUserUpsert(p) ==
  LET u == job[p].user IN
  /\ job[p].op = "activate"
  /\ users' = [users EXCEPT ![u].status = "ACTIVE",
                            ![u].balance = IF @ = -1 THEN 0 ELSE @]
  /\ Continue(p, u, "issue")
  /\ UNCHANGED <<orders, late, broken, deaths>>

\* The UPDATE to ACTIVE is unconditional; the primary key of
\* loyalty_accounts turns a second activation into an IntegrityError.
ActivateUser(p) ==
  LET u == job[p].user IN
  /\ job[p].op = "activate"
  /\ IF users[u].balance = -1
     THEN /\ users' = [users EXCEPT ![u].status = "ACTIVE", ![u].balance = 0]
          /\ Continue(p, u, "issue")
     ELSE /\ job' = [job EXCEPT ![p] = NoJob]
          /\ UNCHANGED <<users, sessionVars>>
  /\ UNCHANGED <<orders, late, broken, deaths>>

-----------------------------------------------------------------------------
(* Authenticated requests of the customer: the standing is checked once,   *)
(* before the handler runs.                                                *)

Authenticated(u) == users[u].status \notin Ended \cup {"none"}

Request(p, u, op) ==
  /\ Free(p) /\ Authenticated(u) /\ users[u].balance >= 0
  /\ job' = [job EXCEPT ![p] = [NoJob EXCEPT !.op = op, !.user = u,
       !.balance = IF op = "checkout" THEN users[u].balance ELSE 0]]
  /\ UNCHANGED <<users, orders, late, broken, deaths, sessionVars>>

\* The points are taken from the balance of the quote.
PlaceOrder(p) ==
  LET u == job[p].user IN
  /\ job[p].op = "checkout" /\ Room
  /\ \E o \in Orders :
       /\ orders[o].status = "none"
       /\ orders' = [orders EXCEPT ![o] = [owner |-> u, status |-> "active"]]
       /\ Late(u, o)
  /\ \/ UNCHANGED users
     \/ job[p].balance > 0 /\ SetUser(u, "balance", job[p].balance - 1)
  /\ job' = [job EXCEPT ![p] = NoJob]
  /\ UNCHANGED <<broken, deaths, sessionVars>>

CreateAddress(p) ==
  LET u == job[p].user IN
  /\ job[p].op = "address"
  /\ SetUser(u, "address", TRUE)
  /\ Late(u, u)
  /\ job' = [job EXCEPT ![p] = NoJob]
  /\ UNCHANGED <<orders, broken, deaths, sessionVars>>

DeleteAddress(u) ==
  /\ Authenticated(u) /\ users[u].address
  /\ SetUser(u, "address", FALSE)
  /\ UNCHANGED <<orders, job, late, broken, deaths, sessionVars>>

-----------------------------------------------------------------------------
(* Staff, couriers, the payment worker and the customer move an order on.  *)

\* What the status endpoint, the couriers' and the cancellation make of it;
\* a step from PAID to READY leaves it "active".
MovesTo(from) ==
  IF from = "active" THEN {"active", "IN_DELIVERY", "COMPLETED", "CANCELLED"}
  ELSE {"COMPLETED"}

MoveRead(p, o) ==
  /\ Free(p) /\ orders[o].status \in {"active", "IN_DELIVERY"}
  /\ job' = [job EXCEPT ![p] = [NoJob EXCEPT
       !.op = "move", !.order = o, !.seen = orders[o].status,
       !.balance = users[orders[o].owner].balance]]
  /\ UNCHANGED <<users, orders, late, broken, deaths, sessionVars>>

MoveCommit(p) ==
  /\ job[p].op = "move"
  /\ \E to \in MovesTo(job[p].seen) :
       StoreOrder(job[p].order, job[p].seen, to, job[p].balance)
  /\ job' = [job EXCEPT ![p] = NoJob]
  /\ UNCHANGED <<broken, deaths, sessionVars>>

-----------------------------------------------------------------------------
(* Admin: block, unblock, adjust                                           *)

\* A second block of a blocked user skips the cascade and revokes again.
BlockUser(p, u) ==
  /\ Free(p)
  /\ \/ /\ users[u].status = "ACTIVE"
        /\ SetUser(u, "status", "BLOCKED")
        /\ job' = [job EXCEPT ![p] = [NoJob EXCEPT !.op = "block", !.user = u,
                                                   !.seen = "select"]]
        /\ UNCHANGED sessionVars
     \/ /\ users[u].status = "BLOCKED"
        /\ Continue(p, u, "revoke")
        /\ UNCHANGED users
  /\ UNCHANGED <<orders, late, broken, deaths>>

\* The cascade selects after the commit of BLOCKED.
BlockSelect(p) ==
  /\ job[p].op = "block" /\ job[p].seen = "select"
  /\ job' = [job EXCEPT ![p].seen = "cascade",
                        ![p].todo = Cancellable(job[p].user)]
  /\ UNCHANGED <<users, orders, late, broken, deaths, sessionVars>>

\* cancel_order for one order of a cascade, of a block or a deletion, reads it.
\* The first order of a block was loaded by its SELECT; every commit expires
\* the rest, so that they are read again.  One that has moved on raises, and
\* leaves the account as it is, without the orders cancelled so far.
CascadeLoad(p) ==
  /\ job[p].order = NoOne
  /\ job[p].seen = "cascade" \/ job[p].op = "delete"
  /\ \E o \in job[p].todo :
       IF orders[o].status = "active" \/ (job[p].op = "block" /\ ~job[p].fresh)
       THEN /\ job' = [job EXCEPT ![p].order = o,
                                  ![p].balance = users[job[p].user].balance]
            /\ UNCHANGED broken
       ELSE /\ job' = [job EXCEPT ![p] = NoJob]
            /\ broken' = IF job[p].op = "block" THEN broken \cup {job[p].user}
                         ELSE broken
  /\ UNCHANGED <<users, orders, late, deaths, sessionVars>>

\* ... and writes it, each in a transaction of its own.
CascadeStore(p) ==
  /\ job[p].op \in {"block", "delete"} /\ job[p].order # NoOne
  /\ StoreOrder(job[p].order, "active", "CANCELLED", job[p].balance)
  /\ job' = [job EXCEPT ![p].todo = @ \ {job[p].order}, ![p].fresh = TRUE,
                        ![p].order = NoOne, ![p].balance = 0]
  /\ UNCHANGED <<broken, deaths, sessionVars>>

\* Mutant: the sessions are left alone.
BlockRevokeForgotten(p) ==
  /\ job[p].op = "block" /\ job[p].seen = "cascade" /\ job[p].todo = {}
  /\ job' = [job EXCEPT ![p] = NoJob]
  /\ UNCHANGED <<users, orders, late, broken, deaths, sessionVars>>

BlockRevoke(p) ==
  /\ job[p].op = "block" /\ job[p].seen = "cascade" /\ job[p].todo = {}
  /\ Continue(p, job[p].user, "revoke")
  /\ UNCHANGED <<users, orders, late, broken, deaths>>

UnblockUser(u) ==
  /\ users[u].status = "BLOCKED"
  /\ SetUser(u, "status", "ACTIVE")
  /\ broken' = broken \ {u}
  /\ UNCHANGED <<orders, job, late, deaths, sessionVars>>

\* One point up or down, never below zero, on an account that is not ended
\* for good.
AdjustLoyalty(u) ==
  /\ users[u].status \in {"ACTIVE", "BLOCKED"} /\ users[u].balance >= 0
  /\ \E delta \in {-1, 1} :
       /\ users[u].balance + delta \in 0..MaxBalance
       /\ SetUser(u, "balance", users[u].balance + delta)
  /\ UNCHANGED <<orders, job, late, broken, deaths, sessionVars>>

-----------------------------------------------------------------------------
(* Deletion, by the customer (from ACTIVE) or by an admin (from BLOCKED)   *)

SourceStates == {"ACTIVE", "BLOCKED"}

\* Mutant: an order in delivery does not stop a deletion.
BlockingOrdersIgnored(u) == {}
BlockingOrders(u) == {o \in OrdersOf(u) : orders[o].status = "IN_DELIVERY"}

DeleteRead(p, u) ==
  /\ Free(p)
  /\ users[u].status \in SourceStates
  /\ BlockingOrders(u) = {}
  /\ job' = [job EXCEPT ![p] =
       [NoJob EXCEPT !.op = "delete", !.user = u, !.seen = users[u].status,
                     !.todo = Cancellable(u)]]
  /\ UNCHANGED <<users, orders, late, broken, deaths, sessionVars>>

\* Mutant: the points stay.
TombstoneWithPoints(u) == [users[u] EXCEPT !.status = "DELETED",
                   !.phone = FALSE, !.profile = FALSE, !.address = FALSE]
\* The row as it was, without phone, profile, addresses and points.
Tombstone(u) == [users[u] EXCEPT !.status = "DELETED", !.phone = FALSE,
                   !.profile = FALSE, !.address = FALSE, !.balance = 0]

\* FOR UPDATE gives a fresh row only when a cancellation has committed and
\* so expired the one the request had read.
DeleteCommit(p) ==
  LET u == job[p].user
      status == IF job[p].fresh THEN users[u].status ELSE job[p].seen IN
  /\ job[p].op = "delete" /\ job[p].todo = {}
  /\ IF status = job[p].seen
     THEN /\ users' = [users EXCEPT ![u] = Tombstone(u)]
          /\ Continue(p, u, "revoke")
     ELSE /\ job' = [job EXCEPT ![p] = NoJob]
          /\ UNCHANGED <<users, sessionVars>>
  /\ UNCHANGED <<orders, late, broken, deaths>>

-----------------------------------------------------------------------------
\* A token stored or listed for an account that has ended meanwhile.
LateToken(p) ==
  late' = IF /\ proc[p].pc = "list" /\ users[proc[p].owner].status \in Ended
          THEN late \cup {proc[p].token} ELSE late

SessionRequest(p) ==
  /\ job[p].op = "none"
  /\ proc[p].pc = "issue" => Room
  /\ \/ SessionStep(p)
     \/ RefreshCheck(p, Authenticated(proc[p].owner))
  /\ LateToken(p)
  /\ UNCHANGED <<users, orders, job, broken, deaths>>

\* The process dies and the request with it.
Dies(p) ==
  /\ deaths < MaxDeaths
  /\ deaths' = deaths + 1
  /\ \/ /\ RequestDies(p)
        /\ broken' = IF proc[p].pc \in {"revoke", "revoking"}
                     THEN broken \cup {proc[p].owner} ELSE broken
        /\ UNCHANGED job
     \/ /\ job[p].op \in {"block", "delete"}
        /\ broken' = IF job[p].op = "block" THEN broken \cup {job[p].user}
                     ELSE broken
        /\ job' = [job EXCEPT ![p] = NoJob]
        /\ UNCHANGED sessionVars
  /\ UNCHANGED <<users, orders, late>>

AccountsNext ==
  \/ SendCode
  \/ \E p \in Procs :
       \/ VerifyCode(p) \/ ActivateUser(p)
       \/ PlaceOrder(p) \/ CreateAddress(p)
       \/ BlockSelect(p) \/ BlockRevoke(p) \/ DeleteCommit(p)
       \/ CascadeLoad(p) \/ CascadeStore(p) \/ MoveCommit(p)
       \/ SessionRequest(p) \/ Dies(p)
       \/ \E u \in Owners : \/ Request(p, u, "checkout")
                            \/ Request(p, u, "address")
                            \/ BlockUser(p, u) \/ DeleteRead(p, u)
       \/ \E o \in Orders : MoveRead(p, o)
  \/ \E u \in Owners : DeleteAddress(u) \/ UnblockUser(u) \/ AdjustLoyalty(u)

AccountsSpec == AccountsInit /\ [][AccountsNext]_accountVars

-----------------------------------------------------------------------------
\* PDD 6.5: the statuses that may follow each other.  The read of the row
\* and the UPDATE of a sign-in straddle other requests, and a deletion may
\* check a row that has changed since.
LegalUserSteps ==
  [][\A u \in Owners :
       users'[u].status # users[u].status =>
         <<users[u].status, users'[u].status>> \in
           {<<"none", "PENDING_VERIFICATION">>,
            <<"PENDING_VERIFICATION", "ACTIVE">>, <<"ACTIVE", "BLOCKED">>,
            <<"BLOCKED", "ACTIVE">>, <<"ACTIVE", "DELETED">>,
            <<"BLOCKED", "DELETED">>}]_accountVars

\* INV-013: nothing personal survives a deletion, except an address that a
\* request under way added to it; and no points, except of an account that was
\* written with an order: one placed while the account was being ended, or one
\* written over then by who had read it before.
DeletedIsAnonymous ==
  \A u \in Owners :
    users[u].status = "DELETED" =>
      /\ ~users[u].phone /\ ~users[u].profile
      /\ users[u].address => u \in late
      /\ users[u].balance > 0 => OrdersOf(u) \cap late # {}

\* The orders of a deleted customer have ended, those of a blocked one have or
\* are with the courier; exceptions are orders that came while the account was
\* being ended or that were written over then by who had read them before, and
\* a block whose cascade stopped half-way, which blocking again does not repair.
OrdersEnd ==
  \A u \in Owners, o \in Orders :
    orders[o].owner = u /\ o \notin late =>
      /\ users[u].status = "DELETED" => orders[o].status \in Terminal
      /\ users[u].status = "BLOCKED" /\ orders[o].status = "active" =>
           \/ u \in broken
           \/ \E p \in Procs : job[p].op = "block" /\ job[p].user = u

\* Once an account has ended and no request of its ending is under way, its
\* sessions are gone, but for those that a sign-in or a refresh, allowed
\* before, added afterwards, and those no index lists.
SessionsEnd ==
  \A u \in Owners :
    /\ users[u].status \in Ended /\ u \notin broken
    /\ ~\E p \in Procs : \/ job[p].user = u
                         \/ proc[p].owner = u
    => LiveSessions(u) \subseteq late \cup stray
=============================================================================
