# Aura Coffee: TLA+ models of the backend

Aura Coffee is a coffee-shop backend: a FastAPI application (`core-api`), two
Celery workers (`payment-worker`, which also serves the YuKassa webhook, and
`sms-worker`), PostgreSQL, Redis and React front ends. The modules here model
the order and payment core, in which several processes change the same rows with
the payment provider in the loop, and the services around it: sign-in, sessions,
accounts, cart, notifications, menu, promocodes, prices, time slots, addresses,
paged lists, map lookups, and the scripts that load the menu and the fixtures. PDD
below is `docs/PRODUCT_DESIGN_DOCUMENT.md`.

Run everything from this directory: `tlc -config Serial.cfg MCCoffeeShop` (one
command per `.cfg`; PROJECT.json names the module of each), `tlapm MoneyProofs.tla`
(one per `*Proofs.tla`).

## The system

| Part | State | Operations | Interacts through | Correct when |
|---|---|---|---|---|
| Checkout (`services/checkout.py`, `validators/`) | orders, payments, inventory, ledger, promocode, Redis cart | `create_order`, `estimate_order` | one DB transaction, then a `create_payment` task or the cart | stock, points and promocode uses are taken once and within their limits; the amounts add up |
| Cancellation (`order_cancel.py`) | the same rows, assignments, notifications | `cancel_order` | one transaction, with a refund task sent *inside* it | everything taken comes back once, money included |
| Lifecycle (`order_lifecycle.py`) | order status, assignment, ledger | `transition_order` | one transaction without row locks | only legal steps; points accrue once |
| Couriers (`delivery_assignment.py`) | assignments, order status | take, pickup, deliver, cascade | conditional UPDATE, or read and commit | a delivery is where its order lets it be |
| Pickup auto-close (`pickup_autoclose.py`) | order status, ledger | a periodic batch with SKIP LOCKED | row locks | completes once |
| Refund retry (`refund_retry.py`) | nothing of its own | sends a refund task under a fresh key | Celery | no second refund while one is open |
| Payment tasks (`payment_worker/tasks.py`) | payments, refunds, orders | `create_payment`, `initiate_refund`, the compensation | HTTP to YuKassa between two or three transactions | a lost answer, a retry and a dead worker leave rows and provider in agreement |
| Webhook (`payment_worker/webhook.py`) | payments, orders, refunds, Redis `yukassa:event:*` | four events, dedup before, mark after | one transaction per event | at-least-once delivery has the effect of one delivery |
| Cart (`cart.py`, `order_repeat.py`) | Redis `cart:{user}` | add, set, delete, get, clear, repeat | WATCH/MULTI, but an unguarded write in `get` | no acknowledged change is lost; what is added was on offer |
| OTP (`otp.py`, `sms_worker/tasks/otp.py`) | Redis record and counters | reserve, create, verify, status of the SMS | Lua scripts in core-api, GET/TTL/SET in the worker | a code is accepted once, guessed at a limited number of times, sent within the quota |
| Sessions (`auth.py`), staff sign-in (`staff_auth.py`) | Redis sessions, index, counters | issue, refresh, logout, revoke, throttle | single Redis commands | every live session can be revoked; none is issued out of standing |
| Accounts (`user.py`, `admin_users.py`, `account_deletion.py`) | users, profiles, points, orders, sessions | sign-in, block, unblock, delete, adjust | several transactions per request, then Redis | an ended account keeps no session, order, phone or points |
| Notifications (`notification.py`, `sms_worker/tasks/notification.py`) | notification rows, broker, gateway | write, commit hook, SMS task | the caller's transaction, then Celery | one SMS per committed row, and a row that waits has a reason |
| Promocodes, prices, settings (`admin_promocodes.py`, `pricing.py`, `admin_shop_settings.py`) | one row each | edit, activate, price an order | reads before writes, UPDATE of changed columns | quotas hold at the commit, rules at every edit |
| Menu (`menu_admin.py`, `menu_public.py`) | categories, items, sizes, modifiers, links | CRUD and the public menu | the cart and the checkout read the same rows | what is shown can be bought; an item is as the last edit left it |
| Time slots (`validators/working_hours.py`) | working hours | ASAP or a requested time | settings | the nearest time the hours allow |
| Addresses (`delivery_addresses.py`) | delivery_addresses | create, PATCH, delete | partial unique index on the default | at most one default, the last one asked for |
| Paged lists (`order_history.py`, `loyalty.py`, `notification_feed.py`, `admin_users.py`, `admin_promocodes.py`) | none | one query a page | concurrent writers | no row is skipped |
| Maps (`routers/yandex_maps.py`) | Redis cache and daily counter | geocode, suggest | HTTP to Yandex | one warning a day, no coarse coordinates |
| Menu packet (`validate-menu-catalog.py`, `menu_catalog.py`) | CSV files, the menu | validate, import | one transaction | what passes is imported as written |
| Fixtures (`phase4_manual_test.py`, `reset_qa_data.py`) | all tables | seed, reset | foreign keys, a running shop | the reset takes the fixtures and nothing else |
| Statistics, RBAC, front ends, migrations | see *Not modelled* | | | |

What is hard about it: sessions run at READ COMMITTED and mostly read without a
lock, so a handler's guards may be stale when it commits; SQLAlchemy's UPDATE
names the columns that differ from what was read, so two edits merge into a row
nobody checked; requests are chains of single Redis commands; `cancel_order`
sends a message before its commit and checkout after it; Celery acknowledges
early, so a dead worker loses its task; webhook events are repeated and arrive
before or after the transaction that would make sense of them; five handlers undo
or finish an order with code of their own. `hazards` in PROJECT.json lists
each of these at its line.

## Modules

### The order core

| Module | Models | Correspondence |
|---|---|---|
| `ShopTables` | the shared rows, Redis keys, the broker, transactions in progress, and the effects that several handlers repeat | a variable per table or key; `txs[s]` is what session `s` has read |
| `CoreApi` | checkout, cancellation, lifecycle, auto-close, couriers, refund retry | `XRead`/`CheckoutQuote` evaluates a handler's guards, `XCommit` writes everything the handler writes, later phases are what it does after its commit |
| `PaymentWorker` | both Celery tasks and the provider's answers | a task record per task, its `phase` the point its body has reached; transactions that read guards take a session |
| `Webhook` | the four event handlers, dedup, cart deletion, the mark, the provider's settlement | `HookRead`, one commit action per outcome, then `HookClearCart` and `HookMark` |
| `CoffeeShop` | the composition: `Init`, `Next`, crashes, fairness, the invariants that survive any interleaving, the inductive strengthenings, the refinement mapping | `SessionLost` and `TaskLost` are the crashes |
| `MoneyContract` | the abstract specification: what the shop owes its customers about money | instantiated in `CoffeeShop` as `Contract` |
| `ShopProperties`, `MCCoffeeShop` | the other properties; requests and symmetry sets of the runs | |
| `CoffeeShopProofs`, `MoneyProofs`, `BookProofs`, `ContractProofs`, `SerialProofs` | theorems, each module on the one before | |

How transactions are modelled. A handler reads and decides in one step and
writes and commits in another; any other commit may come between. SQLAlchemy
writes absolute values, so a balance is overwritten with what was read plus a
delta. When a session writes a column it read at some point between its first
SELECT and its flush, the read may be the early or the late one
(`BalanceReads`, `UsesReads`). A value equal to the one loaded is not written
at all (`RefundSaveCommit`). Locked rows (`with_for_update`) and conditional
UPDATEs are evaluated at the commit. The cancellation holds its row locks from
its flushes over the Celery send to the commit: phase `"locked"`, during which
`RowsUnlocked` keeps others from committing. This blocks more than the
database would, but the steps it delays touch other rows and commute with it. A
UNIQUE violation rolls back (`IntegrityError`).

Data that no property tells apart is abstracted: there is one customer, one finite
menu item and one promocode, the rows for which orders contend; a request is
its type, price, fee, points, promocode and quantity. Guards on data outside the
core (shop paused, stop list, slots, address, minimum amount) only reject
requests and are left out of `CoreApi`; `Promocodes`, `Slots` and `Catalogue` have
those of them that depend on state. Also left out are the signature and IP checks of
the webhook and the role checks of the endpoints (in the model every actor may
act). `created_at` order is commit order. Auto-close handles one order per step;
whether an order is stale is the clock's choice.

The provider (`ChargeCreated`, `ChargePaid`, `ChargeCanceled`, `RefundMade`,
`RefundResolved`, `Announced`) is modelled from how the code uses it and marked
external: at most one payment or refund per idempotency key, events
repeated until answered with 200, no limit on the number of refunds.
A customer pays only once the confirmation URL is saved. Refund key 0 is the
deterministic key of a cancellation, the number of a send stands for
the fresh key of an admin retry. `Webhook` takes one event at a time because
docker-compose runs one asyncio process whose handler does not await after
reading its body.

`RefundQueue` is a constant on purpose. The code sends the refund task without
`queue=`, hence to `"celery"`, which no worker consumes. Runs that study what
happens *after* the task is received set it to `"payments"`, a deployment
that routes it; `RefundQueueDefault` sets it to what the repository configures.

### The services around it

| Module | Models | A step is |
|---|---|---|
| `Otp` | the codes of one phone number, both rate counters, the SMS task that writes the record's status | a Lua script or a Redis command; `Tick` runs TTLs out |
| `Sessions` | refresh sessions and their index, for whoever extends it | a Redis command |
| `Accounts` (extends `Sessions`) | sign-in, block, unblock, deletion, points, orders and addresses of the customers behind one phone number | a read, a commit, or a Redis command |
| `StaffAuth` (extends `Sessions`) | throttled sign-in, role-bound sessions, edits of the accounts | a counter, a read, a write |
| `Basket` | the cart under its WATCH loop, `get`'s write-back, repeat order, expiry, menu edits | GET under WATCH with the checks, or EXEC |
| `Notices` | notification rows, the after-commit hook, the SMS task, the gateway | a write, a commit, a hook, a gateway call |
| `Pricing` | both pricing chains in kopecks, as operators | |
| `Promocodes` (extends `Pricing`) | PATCH and (de)activation against overlapping checkouts, menu edits, settings, the clock | a read, or a write and commit |
| `Catalogue` | edits of the menu and what the public menu, the cart and the checkout make of it | a read, or a write and commit |
| `CatalogImport` | the CSV packet: validator and import | one program run |
| `Slots` | ASAP and requested times while hours are edited | one request |
| `Addresses` | the default address | one statement |
| `Feeds` | eight lists, their filters, order and pages, and the writers | a query, a commit |
| `Maps` | cache, precision, daily counter and warning | a Redis or HTTP call |
| `QaFixtures` | seed and reset against the foreign keys of the migrations, with the services writing on | one SQL statement |
| `AccountsProofs` | theorems about `Accounts`, `StaffAuth` and the `Sessions` under both | |
| `PromocodesProofs` | theorems about `Promocodes` | |
| `ServicesProofs` | theorems about `Basket`, `Notices`, `Catalogue`, `Addresses`, `Slots`, `Maps`, `Feeds`, `Otp`, a section each | |

`MCAccounts`, `MCPromocodes`, `MCNotices` and `MCServices` give the constants their values. `MCServices`
puts eleven of these modules side by side: a behaviour picks one (`part`) and
leaves the others at their initial states, since they share no state. The rate limit of `Otp` is a part once more (`quota`). They are
still separate specifications and can be run on their own (`OtpSpec`, `BasketSpec`, ...).

The cart is a quantity per line because the router's operations keep one entry per
line id; `CartService.update_item`, which would break that and which no route
calls, is left out. `Feeds` and `QaFixtures` follow PostgreSQL where the code relies on it:
`now()` is the start of the transaction, ties of ORDER BY come in any order, a
statement of a READ COMMITTED transaction sees what is committed when it
starts, a row that is deleted and not committed makes those wait who would
name it. `CatalogImport` keeps, of a row of CSV, its codes, its name and whether it can be
parsed at all ("sound"). `Accounts` keeps of an order how far it is; who changes it
(staff, courier, webhook, customer, and each `cancel_order` of a cascade) reads it without
a lock in one step (`MoveRead`, `CascadeLoad`) and writes it and the points in another (`MoveCommit`,
`CascadeStore`), unconditionally (`StoreOrder`), as `CoreApi` has it in detail.

## Runs

Deadlock is not checked: a shop whose orders are all finished, whose customers
stay away, or whose bounds are used up, stops.

| Run | Asks | Bounds | States |
|---|---|---|---|
| `Serial` | do the books balance under any order of handlers, tasks, events, retries and two crashes when transactions do not overlap? | 1 order of any of 3 kinds, 1 session, 1 create retry, 2 refund sends | 102k |
| `TwoOrders` | do the shared rows stay in range with two orders? | 2 orders over 1 unit and 1 point | 151k |
| `Contention` | is the promocode limit kept under overlapping checkouts? | 2 orders, 2 sessions, 1 use | 630k |
| `ConcurrentCrash` | with stale reads and a crash, does the shop implement `MoneyContract`, serve nothing unpaid and forget no captured payment? | 1 pickup or delivery order, 2 sessions, 1 crash | 1.0M |
| `Progress` | does captured money advance the order, and a cancellation lead to a refund? | fair, 1 session, 1 crash | 9k |
| `Accounts` | what may be left of an account that was blocked or deleted under overlapping requests? | 1 number, 2 requests, 2 tokens, 2 orders, 1 point, 1 dead request | 2.4M |
| `Promocodes` | do amounts add up and quotas and edit rules hold under overlapping edits? | 2 requests, 1 customer, 2 orders, 2 edits, 2 ticks | 491k |
| `Services` | the eleven separate services, each against its own interleavings and faults | see below | 1.1M |
| `RefundQueueDefault` | the second question of `Progress` under the configured queue | fair, no crash | violated |
| `CancelRace` | are CANCELLED and COMPLETED final (PDD 389)? | 2 sessions | violated |
| `PointsSpentTwice` | is the account the sum of its ledger (PDD 294)? | 2 orders, 2 sessions | violated |
| `SmsNotRetried` | is a refused SMS tried again until its row is settled? | fair, no crash | violated |

Why these bounds are enough for the core. Every counter that orders share is at
its limit (one unit, one point, one or two uses), so the second taker meets the
boundary. Two sessions are the least that overlap; a stale read is one session's
commit inside another's. Two refund sends let a retry follow a cancellation and
meet an open refund. Crashes stop at two, enough to lose a task and the webhook
that would have made up for it. The bounds `MaxRetries`, `MaxSends`,
`MaxCrashes` are the only caps. `Sessions` bounds overlap. The requests with
`qty = 0`, a zero total and a delivery reach the paths that skip a step.

The properties of `Serial` are promised with one session only. With two they
fail in the way `CancelRace` and `PointsSpentTwice` show; which of the
handlers' writes is lost differs from one to the next, the cause does not.
`LedgerExplainsBalance` and `UsagesExplainUses` are stated against what the
code does after a failed payment (points and usage row stay behind), so that
they hold and catch every *other* drift.

The bounds of `Services`, `Accounts` and `Promocodes`. Two overlapping requests
everywhere, which all the exceptions the properties name need and no more.

- `Otp`: two codes, whose requests, SMS tasks and guesses overlap, for two ticks (`MaxCodes`, `MaxTicks`); one
  retry of the task; one fault. The grants of the rate limit are followed further, in a part of
  their own (`quota`), for five codes and eight ticks: it takes only `Tick` and `SendCode`, since guesses and SMS
  tasks neither read nor write the counters. A minute is one tick and admits one code, an hour is four and admits
  two: four codes fit into an hour as far as the minute is concerned, and across the seam of two hours three
  do (grants at 0, 3, 4 and 5), which is the bound of `SmsQuota`. Eight ticks reach the third hour.
- `Basket`: two lines of one item and one of another, stock at and above what fits,
  one retry of the WATCH loop, one change of the menu, two requests, one of which
  may be the repeat of an order of two lines.
- `Notices`: two sessions, three rows (one never by SMS, one by SMS with a courier,
  one for the customer), one misfortune.
- `StaffAuth`: login limit one, address limit two, two roles, one edit of the account.
- `Catalogue`: two categories, one item, two modifiers, three edits.
- `CatalogImport`: files of at most two rows with two codes and two names, every combination of
  sound, unknown, repeated and namesake rows, over an empty and a filled menu.
- `Slots`: days of four ticks, two days, opening hours that include a closed day, one to
  the evening, one inside the day; every schedule of them and every moment.
- `Addresses`: three addresses. `Feeds`: four rows, pages of two, four writes, the
  least with which a row can cross a page boundary and another fill its place.
- `Maps`: two addresses, a warning at two calls, two days, four requests.
- `QaFixtures`: the seed once, one customer of the shop's own, one new order, two
  writes of the services during any step of the reset.

`Accounts` overlaps two requests, any of which may be a transition that has read its order and
commits after the other one has blocked or deleted the account.

### Fairness

`FairSpec` is used by the two liveness questions of the core. A transaction that has begun
ends (`WF` of `Step`): handlers are finite and database locks are released. A live
worker goes on with its tasks (`WorkerTurn`) and the provider redelivers an event
until it is handled (`HookRead`): both are *strongly* fair, because they wait for
a session and sessions are scarce only in the model. The provider settles what is
pending. Customers and staff owe nothing. `RefundIsAskedFor` excuses a run with a crash: a
worker that dies between the two halves of a refund leaves a PENDING row that
waits for a person. With two sessions that property is false: an admin cancels an
order that is CREATED while the webhook is making it PAID, the refund task meets a
payment that is not yet SUCCEEDED and gives up. `NoticesFair`: sessions commit or
roll back, and a live SMS worker works off its queue; the gateway owes nothing.

## Proofs

Every safety property of a passing run is a theorem but two, for every value of the
constants: any number of orders, customers, sessions, couriers, requests, lines and
rows, any limits, and as many crashes, retries and repeated events as the bounds
admit, whatever the bounds are. The assumptions are the named ones of the modules,
and TLC evaluates them in the runs. They say of what type a limit is, and a little
more: what stands for "nothing" is not a token, an address or a flag
(`SessionsAssumption`, `AddressesAssumption`, `CatalogueAssumption`); limits, TTLs and
page sizes that divide or count are positive (`OtpAssumption`, `FeedsAssumption`,
`MapsAssumption`, `SlotsAssumption`); there is a role, an opening schedule, and
finitely many concurrent staff requests, addresses and rows; the first promocode obeys the rules of its creation
(`PromocodesAssumption`). The core needs `ConstantsOK` of `ShopTables` only. The
theorems about the cart and the notifications use no assumption at all.

None of the properties is inductive. What each invariant adds is what a process
may still rely on between its read and its write; the names below are those parts.

### The order core

- `TypeCorrect` (`CoffeeShopProofs`): `TypeOK` is always true, in particular no
  stock, balance or counter goes below zero. The inductive invariant adds
  `SessionsHaveOrders`: a session that is not idle has an order, without which
  the writes of a commit have no row. The proof has a lemma per action.
- `PromocodeCapped` (`CoffeeShopProofs`): `uses <= MaxUses` also needs the bound
  on what sessions have read, since the decrement of a failed payment
  writes back a stale read less one.
- `MoneyKnown` (`MoneyProofs`): `MoneyInv`. `PrepaidBeforeServed` is not inductive:
  `TransitionCommit` writes a status on the strength of a read that may be
  stale. What saves it is that *knowledge never goes stale*: a captured charge
  stays captured, an announced refund stays announced, an order keeps its total
  once it exists. `SessionKnows(s)` says what session `s` may rely on from its
  read to its commit, and `Stays` (orders keep their totals, the provider's
  answers stay) is the fact about every step that carries it over. `Prepaid` and
  `RefundsAnnounced` follow.
- `BookKnown` (`BookProofs`): `BookInv`, why a late write never takes a payment's
  book back. `MoneyInv` says that a write is justified by the provider; it does not
  say that the row still is what the writer saw. It is, because a payment has one writer
  at a time: until it is linked to YuKassa, whoever creates or compensates it is
  unique (`OneCreator`) and finds it PENDING and unlinked (`SessionBook`,
  `TaskBook`); afterwards refund tasks only meet a booked payment (`Booked`),
  and the webhook, which takes one event at a time (`OneHook`), finds the status
  that it read.
- `ContractHolds` (`ContractProofs`): `Spec => Contract!ContractSpec`. The mapping takes
  an order to its stage (waiting, served, cancelled) and a payment to its book
  (open, received, returned, refused). Every action is a step of the contract or a
  stutter: `OrderMoves` and `PaymentMoves` are what a step may do to one
  order, `Kept` makes a step of the contract of them, and each action's lemma takes
  from `MoneyInv` that the provider agrees and from `BookInv` that the row has not
  moved. So the contract's promises hold of the shop for any overlap: nothing served before its money is
  taken, nothing booked as returned or refused before the provider said so, and
  nothing that was received forgotten.
- `CaptureKept` (`ContractProofs`): `CaptureNotForgotten`. The mark in Redis, which makes
  later deliveries of the event return early, is set after the commit that
  booked the capture, and no later write unbooks it (`BookInv`).

A by-product of `BookInv`: the early return that `CompensateSkip` models (the payment
has failed already) is never taken, since the task that could fail it is the only
one that lives.

`SerialProofs` has the books of `ShopProperties`. They are theorems under
`OneSession` (`\A s, t \in Sessions : s = t`): transactions do not overlap, as in the
run `Serial`. Without it they are false, as `CancelRace` and `PointsSpentTwice` show; any
number of orders, tasks and events, and crashes anywhere, are admitted.

- `AssignmentsFollow`, `RefundsOneByOne`, `PointsKnown`, `UsesKnown`, `StatusesLegal`: a delivery is where its order lets it be (`DeliveryStates`, with what PATCH leaves behind on
  cancelled and completed orders), one
  refund is open at a time, an order's points are given back or accrued at most
  once, the usage rows explain the promocode's counter, a status moves along the
  table of `order_lifecycle.py`. All rest on `SerialInv`: what the session has read is
  what the rows hold (`Fresh`), and the rows of one order move together, which no
  single handler's guard says (`PaymentFollows`, `AssignmentFollows`, `OneOpen`,
  `PointsOnce`).
- `UnitsAddUp`, `LedgerExplained`: no unit is given back twice, and the account is
  what its ledger says but for the points adrift. Both are sums: folds over the orders and the
  ledger, which the provers cannot unfold to any depth. So the fold is first shown to be
  a difference of two cardinalities (`Total`, by a minimal counterexample among the finite
  sets), whose additivity the library's theorems give. Then every action is shown to move the units and points of one
  order only, and what the order loses is what the shelf, the account or the ledger
  gains. The session's copy of the balance is the account (`FreshBalance`), else the write of
  read-plus-delta would lose what came between.

### Accounts and staff

`AccountsProofs`. A request works on what it has read while the account goes on
without it, and may die between two Redis commands.

- `SessionsListed` (and `StaffSessionsListed` for the staff): a live session is in its owner's index or on
  record as astray. `SessionsKnown`: no token comes back once it was issued, and a revocation
  that has read the index has every listed session in hand.
- `OrdersOverWithAccount`, `DeletionErases`, `SessionsOver`: what an ended account keeps. A block or a deletion
  has each of its customer's orders in hand, or the order is over, or it is on record as late: placed
  meanwhile, or written over by who had read it before (`JobKnows`). Points that a deleted account has
  again came with such an order (`JobRow`, `Seen`). While a session of an ended account is left, somebody is on the way to it
  (`Expiring`), which joins the two.
- `UserStepsLegal`: ACTIVE, BLOCKED and DELETED follow each other only as the endpoints allow.
- `GuessesHeld`, `PairsInStanding`: passwords compared in a window stay within both limits, although
  the counter is read, compared and incremented by different commands (`CounterBounded`); a pair of tokens is
  issued only to an account in standing when it was last read (`Standing`).

### Promocodes and prices

`PromocodesProofs`.

- `OrdersAddUp`: lines, discount, fee and points of an order add up to its total, except where the menu moved between
  quote and lines. `PerUserLimitKept`, `QuotaKept`: what a checkout counted or read is what it commits on,
  or another checkout came between (`CheckoutKnows`).
- `EditsKeepTheRules`: an edit leaves window and quotas consistent unless another edit came between its
  read and its write (`EditKnows`).

### The other services

`ServicesProofs`.

- `CartKept`, `AddsAreOffered`: `cart = wanted` holds of an EXEC only if
  the copy it was computed from is the cart, and what an EXEC adds was on
  offer only if the row it was checked against is one the request has seen.
  `BasketInv` says both of every request in the WATCH loop (`FreshCopy`,
  `NowSeen`, `HeldSeen`). Any write of the key makes every watcher dirty
  (`WriteOfCart`); every other step concerns one request (`StepOfOne`). Types of the
  stored data play no part: `Shape` only gives a request its fields.
- `SmsAtMostOnce`, `NoSmsForgotten`: `NoticesInv` follows a notification
  from its one writer (`OneWriter`) through the session (`HeldByPhase`: uncommitted
  rows and callbacks go together, no task before its callback ran) to its task
  (`JobExplains`: how far it is says what the row holds and how often the
  gateway took it). It also shows that the task's "row not found"
  (`SkipMissing`) is dead code as long as the hook runs after the commit.
- `OfferKept`, `EditsLeaveValidItems`: what the public menu shows can be bought, and an item is what its last edit
  made of it, short of overlaps on record.
- `DefaultKept`: at most one default address, and it is the last one asked for, unless a demotion raced
  with a PATCH. Each request's phase says which row it is about to write (`CallerKnows`).
- `NearestSlotGiven`: ASAP gives now plus the lead if that is within the hours, else the lead after the next
  opening. This is arithmetic
  over days and weeks: the day the loop stops at is the first that is open.
- `QuotaWarnedOnce`: one warning a day, whatever calls overlap (`DateKnows`: of a day that is over the threshold, the warning is out, on its way or given up).
- `NoRowMissed`: a row that stayed in a list is not skipped by its reader. Inductively: a row not
  yet shown has every page that was read ahead of it, which needs counting the rows before it.
- `CodeWorksOnce`: a code is accepted once, guessed at `MaxAttempts` times, and again only for each status write of the
  SMS task that straddled a change of the record. `CodesKnown`: while a code is stored, its history
  is short of one acceptance and holds no wrong guess but those that the record counts; and the TTL that a task
  is about to write ends the code when it was due, or the write will be such a straddling one.
- `QuotaGranted`: at most `2 * limit - 1` codes are granted in any span of a window's length.
  `CounterKnows`: the last grants, as many as the counter says, are those of
  the open window, the window began with the first of them, and any grant is a window's length
  older than the one `2 * limit - 1` places after it.

### Only model-checked

- Liveness (`CaptureAdvancesOrder`, `RefundIsAskedFor`): it needs fairness and
  ENABLED, which this prover does not handle.
- `PassedIsImported` (a fold over the rows of a file, whose result is the menu itself and not a
  number) and `ResetTakesFixtures` (twenty-six deletes against the closure of the foreign keys):
  not proved yet, see *Plan*.
- What the violated runs show.

## Other divergences seen while modelling

Each was seen as a counterexample or met while reading; they are not kept as runs, of which
four stand for their kinds.

Orders and payments:

- After a failed payment the ledger has a REVERSAL and the account keeps its
  balance (`tasks.py:204`); PDD 397 has the balance restored.
- `payment.succeeded` for an order cancelled meanwhile is answered with 200 and dropped
  (`webhook.py:437`): captured money is not recorded; PDD 828.
- The refund task is sent before the commit of the cancellation (`order_cancel.py:258`);
  a crash in between refunds an order that is served; PDD 416.
- An HTTP error status of the create call, or a worker that dies after it, leaves the
  order CREATED for ever (`tasks.py:290`); PDD 396 has a 15-minute timeout.
- A failed payment decrements the promocode's counter but keeps the usage row
  (`tasks.py:217`), so the per-user limit still counts it; PDD 371.
- The compensation of an unreachable provider writes no notification
  (`tasks.py:165`); PDD 371 has one.
- An admin may cancel an order that is CREATED (`order_cancel.py:87`); PDD 744 starts
  at PAID.
- `refund.succeeded` that overtakes the task's last transaction is dropped
  (`webhook.py:631`) and the payment stays REFUND_PENDING; PDD 830.
- Two admin retries that overlap may open two refunds (`tasks.py:371` reads without a lock).
- `PATCH /orders/{id}/status` with CANCELLED returns neither points nor money
  (`order_lifecycle.py:130`); PDD 374. It may set IN_DELIVERY without a courier
  having picked up (`order_lifecycle.py:79`); PDD 449. It never touches the delivery: CANCELLED leaves it
  AWAITING_COURIER or COURIER_ASSIGNED
  (PDD 448, 450: cancelled with the order), and COMPLETED leaves it PICKED_UP
  or, after a PATCH of IN_DELIVERY, waiting for a courier who can then no longer deliver; PDD 451.
- The courier's pickup writes its notification after the commit, in a
  transaction that is never committed (`delivery_assignment.py:228`); PDD 378.
- The auto-close job sends no notification (`pickup_autoclose.py:78`).

Prices, promocodes, menu:

- `validate_stop_list` looks at `is_available` alone; the comment at `checkout.py:155`
  says that archived items are refused too. Items of a hidden category can be ordered.
- The lines of an order are priced again after the quote (`checkout.py:750`), and a line whose item
  was deleted in between is charged and left out: lines and subtotal then differ.
- Two overlapping checkouts of one customer may both take the last use of the per-user limit.
- A percentage above 100 can be set by PATCH (creation refuses it), an expired
  promocode can be revived by a PATCH of its window (PDD 564), and two
  overlapping PATCHes can leave a window or quotas that each of them would have refused.
- The same holds of an item's media, and two overlapping PUTs of modifiers leave a mix.
- ASAP outside hours adds the full lead to the opening, with the delivery time in it (PDD 7.5:
  opening plus preparation), and does not check the closing time; a requested delivery time leaves out
  the delivery lead; ASAP before opening may be earlier than opening plus lead if now plus
  lead is within hours. ASAP is compared in UTC, a requested time in its own offset.
- The packet's validator compares codes and the import names: namesakes merge, and
  two namesake modifiers on one item abort the import. The import overwrites stock that an admin has set.
  The validator accepts media combinations that the menu's API refuses.

Accounts, sessions, codes:

- The rate limit counts reserved codes, not SMS (INV-012), and lets a burst span two windows.
- The SMS worker writes the OTP record by GET, TTL and SET, keyed by the phone: a code
  spent or replaced meanwhile comes back, and the status may land on a later code.
- A refresh token is not single-use: two uses at once both get a pair (`auth.py:142`).
- A block whose cascade fails half-way leaves orders, and blocking again does
  not resume. A blocked or deleted customer may gain an order or address of a request that
  had been allowed before.
- A transition, cancellation or checkout that read its order or balance before a block or a deletion and commits after it
  writes over what the cascade and the tombstone left (`order_lifecycle.py:137`): an ended account has a
  live order again, and a deleted one has points (`order_lifecycle.py:105`).

Cart, addresses, lists, maps, fixtures:

- `CartService.get` writes the cart back without WATCH and loses an add in between;
  `repeat_order` that fails keeps the lines before the failure.
- Two requests that make addresses the default may wait for each other's row; PostgreSQL aborts one.
- A PATCH that makes an address the default after it had read it as the default, while another
  request demoted it, leaves no default.
- The points feed and the list of finished orders are ordered by one timestamp only, which the rows of
  one auto-close transaction share: a page boundary may skip or repeat one. Filtered lists skip
  rows when a row leaves the filter between two pages.
- The daily counter of the maps counts only answers that succeeded.
- The reset deletes usages of the fixtures' promocodes and assignments of the fixtures' couriers that
  belong to other customers, clears the promocode of their orders, and deletes an item that an admin
  moved out of a fixture category after its id was read. Its ALTER TABLE holds up all orders until it commits.

## Not modelled

- Statistics: aggregation queries that change nothing. RBAC: a static table that the
  repository's tests enumerate. Front ends: presentation over these endpoints.
- Migrations: run offline, once; the keys and indexes they declare are in the models that
  rest on them.
- `yukassa_fake.py`: a development stand-in for the provider, whose contract is in
  `PaymentWorker` and `Webhook`.
- The delivery radius (geometry on floating-point numbers), the wording of notifications, the
  encryption of phones, media files on disk, logging.
- `create_promocode` (an INSERT of an inactive row that Init contains), profile edits
  (one UPDATE of columns that no guard reads), the audit probes under `docs/`.

## Plan

1. `ResetTakesFixtures` of `QaFixtures` as a theorem: the order of the reset's statements against the foreign keys.
2. `PassedIsImported` of `CatalogImport`, by the prefix of the file that the import has read, as far as the import's
   fold can be followed row by row.
3. The order core with two customers, so that shared promocodes meet two accounts.
