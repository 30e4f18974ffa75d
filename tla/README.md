# SellerHub: a TLA+ model of its queues, its billing and its gate

SellerHub (`app.py` and its blueprints) is a Flask service for sellers of the Uzum
marketplace: gunicorn serves the pages from several processes with threads
(4 x 16), PostgreSQL holds the rows (READ COMMITTED, `SessionLocal` with
`autoflush=False`), Redis holds flags, caches and locks without persistence, and
one process, the one that gets a file lock, also runs the background threads. This directory
models the parts with a protocol of their own. Every definition is translated
from the source; `PROJECT.json` names the lines of each.

## 1. Inventory

| Part | State it keeps | Operations | What is hard | What makes it correct |
|---|---|---|---|---|
| **Autoslot queue** `postavki/autoslot/store.py` | rows of `postavka_grab_plan`: status, attempts, lease, window, priority | enqueue, claim, release_expired, mark_booked, mark_failed, set_priority; the seller's create, cancel and set-slot | every writer is another thread or process and writes by id; a claim outlives its process | a claim is exclusive, attempts are a budget, a booking is final, no row is stuck |
| **Autoslot allocator** `allocator.py`, `bus.py` | the event in hand, the candidates and the threads of its round | on_slot_freed: release, choose, claim, book in parallel, retry round | threads of a round, a refused final write, a restart between any two steps | volume booked fits volume freed; calls never exceed claimed attempts |
| **Autoslot booking loop** `app.py` 4154-4492, `booker.py` | plans, order, round-robin index, in-flight ids, futures | reload, schedule, watchdog, reap; in a pool thread: GET slots, choose, SET, verify | hangs, abandoned threads that go on, submits that raise, stale rows, answers that say nothing | the queue in memory stays one, no plan is skipped for ever |
| **Payme merchant API** `payments/routes.py` | orders, Payme transactions, the user's subscription | CreateTransaction, PerformTransaction, CancelTransaction, creation of orders | calls are repeated at any time, cut off half-way, out of order; the rollback of a chargeback meets whatever happened since | orders and transactions agree, only move forward, no days nobody paid for |
| **Subscriptions and codes** `core/subscriptions.py`, `admin/routes.py` | the user's two columns, codes, the activation log | activation, admin set/clear, create/update/delete of a code, replay of the log | the columns are written by steps and by replay; a read-modify-write without locks; an unflushed session | replay agrees with the steps, a longer code is no loss |
| **Subscription gate** `app.py` 381-450, `core/redis_client.py` | two Redis sets, the signed session in each browser | the gate of each request, login, activation, the admin's and Payme's changes | the session is a copy in a browser that a response overwrites; several calls per change | a change reaches the live session; nobody with access stays blocked |
| **FBS mirror** `core/fbs_sync.py`, `core/fbs_data.py`, `app.py` 5139-5650 | rows of `fbs_orders`, the worker's strikes and clocks in memory, what a drain has listed | a sweep of the statuses that are due, a press of a status chip, the seller's confirm, cancel and invoice | Uzum tells of no deletion; a drain is old when it is written; empty answers; local writes lost after Uzum's | a row is deleted only if its order has left; the mirror comes to agree with Uzum |
| **POS and warehouse** `pos/routes.py`, `warehouse/routes.py` | stock of the variants, a trimmed log of actions | sell, receive, undo, import a sheet; the catalogue's synchronisation locks the same rows | row locks taken one by one by several processes; an undo reads without a lock; the trim reads, then deletes | each request takes effect as if alone, none waits in a circle, the newest actions stay |
| **Slot watch and detector** `postavki/slot_volume.py`, `app.py` 3833-4095 | snapshots of the slots and of what they take, the polls under way | polls in five modes, comparison, publishing of events | polls overtake each other; Uzum answers with nothing for a moment; the snapshot moves on before the commit | what is announced has risen; the snapshot comes to agree with Uzum |
| **Auto supply** `postavki/auto_plan.py`, `restock_plan.py`, `routes.py` 281-453, `templates/postavki.html` 1693-1808 | the seller's rules, the draft, the cards of the page | pack, show, create one or all, draft anew | rest, room and limits meet at their boundaries; opening is for real, answers get lost on three ways | every unit in one invoice, each within the rules; none opened twice behind the page's back |
| **Finance ledger** `app.py` 3318-3524, 3689-3737, 4506-4672, `core/shop_lock.py`, `core/sales_reads.py`, `core/uzum_finance_openapi.py` | rows of `finance_orders` by day, hourly snapshots, the shop's key in Redis | hourly refresh, nightly refetch, backfill at a new shop or resync, snapshot, hourly message | DELETE and INSERT of two transactions overlap; the lock lapses and is deleted unasked; marks are late, refused or lost in a restart | a day is there once, a re-run replaces it, the messages of a day add up |
| Old slot grabber `postavki/slot_grabber.py` | the queue's table | an earlier consumer of plans | two consumers by configuration | not modelled |
| FBS pacing, locks, jobs `core/fbs_locks.py`, `fbs_bulk_jobs.py`, label and act caches | pacing slots, job records with a TTL, files | wait for a slot, start and poll a job | several processes over one token | not modelled |
| Rate limit, SWR cache `core/http_client.py`, `swr.py` | Redis keys and token buckets | wait for a token, refresh in the background | several processes over one bucket | not modelled, but for the repeated POST (`AutoSupply`) |
| Dashboards, expenses, pages, spreadsheets, portal clients, migrations, scripts | - | rendering, I/O, one-off programs | - | out of scope, see 6 |

**How the parts interact.** The allocator and the booking loop share the queue's table with
the seller's requests and with each other's configuration: which one consumes is chosen
by settings, and both book through the same portal call. The portal
is the only witness of what is really booked (variable `portal`, external). Payme, codes and the
admin all write the two subscription columns and then, after their commit, tell
the gate (`_invalidate_user_ctx_cache`, `revoke_user`, `unrevoke_user`). The
gate reads sessions first and the database only when a flag or an expired session says so.
The detector's events are what the allocator receives; its page and the auto
supply put plans into the queue. The point of sale and the catalogue's
synchronisation meet at the row locks of the variants, whose stock the auto supply reads.
The loops that write the finance ledger share the shop's lock with each other and with the
synchronisations of products and expenses.

## 2. Modules

| Module | Models | Extends |
|---|---|---|
| `AutoslotPlans` | the table, the portal, the seller's and admin's requests, the row updates | - |
| `AutoslotAllocator` | the event consumer in mode "live" | `AutoslotPlans` |
| `PlanLifecycle` | abstract: the life of a plan | - |
| `AutoslotProofs` | theorems about the consumer and the detector | `AutoslotAllocator`, `SlotRadar`, TLAPS |
| `BookingLoop` | the booking loop and its pool threads | `AutoslotPlans` |
| `BookingLoopProofs` | theorems about the loop | `BookingLoop`, TLAPS |
| `SubscriptionState` | what a subscription is and when it is active | - |
| `PaymeBilling` | the merchant API for one user | `SubscriptionState` |
| `PaymeBillingProofs` | theorems about the merchant API | `PaymeBilling`, TLAPS |
| `SubscriptionCodes` | activation codes, the admin's page, the replay | `SubscriptionState` |
| `SubscriptionGate` | the gate of one user and the requests that change a subscription | - |
| `SubscriptionProofs` | theorems about the codes and the gate | `SubscriptionGate`, `SubscriptionCodes`, TLAPS |
| `FbsMirror` | the mirror of the FBS orders of one token | - |
| `FbsMirrorProofs` | theorems about the mirror | `FbsMirror`, TLAPS |
| `StockBook` | abstract: stock and history, one request after another | - |
| `PosStock` | the stock requests, row lock by row lock | instance of `StockBook` |
| `PosStockProofs` | theorems about the stock requests | `PosStock`, TLAPS |
| `SlotRadar` | the detector of freed slots and its loop | - |
| `AutoSupply` | packing, cards, creation of invoices | - |
| `AutoSupplyProofs` | theorems about packing and creation | `AutoSupply`, TLAPS |
| `FinanceLedger` | the writers of one shop's days, the hourly snapshots and messages | - |
| `FinanceLedgerProofs` | theorems about the ledger | `FinanceLedger`, TLAPS |
| `MC*` | the values TLC needs (functions over model values, symmetry) | its module |

Operators named after a Python function model that function (`claim`,
`release_rows` the writing half of `release_expired`, `payme_rpc`, `update_code`
...). An operator whose comment says *Mutant of X* is a plausible bug: no action
uses it; put in the place of X it breaks the property that `PROJECT.json` lists
with it.

**AutoslotPlans.** A row is spread over `status`, `attempts`, `lease`, `req`,
`priority`. A slot is a number growing with its start; `day_of` gives its day, so
that windows are day ranges as in `day.py`. `lease_until` is abstracted to none,
held or passed. `CancelPlan` writes over any status, as the code does.
Metrics columns and Telegram callbacks are left out.

**AutoslotAllocator.** `Receive` is the SELECT of `release_expired`, `Release`
its UPDATEs: they are two steps because other sessions may write in between.
`Choose`, `Claim`, `SetTimeSlot`, `Record` follow `on_slot_freed` and
`_book_one`; `FirstFit` states what the one pass of `select_for_capacity` leaves.
`RecordFails` is the write that raises: the other threads still finish, then
the event ends. `NeverBegun` is a future that `ex.map` cancels after such an exception; the code
has them only beyond the first `BOOK_MAX_WORKERS` plans of a round, the model for any plan. The event loop is one thread, hence one `pc`.
A database error in the earlier calls of an event has the effect of no event and
is not an action of its own. `enqueue`'s SELECT and write are one step.

**BookingLoop.** One cycle is reload, schedule, watchdog, reap. `Submit` and
`SubmitRaises` are the two ends of `pool.submit`. The age of an attempt is not
kept: with fault "hang" any attempt may be the one that is late, which
is more than the code can do and so safe. `ReapOne` handles one finished
future; with fault "database" the write is lost and the plan leaves the queue in
memory all the same. `SetTimeSlot` that errs or times out may or may not have
moved the invoice. `Attempts` bounds the threads alive; `ScheduleFull` is
that bound. The order of the table, of a reload and of a round are each a set of pairs of
plans (`InOrder`), and a sequence is what ranks its members by it.

**PlanLifecycle.** Both consumers of the queue implement it: a plan is waited for,
taken, answered or given back, and ended for good. The mapping reads the life off the
row (a claimed row is "booking") and the answers still owed off the threads. The
seller's cancel is allowed at any time, and, as the code overwrites rows by
their id, an answer may undo it: `Taken` and `Answered` state exactly that
much and no more.

**PaymeBilling.** A handler is a chain of steps, one per SELECT and one for the
commit: a call is cut off (`Crash`) or meets other writers between any two.
`Save` is the UPDATE of an ORM session, which names only the columns that
differ from the row as it was read. What follows the commit is in the gate.
CheckPerform, CheckTransaction and GetStatement write nothing. Times are days; twelve
hours is a set of transactions (`stale`).

**SubscriptionCodes.** An activation is two steps, read and commit; the admin's requests
are one step each. The log is kept by user, since the code reads and rewrites it so. `Step` is what
one row of it makes of the subscription before it (a row without a code is the admin's and
gives what it granted), `Steps` the recursive function over the rows of a user as
`_recalculate_subscription_for_user` goes through them, `Replayed` its last value, which goes to the columns,
and `Regranted` the rows as they are written back.
`trial_days` is a constant. The admin's rows and
activations are the log; payments are not in it. The definitions of the specification are
prefixed (`CodesSpec`, `CodesNext`) because `SubscriptionProofs` extends this module and the gate.

**SubscriptionGate.** The subscription is reduced to the day it ends, trial
included, "unlimited" being a day that never comes. A request of a browser
carries the session it was sent with and every response overwrites the
browser's. A change is a commit and then the Redis calls of its handler in their
order. One change of the admin's or of Payme's is in hand at a time, also with `Overlap`, which lets it begin before
the last has reached the session and beside an activation. `UpdateCode` is the admin's `update_code`, at any time:
it replays who has used the code (`coded`) to another end and calls nothing in Redis.
The history variable `unseen` says that a code has been shortened and no request has read the database since.

**FbsMirror.** A sweep is one drain per due status and one transaction that
upserts what was listed and settles what has left; `WorkerBegin`, `WorkerDrain`,
`WorkerCommit` are its steps, a press of a chip has three of its own. The statuses still
to drain are a set, taken in the order of `Place`. A settle
deletes a row only after a complete drain of its status, and of an empty one only
at the second strike; an order found in PENDING_DELIVERY is re-homed instead.
The seller's actions change Uzum first and owe local writes (`owed`), any of
which may be lost. Abstractions: one token group, statuses after DELIVERING
merged (they are drained alike), a drain is whole or known to be cut short,
`/count` is right or an error, invoices of one order, no DBS actions and bulk jobs. The upsert is
refused as a whole, where the code writes it in chunks of 1000 rows (`core/fbs_sync.py:744`) of one transaction; the statuses of
a sweep share one answer to the re-home question, where `core/fbs_data.py` 353-365 asks for each.

**PosStock.** A request locks its rows in the order of ids, reads and writes them, and
frees them with the commit. `undoes` is the action an undo
has read without a lock. The trim is a read and a delete. `StockBook` says the same as one step per
request; its history marks what is reverted or forgotten. The lines of a sheet are integers, for
`_coerce_warehouse_import_qty` lets a cell below zero through and the import writes it as it stands; `Unset` is a row a
request does not name. `Quantity` says how low a variant can be: at zero, or where a sheet has
counted it. Actions are ordered by their commit, where the code orders them by `created_at`, which the process takes
before it commits: two that overlap may stand the other way round in the code's history. Abstractions: one
seller, other sellers' rows are named in a basket but never contended, lines of one item
are summed, no shop is deleted, no variant is created. The catalogue's
synchronisation locks in the order of Uzum's feed (`app.py:6317`), not of ids: it
is in the model and outside `NoWaitCycle`, for with it Postgres has to break a circle.

**SlotRadar.** A poll asks Uzum rung by rung which slots take a quantity. In three
modes a poll follows the other, in "pipeline" and "detect" they overlap and a
late one is dropped by the order in which they *began*. Requests of a
poll may read Uzum before and after a change; from some point on they may be
empty. The order of the beginnings is `ahead`: which of the polls under way began before this one.
`Excused` names, one by one, the cases in which the code announces a slot that
has not risen: a change between two reads of a poll, a younger poll that read
earlier, an outage the guard cannot see. Each of them is needed (dropping one,
TLC finds the announcement). In the fast mode `Settles` speaks of what is shown, not of the
snapshot its events are told from. Left out: digest, alerts, cooldown, SKU context. Prefixed
names (`RadarSpec`, `RadarNext`) for the same reason as above.

**AutoSupply.** `NextSku`, `CloseFull`, `Take`, `Preview` are the loop of
`pack_invoices`; skus are numbered in the order `_group_order` gives. The page's
cards are indices of packs, renumbering included. A press is checked against the rules of
now (`Check`) and opened pack by pack; the first error ends it and the answer names what was
made. `doubts` is a history variable: how often the page lost sight of a pack. `Recalculate` makes the
draft anew from unchanged rules and an unchanged sales window; the page lets the seller change both before.

**FinanceLedger.** One shop with one sku. `Locked` are the threads of the hourly and
the nightly loop, `Backfill` those that `_fire_finance_seed` starts; all end in
`_write_finance_day_rows`. `ledger[d][w]` is the row of day d that w left, so that a doubled day
has rows of two writers. `Delete` and `Commit` are the two ends of that transaction under READ
COMMITTED: a DELETE that waits for another's finds its rows gone and does not see what it
inserted (`seen`, which a commit takes its own rows out of). `Leave` deletes the key whoever has
set it. A synchronisation of products or expenses appears as a skipped day (`HourlySkips`,
`NightlySkips`) and as a key that is deleted (`Expire`). `Dispatch` is the message to a subscriber
of every hour at the marks 1 to 23, any row of the mark before standing for a doubled one; at midnight
`DispatchDay` sends the day's summary (`core/time_helpers.py` 77-122). `DispatchRaises` is a mark without a message, by an
exception or by the silent return without an admin's token (`app.py` 2681-2684); `told` is what a message says, not
whether Telegram delivered it to each user (`app.py` 3106-3108). Numbers are quantities of a
sku; money columns move with them. `bare`, `mixed`, `taken`, `sent`, `steady`, `last` are history
variables. Left out: the expenses ledger, longer intervals, what a message looks like,
the dashboards, the deletion of a shop, and quarters other than the one with the model's days.

## 3. Runs

| Run | Question | Bounds |
|---|---|---|
| `AutoslotBudget` | attempts, exclusive claims, every claim ends, the life of a plan (a booking is final) | 2 rows, 2 acts (one without a stock id), 2 attempts, 1 retry round, 1 restart, 1 slot; 672,572 states |
| `AutoslotCapacity` | booked volume fits freed volume over the rounds | 3 rows of volume 2 or 1, events of volume 2 or 3 for 2 slots of which one is wanted, 1 retry round |
| `BookingQueue` | the loop's structures and the rows, the life of a plan | 2 rows, 2 attempts alive, limit 2, all faults |
| `BookingAttempted` | nobody is skipped, nothing stays in flight | 2 rows, 2 attempts alive, limit 1, a midnight, hangs and failing submits; no invoice has a stock id, so an attempt ends before its SET |
| `PaymeLedger` | orders against transactions, order of states, days | 2 orders of 1 and 2 days, 3 transactions (two of one order), 1 call at a time, 1 crash, 2 days, codes, unlimited codes, clears |
| `CodesReplay` | replay against steps, longer codes | 2 users, 2 codes of 1 day, 2 days or unlimited, 2 activations each, 4 log rows, 2 days; 205,463 states |
| `GateOneByOne` | changes that flag the user reach the session, blocks are lifted, access is served | 1 browser, 1 request at a time, changes that wait for the last one to arrive, codes made shorter or longer at any time, 2 days; 57,872 states |
| `FbsMirror` | a delete has a reason; the mirror comes to agree with Uzum | 2 orders, two groups of statuses due together, presses of PACKING, actions on one order, 1 fault of any kind; 1.6 million states |
| `PosStock` | the book is kept, no circle, the newest actions stay, only a sheet goes below zero | 3 workers, 3 variants (one another seller's) and an id of none, 5 baskets, 1 sheet with a cell below zero, 4 requests, history of 1; 154,617 states |
| `SlotRadar` | announcements, the snapshot comes to agree with Uzum | 2 slots of volume 0 to 2, 2 polls at once, ladder 1, 2, five modes, suspicion from 2 slots on, 1 change, 2 faults; 976,216 states |
| `AutoSupply` | packing, what is opened twice | 3 skus of 7 kinds, 6 rules (4 units, 1 or 2 skus, minimum 1 to 3), cap of 3 invoices, 2 presses, 1 fault; 1.7 million states |
| `FinanceLedger` | the lock keeps days single, a re-run replaces, messages add up | 2 days of 3 hours, marks up to the first midnight, 1 backfill, 1 fault of any kind, a nightly window of 1 day, 2 sales a day; 2,973,195 states |

*Why the bounds are enough.* The interesting cases of the queue need two rows
(two of one act, or two acts that compete), one more attempt than one, a
retry round (needs a failed and an untried row: three rows in `AutoslotCapacity`)
and a restart between two events. The real values are `MAX_ATTEMPTS` 3,
`RETRY_ROUNDS` 1, `MAX_INFLIGHT` 100, lease 30 s, watchdog 10 s; budget and
claims are also proved for all values, and so are the volume and the queue. The round robin has its wrap-around, a joining and
a leaving plan with two rows; the limit is reached with one and with two. Chargebacks out
of order need two orders, a second transaction of an order needs a third;
a horizon of two days separates trial, active and expired. The gate needs every
state of session against database, which three days and "never" give.
The hazards of the mirror are of one order that moves while it is listed, and of
another whose being there makes a status not empty. A circle of waits
needs two requests, a third lets a row be taken in between; a history of one action
is trimmed by the second. Overtaking needs two polls; a suspicious drop needs two
slots (in the code ten; the guard's 40 % are kept). One sku of 5 or 6 units fills an
invoice of 4 and leaves a rest, three of them need more than 3 invoices; `SlotRadar` was also
run with two changes and one fault (2.4 million states), and the inductive invariant of section 5 with a ladder
1, 3 that does not have the quantity "detect" asks for (2). A day of three hours has a first mark,
one that is compared with a snapshot, and midnight; the third hour is where the nightly run
meets the hourly one of the same day; one fault, a backfill and the two loops are every pair
of writers. What section 5 lists is proved for all values of the constants, so for it these bounds
only show that the properties can be reached and broken.

`CHECK_DEADLOCK FALSE` stands where the bounds (rows, clock, log, requests, presses) may
leave nothing to do; `SlotRadar` goes on for ever and is checked for deadlock.

*Where the code departs from its texts.* No run is kept for these: the passing runs allow them,
leave them out by a stated restriction, or they lie outside the models.
- A seller's cancel that meets a booking thread is overwritten: `PlanLifecycle` has to
  allow it (`postavki/routes.py:770` says "Rejani bekor qiladi").
- An invoice that had a slot is reported as booked at a slot it was never moved to,
  because `verify_booked` (`booker.py:124`) asks only whether there is any.
- Two activations served at once both read the last free use of a code
  (`core/subscriptions.py:550-571`).
- A slower response carries the session of before a change back into the browser,
  after the other request has cleared the recheck flag (`app.py:446`).
- A code made shorter (`update_code`, `admin/routes.py:1037-1046`) ends its users' subscriptions
  earlier and flags none of them, so a live session goes on with the end it was given, for as long as that
  lasts, against `core/subscriptions.py:48-52` ("a shortened/removed subscription ... would never reach a
  live session") and `core/redis_client.py:36-40`. `ChangeReaches` excepts it (`unseen`); without the
  exception TLC finds it violated in six states: a page served to a session with an end, then the update.
- A sheet may count a variant below zero: `_coerce_warehouse_import_qty` (`warehouse/routes.py:69-82`)
  lets the cell through, lines 325-326 write it, and the column has no CHECK (`models.py:260`), although
  `pos/routes.py:321` keeps a sale from driving "recorded stock negative". `Quantity` is what is
  kept: nothing but a sheet takes a variant there, or lower.
- A row whose order went on to DELIVERING is deleted with its `invoice_number`, the
  proof `app.py:5282-5284` means to keep: only PENDING_DELIVERY is asked for at the
  re-home (`core/fbs_data.py:379`).
- `MAX_INVOICES` does not end the loop of `pack_invoices`: the sku at hand is
  skipped and the next one fills the next invoice, so a large need gives more than 20 and
  "Create all" is then refused as a whole. And the last piece of a sku may be below
  the minimum (3 of at most 4, five to send: 4 and 1), against `auto_plan.py:127-128`.
- A code somebody used can never be deleted (`core/subscriptions.py:437`, `admin/routes.py:1047`):
  the recalculation adds the activations to the unflushed session (`extensions.py:82`) and so takes
  them off the list of deletions, and the foreign key (`models.py:445`) refuses the DELETE.
- The backfill takes no lock, against `core/shop_lock.py:4-6`. Its DELETE and INSERT may overlap
  with a loop's, and then the day is there twice, whatever `models.py:684-690` says of re-runs,
  until the next one that meets nobody (`Rerun`).
- After a mark without a snapshot the next message is of the day from its start
  (`core/sales_reads.py`): what was told before is told again (`MessagesAddUp` needs `whole`).
- `core/uzum_finance_openapi.py:536` takes one second off a window its docstring calls inclusive, and
  the nightly and the backfill windows end at 23:59:59 already: a sale of that second, the
  last of a window, is taken out of the row by the nightly run and comes back with the window of
  the night after, or, after a backfill, with the next window that goes over its day. Finer than the hours of the model.

*Restrictions of passing runs, each with what happens beyond it.*
`PaymeLedger` has one worker: Payme waits for the answer to a call before it
repeats it, and the code has no lock of its own; with two workers two
created transactions of one order are possible and `LedgerAgrees` fails.
`NoFreeDays` leaves out what follows a subscription made unlimited or cleared
over a paid order (`reset`): there the rollback restores what the order once found.
`CodesReplay` has one activation at a time, or two exceed the limit as above.
`GateOneByOne` has one browser and no overlapping changes;
`ChangeReaches` also fails with two browsers (the first to come clears the flag for
both), and `NotBlocked` with overlapping changes (a grant between the
admin's status check and its block): without them only a login comes between the two. `ChangeReaches`
is of the changes that flag the user (`~unseen`), see the list above. `Guarded` is said of the time before the first backfill and
before a lock is lost under a thread that works (`bare`). `MaxFaults` bounds what fails in
`FbsMirror`, `SlotRadar`, `AutoSupply` and `FinanceLedger`; a status whose every drain comes back empty for ever, with
orders in it, is never mirrored.

## 4. Fairness

- Allocator: weak fairness of the consumer's steps (a thread that runs as long as
  the process), of the passing of a lease (the clock), and of the arrival of some event:
  an assumption on the warehouse, which frees slots again and again. `release_expired` runs only when
  an event arrives, so `ClaimEnds` needs it. Users and restarts have no fairness.
- Booking loop: weak fairness of the loop and of each pool thread (every HTTP call
  has a timeout), strong fairness of `Reload`, since the loop passes its place for ever and
  the refresh period ends again and again; `pool.submit` does not raise for ever.
- Mirror: every group of statuses is due again and again (`_fbs_sync_loop` wakes for ever
  and survives any exception of a tick), hence a sweep that has begun ends. Presses, the
  seller and Uzum owe nothing; `Converges` holds once they rest.
- Detector: the loop begins polls for ever and every request of a poll ends, by its
  answer or its timeout. Uzum's changes and the faults are bounded, not fair.
- Gate: the server serves the requests it took, and the user goes on asking for
  pages (strong, because other requests occupy the slot in between).

## 5. Proofs

For any values of the constants, from the named assumptions of the modules alone; a theorem that
needs more says so by an ASSUME of its own, and these are all:
- `OneWorker` (`LedgerKept`, `Forward`, `NoFreeDaysKept`): there is at most one worker, as Payme
  has one call of an order under way;
- `OneServed` (`ReplayCorrect`, `LimitKept`, `LongerCorrect`): the requests on the codes are served one at a time;
- `~Overlap` (`NobodyBlocked`, `Reaches`): a change waits for the last one to arrive;
- `OneAtATime` (`Reaches`): one browser, one request;
- `MaxFaults <= 1` (`Settles`): at most one thing fails. `NothingLost` says what holds of the mirror for any.

Section 3 says what happens beyond each. Numbers that are summed up (volumes of a slot, days of orders,
units of an invoice, quantities told) are cardinalities of sets of pairs in the models, so that the library's
theorems about finite sets apply to them.

**`AutoslotProofs`**, the allocator (any number of rows, invoices, volumes, slots, attempts,
retry rounds and restarts): `TypeCorrect`, `Budget` (`SetBudget`), `ClaimExclusive`
(`ClaimHeld`), `Capacity` (`CapacityRespected`), `BookedForGood` (`BookedSticks`, which no run
checks by itself: `LifecycleKept` implies it) and `Refinement`: `Spec => LifecycleKept`, the consumer
implements `PlanLifecycle`. The argument is one inductive invariant,
`IInv == TypeOK /\ Phases /\ ClaimHeld /\ NoDeadWaiting /\ SetBudget /\ Paid /\ Fresh`.
`SetBudget` alone is not inductive: a call is paid by the claim before it, so
`Paid` says that a thread that has not called yet has an attempt left over;
`NoDeadWaiting` makes a claim, which does not look at `attempts`, stay within the
maximum; `Fresh` gives a new row its zero. `ClaimHeld` needs `Phases`: rows that
`release_expired` has read are claims of dead threads, since no thread of this
process is in flight at that time and nothing but the consumer claims.
`Phases` also says that a row whose SELECT has been done can only be cancelled before its
UPDATE, which is what makes `BookedForGood` hold at `Release`. One lemma per
action or group of actions shows that it keeps the invariant and maps to a step of the plan's life.
`Capacity` adds `Placed` (who is chosen has a row, hence an invoice and a volume) and `FitTogether`: what earlier
rounds booked and what this round tries fit the freed volume together, and no row is in both.
The choice of a retry round is made against the volume without the failures, so `FitTogether` speaks of
`won` and `Working` and not of all that was tried.

The detector (any slots, polls, ladder, modes, suspicion, changes and faults): `RadarTypeCorrect` and
`Announced`: `RadarSpec => AnnouncedRose`. The property speaks of one step; why the slot it announces has risen or
is excused was settled when the poll read it, or when another poll took it off the snapshot. Hence
`RadarInvariant == RadarTypeOK /\ Ordered /\ Truth`. `Truth` has three parts, for a slot and a quantity
of the mode's snapshot: what Uzum offers and the snapshot lacks has risen or is excused (`RiseKnown`);
what a poll that may still be applied has read, and the snapshot lacks, has risen or is excused too
(`ReadsTrue`); and what such a poll looked for and missed is not there now unless it rose since, or
was announced to the poll, or was hidden from it by an outage (`MissesTrue`). When a poll is applied, what it read leaves
`ReadsTrue` as an announcement, and what it missed enters `RiseKnown`, which is where each case of `Excused` is
used once. `Ordered` says that the polls under way began one after another: of two polls one is in
`ahead` of the other, so that a poll that is applied either makes the other one late or is its elder, whose announcements
the other bears in mind.

**`BookingLoopProofs`** (any plans, limits, lifetimes and faults): `TypeCorrect`, `QueueKept`
(`OrderListsPlans`), `OneFuture` (`OneFuturePerPlan`) and `Implements`: `Spec => LifecycleKept`, the
second consumer implements `PlanLifecycle` too.
`BInv == TypeOK /\ OrderListsPlans /\ OneFuturePerPlan /\ QueueOpen`; `QueueOpen`, that a plan in memory
is waiting or cancelled, is what lets the loop's answers be those of a plan that has had none.
The lemmas about ranks (`AheadCounts` and what follows from it) show that a set
ordered by a strict total order has one sequence, which lists each member once.

**`PaymeBillingProofs`** (any orders, transactions, days, crashes and other writers):
`TypeCorrect`, and for one worker `LedgerKept` (`LedgerAgrees`), `Forward` (`TxForward`) and
`NoFreeDaysKept` (`NoFreeDays`). `LInv == TypeOK /\ Ledger`: besides the agreement of each order with its
transactions, `Reads` says that what the call in hand has read of them is still so at each of its steps.
`DInv == LInv /\ DaysKept` is for the days. `user.until <= Today + days paid + given` is not
inductive: a chargeback puts back the end an order once found, and orders may be charged
back in any sequence. So `DaysKept` says that some number `found[o]` of paid days can be given to each paid
order, as the ones that were there when it was performed, so that what it would put back is
bounded by them (`Found`), that of two orders that began a period of their own the later one has the earlier one's
days in front of it (`InTurn`), and that the subscription covers the days of all paid orders (`Holds`). A
chargeback takes an order out and the rest keeps its numbers or gets lower ones.
The branch that restores the end it found (`until = applied`) compares ends by equality: the
days it takes may be those of another order that is still paid. The theorem bounds what a user gains, not what
one loses.

**`SubscriptionProofs`**, the codes (any users, codes, durations, limits, length of the log):
`CodesTypeCorrect`, for any number of requests at once, with the foreign key from a log row to its
code; and for one request at a time `ReplayCorrect` (`ReplayAgrees`) and `LongerCorrect` (`LongerIsNoLoss`).
`ReplayInvariant == CodesTypeOK /\ ReplayAgrees /\ Seen`: what an activation has read of its user and its code is still
so when it commits (`Seen`). The rest is about the replay: it depends on the durations of the
codes in the log alone (`SameReplay`), a new row is one more step of it (`ReplayAppend`), rows that have been
written back replay to the same (`Regranted` changes no row the admin set, and of the others nothing the replay reads),
and a longer duration gives no earlier end (`ReplayGrows`, since `Extended` grows with the end it extends, even where that
has passed by the time of the activation). That the recursive function exists and what holds of all its values is
shown by `UpTo`: a set of naturals that has 0, and i + 1 with each i below n, has all numbers up to n. It is proved
from the least element of what would be left out (the well-foundedness of the naturals), and takes a set where the library's
induction takes an operator.

`LimitKept` (`UsesCounted`, stated there, which no run checks by itself): `used_count` is the number of a code's activations over all
users and at most `max_activations`. `LimitInvariant == CodesTypeOK /\ Seen /\ Offered /\ UsesCounted`; a user whose log is cleared
takes exactly its own activations back (`ClearedUses`), so that the `max(0, ...)` of the code never has to help.
With two requests at once TLC finds a code used once too often (section 3).

The gate (any browsers, requests and horizon): `TypeCorrect`, overlapping changes
included; `NobodyBlocked` (`NotBlocked`) and `Reaches` (`ChangeReaches`). `BlockInv == TypeOK /\ Apart /\
RevokesRight /\ Lifts /\ Emptied`: a change and an activation do not write at once, the admin's delete is about
to block only who has nothing, and whoever is blocked and has something again has a grant or an
activation on its way that lifts it. An update of a code cannot give a blocked user anything, for
the admin's delete has emptied the log (`Emptied`). `ReachInv == TypeOK /\ SessionsKnown /\ RecheckHeld`: a session,
in the browser or in the request that carries it, tells no more than the database, or the recheck
is set or about to be, or a code was shortened that no session has read since (`unseen`); and a page that will clear
the recheck has read the database since, but for such a code.

**`FbsMirrorProofs`** (any orders, sweeps, chips and moves): `TypeCorrect`, `NothingLost`
(`DeletesMissed`, stated there) and `Settles` (`SettleSound`). `LooksInv` says what the looks know: a status is
drained once in a sweep, a drain that went to the end hides orders only by an empty answer, a
press may settle only what `/count` has confirmed, and what is fetched again is there. From it follows, for any number
of faults, that a deleted row was missed by a drain to the end, or by the second of two empty
ones. That the order had really left needs that two empty answers in a row are
not both flukes: `OnceInv == LooksInv /\ StrikeLies /\ LieAlone` follows the first of them from its strike to the settle.

**`PosStockProofs`** (any workers, variants, baskets and sheets, cells below zero included): `TypeCorrect`,
with how low a variant can be (`Quantity`: what is taken leaves a variant
at zero or above, what is added raises it, an import puts it where its sheet says), `NoDeadlock`
(`NoWaitCycle`), `HistoryKept` (`RecentKept`) and `Refinement`: `Spec => BookKept`.
`IInv == TypeOK /\ Tidy /\ Ascending /\ Exclusive /\ Current /\ Covers /\ Origins`:
a request's locked rows are below those it has still to lock (`Ascending`), so a
circle of waiting requests would go down for ever in the ids, which is refuted by the
well-foundedness of the naturals; a row is locked by one request
(`Exclusive`), so what it has computed is still right when it commits (`Current`), and nothing
of its lines is forgotten (`Covers`). For the history, `Remembered`: what a trim has seen and would delete
has `Keep` newer actions at the time of its read, hence at the time of its delete, since the history only grows
(`Grows`) and two trims only forget more.

**`AutoSupplyProofs`** (any goods, rules, cap, presses): `TypeCorrect`, `Sound` (`DraftSound`), `WithinRules`
(its part about each invoice) and `NotTwice` (`OpenedOnce`).
`IInv == TypeOK /\ Filling /\ PacksFit /\ Quiet /\ Waiting /\ Accounted`. `Filling` keeps the
invoice at hand within its limits, so that the room is never negative and a line never
empty (`PortionFits`). `Accounted` is a balance: invoices opened for a pack, requests that may still
open it and the card on offer are together at most one more than the doubts
about it; each step moves one unit of it or adds a doubt. `Sound` adds
`DInv == Counts /\ OnceEach /\ Unreached /\ Sent`: an invoice's figures are those of its lines, which needs
that a sku gets no second line in one invoice (`OnceEach`: with a rest of it, an invoice that has it is
full); what is placed and the rest are the quantity to send, or the sku was refused (`Sent`).

**`FinanceLedgerProofs`** (any hours, days, backfills, windows, sales and faults): `TypeCorrect`,
`LockKeepsDays` (`Guarded`), `RerunAlone` (`Rerun`) and `AddUp` (`MessagesAddUp`). `Guarded` is not inductive: that no
day is doubled needs what a thread in the middle of a day has still to delete. Hence
`IInv == TypeOK /\ Kept`, where `Kept` says that, while `bare` is false, who is active holds the
lock (`Holds`), is alone (`Single`), and, between its two statements, has seen every row of its day
(`Cleared`). A thread that leaves deletes its own key, then, and nobody else's. `Rerun` is of
any time, backfills and lost locks included: `RInv == TypeOK /\ Apart`, where `Apart` says that a
writer whose two statements met no other's is the only one at its day and has seen all its rows.
`AddUp` is of the loop of the marks alone. `MInv` says of each mark that was taken, not only of
the last, that what was told of its day is at least its rows if all marks up to it were told of (`AtLeast`,
`Lower`), and at most one of its rows if none up to it was missed, the day never fell and it is there once (`AtMost`,
`Upper`, with `Once`); `Steps`, `Unsnapped`, `Untold` and `Newest` say where the loop is with its marks. The message of a mark adds the
difference to the mark before it, so both bounds go from mark to mark.

*Only model-checked:* the liveness properties (`ClaimEnds`, `Attempted`, `FlightEnds`, `ServedAgain`, `Converges`,
and `Settles` of the detector): fairness and ENABLED are beyond the prover. Every invariant, action property
and refinement the runs check is a theorem as well, most for any values of the constants, the others under the
hypotheses listed above.

## 6. Not modelled, and why

- The allocator and the booking loop in one state: configuration starts one of
  them; `worker.py` starts only the loop. The old grabber is a third consumer by configuration.
- `postavki/autoslot_client.py`: the remote service is not in the repository.
- The composition of detector and allocator: the allocator takes any event at
  any time, which is more than the detector can send.
- Payments inside the activation log: the replay does not know them, so an update of a
  code takes paid days away. Stated with the replay's hazard.
- Loss of Redis keys (no persistence, eviction): a session of before it lasts up to 30 days
  whatever the gate does.
- The expenses ledger, pacing slots, bulk jobs, token buckets, the SWR cache: protocols of
  a few lines each around large bodies of reading and writing what Uzum lists.
- Pages, forms, spreadsheets, label files, the clients of the portal and of the OpenAPI, translations,
  migrations, scripts: most of the repository's lines (`fbs/routes.py`,
  `products/routes.py`, `core/uzum_openapi.py`, `translations.py`, the templates). They render or fetch and keep
  no state of their own beyond the tables above, so the share of the lines that the
  modules stand for stays small although the parts with a protocol are covered.
- Digests, metrics, notifications, texts.

## 7. Plan

1. *Done*: queue, allocator, booking loop, the life of a plan and its refinement; billing, codes,
   gate; mirror; stock with its book; detector; auto supply; finance ledger with the shop's lock;
   proofs of section 5.
2. *Done*: proofs of all safety properties of the runs. Liveness stays with TLC.
3. Composition of billing with codes; loss of Redis keys in the gate.
4. Pacing slots of a token; the expenses ledger, which is written like the days of sales.
