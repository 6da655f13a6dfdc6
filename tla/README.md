# TNT campus pre-ordering: a verification project

The repository is a backend (`tnt-backend-main`, FastAPI, SQLAlchemy on PostgreSQL, Redis, Razorpay) with which
students order food and stationery for a time slot, and a mobile app (`tnt-frontend`) that calls it. This directory
holds TLA+ modules of the backend, TLC runs over small instances of them, and theorems that TLAPS proves for every
instance. Paths below are relative to `src/tnt-backend-main/app/`.

Contents: 1 the system · 2 how code becomes actions · 3 the modules · 4 the runs · 5 fairness · 6 the theorems ·
7 what the code does otherwise than it says · 8 what is not modelled · 9 the plan.

## 1. The system

Handlers declared `def` run in a pool of worker threads, each with a session of its own (`database/session.py`,
`core/deps.py`); `async def` handlers run on one event loop. Requests share PostgreSQL rows, Redis keys and a few
module variables. Almost no handler locks what it reads, so nearly everything that is hard here is one of four things:
a check that is stale when its result is written, a request that dies between two of its commits, Razorpay's
calls and webhooks arriving in any order and any number, and a Redis key that outlives or does not outlive its purpose.

| Component | State | Operations | Talks to | Correct when |
|---|---|---|---|---|
| order state machine (`orders/state_machine.py`, `orders/service.py`) | `orders.status`, `order_history` | validate and apply a transition | called by all order handlers | an order moves along the table only and stays where it ended |
| order lifecycle (`orders/order_service.py`, `qr_service.py`) | order row, QR code, pickup flag, notifications | confirm, mark ready, cancel, issue QR, confirm pickup | rewards (on READY), notifications | only a ready order is handed over; one reward; codes stay valid; READY is announced |
| live tracking (`orders/ws_router.py`) | one connection: phase, last status | authenticate, poll, close | reads order rows | a viewer sees the order move ahead only and hears its end |
| payments and ledger (`payments/`, `ledger/`) | payments, ledger, webhook dedup keys | initiate, verify, refund, webhook | Razorpay, order row, notifications | entries are backed by money, refunds are covered and single, nothing is lost |
| slots (`slots/service.py`, `orders/checkout_service.py`) | slot counter and label, Redis lock | book, reserve in a checkout | Redis, order rows | counter and label are right, the lock excludes and is released |
| placement (`orders/order_service.py`) | Redis idempotency key | place an order | checkout, notifications | a retry places no second order |
| solo cart (`cart/router.py`) | one Redis document per student | add, remove, clear, checkout | checkout | one vendor, no item appears or vanishes |
| group cart (`group_cart/`) | groups, members, items, splits, slot locks | create, invite, put, remove, split, lock, place | checkout | rows are unique, a slot belongs to one group, shares add up to the bill |
| points (`rewards/service.py`) | account, transactions, redemptions | award, redeem, bonus | called on READY | nobody owes points, the account adds up |
| vouchers (`rewards/service.py`) | vouchers, redemptions, order totals, ledger | create, update, deactivate, redeem | order rows, ledger | no undercharge, counters and ledger agree |
| stationery (`stationery/`) | job, payment | submit, update, initiate, verify | Razorpay, ledger | each Razorpay order is known, verified means paid |
| login (`auth/`) | Redis password, counters; users | send, verify | SMS | sends are limited, guesses too unless an older count ends with them in it, a password works once, a lockout ends |
| rate limits (`core/rate_limit.py`) | one Redis counter per identity and window | check | called by middleware | the limit holds within a window but for what Redis failed, the window ends |
| admin settings (`core/emergency.py`, `university_policy.py`, `faculty_policy.py`) | process variable and Redis key | set, get | called by handlers | what was set last is in force |
| user rows (`admin/router.py`, `users/router.py`) | approval, activity, preferences | approve, reject, toggle, merge or replace preferences | gate of every handler | an approved vendor is active, what was sent for a preference is kept |
| reward policy (`rewards/service.py`) | policy row, its audit, rule rows | set, seed, read | bonus on READY | the audit explains the policy in force, and its window is one |
| text messages (`core/sms.py`) | none | send, with a fallback | two providers; login, notifications | who is told it went out gets it, at most once from each provider |
| notifications (`notifications/`, `admin/router.py`) | notification rows | notify, mark as read, announce | text messages, transactions of all handlers | no row without a text, no text without a row unless a request died |
| complaints (`complaints/router.py`) | status, assignee | file, assign, set status, escalate | order rows | what was answered last is what the row says; a closed one is not escalated |
| past orders (`orders/reorder_service.py`, `feedback/`) | feedback rows, new orders | rate, order again | slots, notifications | an order is rated once, a reorder fits its slot |
| load labels and AI planners (`core/load_insights.py`, `ai_intelligence/`) | none: they read orders and slots | score, predict, recommend, alert, rank, plan | slots, vendors, students | thresholds written apart agree, the best slot is the best, a ranking ranks every vendor |
| dashboards (`orders/order_service.py`, `admin/router.py`) | none: they read orders | vendor and admin analytics | | every order is counted once, and the boards add up |

The remaining parts (menu, configuration, security, migrations, the app) are in section 8.

## 2. How code becomes actions

*Sessions.* The session has `autoflush=False` and an identity map: a row that is loaded once is not refreshed by
a later query, with or without `FOR UPDATE`, and a flush writes only the columns whose value changed
(`Session!Flushed`). So a handler is a read step that stores what it loaded, and one commit step per commit of the
code, which writes relative to what was loaded. `Worker` is this machinery once and for all: `Begin` (a request arrives
and runs to its first point of interleaving), `Continue`, `Finish`, `AtOnce` (handlers of one statement) and
`Die`. Its history variable `raced` records that two requests overlapped; properties written `~raced => ...` hold
when they did not, and the unconditional ones hold under every interleaving. `OrderLifecycle`, `OrderPayments` and
`SlotReservation` carry their requests in variables of their own, because proofs and refinements speak of them.

*The event loop.* The server is one process (`run.py`). Its coroutines (`send_otp`, the webhook, the WebSocket) call blocking
code, so the loop runs one of them at a time between two `await`s, beside the worker threads: `OrderPayments!LoopIsFree`,
the guard of `OtpLogin!BeginSend`, and a `Poll` that is one step.

*Commits.* `core/db_transaction.py` rolls back on an error but commits what is pending and then raises on an
`HTTPException`; `SlotReservation` models that as the `partial` orders of a checkout that fails after its
reservation. `Abort`, `AbortPay` and `Die` are requests whose worker or connection is gone: nothing uncommitted stays,
everything committed does.

*Data.* Amounts are left out of payments (one payment is one sum), and kept, in whole units, for vouchers,
points and group splits, where the arithmetic is the point. Statuses are strings as in the code. Codes, keys,
slots and users are model values.

*Ownership and roles.* The checks that a caller may act on a row at all are taken as passed: a step is one of a
caller that may take it. The role layer on transitions (`UpdateAllowed`) is modelled.

*Messages.* A request that sends a text hands over to `SmsDelivery` (`at |-> "dialing"`) and names what it does next
in `then`. `OtpLogin` and `Notices` both extend it, so a login code and a notification take the same provider, the same fallback and the
same ways of failing, and other requests run between two attempts.

*Analytics.* The planners only read. They are operators on the state of `SalesBook`, a small book of order rows with a calendar,
and their properties are checked in every state that book comes to. Quotients that the code does not round are exact pairs of
integers here and floating-point numbers there, so a threshold met exactly is met. `sorted()` is `InOrder`, the list in which the order
holds of every two elements. `ORDER BY count DESC LIMIT n` leaves ties to the
database: `Leaders` is the set of all answers it may give. A comparison of an enum column with a literal in small letters
(`status == "completed"`) has two outcomes. SQLAlchemy stores the names of the members, in capitals. Where the column is text, as in the SQLite of the
tests, the literal matches no row, and `!=` excludes none. PostgreSQL, whose column is of an enum type (migration 0011 alters it), refuses the
query, and the handler fails. The constant `TextEnums` of `SalesBook` says which it is: what rests on such a query is claimed under `TextEnums` only,
and all the rest for both.

*Redis.* A command may fail after the server ran it. `RateLimit` takes both outcomes of each of its two commands (`FailOpen`, `LoseWindow`), since its
code answers them by letting the request through. A key that `EXPIRE` no longer finds stays away.

*Bounds.* `MaxAborts`, `MaxRequests`, `MaxRaces`, `MaxInsights`, `MaxCalls`, `MaxViewings`, `MaxOtps` and `MaxPrefs` cap how often something may happen;
each is a named constant that appears in the guard of what it caps (`MaxRaces` and `MaxInsights` in `MCServices`). The sets `Codes`, `Accounts`, `CartRows`, `SplitRows`,
`LockRows`, `RzpOrders` and `Texts` cap how many rows can be created or messages sent, `Pauses` and `DayHours` how time passes in the order book. No deadlock check is made: the bounds let every
instance stop, and so does a campus with no request in progress.

## 3. The modules

| Module | Models | Correspondence |
|---|---|---|
| `OrderTransitions` | statuses, `ALLOWED_TRANSITIONS`, vendor allow list, pickup statuses | constant operators, one per table of the code |
| `OrderStateMachine` | the abstract specification: one step per permitted transition | `Move` is `validate_transition` followed by the write |
| `OrderLifecycle` | confirm, ready, cancel, QR, pickup | `BeginUpdate`/`CommitUpdate`, `CommitReady` (order, history and reward) then `CommitAnnounce` (notification), `BeginQr`/`ReuseQr`/`CommitQr`, `BeginPickup`/`CommitPickup` |
| `OrderTracking` | extends `OrderLifecycle` with one connection | `Connect`, `Authenticate` or `Refuse`, `Poll`, `Close`, `Leave` |
| `PaymentLedger` | the abstract ledger: money taken and returned at Razorpay, entries and the label of the row | what `ImplementsLedger` says `OrderPayments` implements: `money` is mapped to Razorpay's state (`Money`), `label` to `pay[p].status` |
| `OrderPayments` | extends `OrderLifecycle` with payments, ledger, webhook and Razorpay | the two share the order row: `CommitFinalize`, `CommitWebhook` and `CommitRefund` write statuses beside the vendor's handlers |
| `SlotReservation` | one slot: direct booking and checkout | `Load`, `Acquire` or `Busy`, `LockRow`, `CommitBooking` or `Flush`, `Unlock`, `CommitCheckout`; `Expire` is the key's TTL |
| `OrderPlacement` | `place_order` with an idempotency key | `BeginPlace`, `CommitOrder`, `MarkKey`, `CommitNotice`; `ExpireKey` |
| `SoloCart` | one student's cart | read and write of the whole document are two steps; `EmptyAfterOrder` follows the commit |
| `GroupCart` | one group from creation to its order | every check and every insert is a step of its own; `Bills` is the reconciliation of the splits |
| `GroupSlotLock` | the slot locks of several groups | `BeginLock` (with a duration that nothing checks), `FindLock`, `InsertLock`, `UpdateLock`, `ExpireLock` |
| `RewardPoints`, `Vouchers`, `StationeryJobs`, `RateLimit`, `AdminSettings`, `UserProfiles` | one service each over `Worker` | one action per stretch between two reads, commits or Redis calls |
| `SmsDelivery` | `send_sms` | `Skip` (disabled, or a test phone), `Dial`, `Redial`; `Attempts` is the ways one HTTP call ends |
| `OtpLogin` | extends `SmsDelivery` with send and verify | one action per Redis call; `Sending` hands over to the text; `older` says that the count's TTL was set before the password was stored, so that it ends first |
| `Notices` | extends `SmsDelivery` with notification rows | `SendNotice`, `CommitNotice` for any caller of `notify_user`; `MarkAsRead`; `BeginAnnounce`, `Announce` per user, `EndAnnounce` |
| `Complaints` | complaint rows | `Begin...` loads and checks, `CommitCase` flushes the columns that changed |
| `RewardPolicy` | off-peak policy, audit, default rules | `BeginPolicy`/`CommitPolicy`; `BeginRules`, `CommitRules`, `SeedPolicy` |
| `PastOrders` | feedback and reorder of COMPLETED orders | `BeginReview`/`CommitReview`, `BeginReorder`/`CommitReorder`; other orders, the menu and time move meanwhile |
| `SalesBook` | order rows, slots and a calendar as the analytics see them | `PlaceSale`, `MoveOn`, `MarkFraud` are the handlers that write these columns; the operators after them are the queries |
| `PickupAdvice` | load labels, slot score, congestion, ETA, delay risk, recommendation, alerts | one operator per function |
| `VendorInsights` | ranking, demand plan, capacity advice, vendor and admin boards | one operator per function |
| `UserInsights` | habits, suggestions, group coordination | one operator per function |
| `Session`, `Worker`, `Sums` | SQLAlchemy's flush; requests on workers; the sum of a column | see section 2 |
| `MCOrderLifecycle`, `MCOrderPayments`, `MCSlotReservation`, `MCCarts`, `MCServices` | instances for TLC | `MCCarts` and `MCServices` put modules without a common row into one run: `part` chooses one of them at the start and never changes |
| `OrderLifecycle_proofs`, `OrderTracking_proofs`, `OrderPayments_proofs`, `SlotReservation_proofs`, `ServiceLemmas`, `Accounts_proofs`, `Carts_proofs`, `Services_proofs` | theorems, and the lemmas that the last three share | section 6 |

A definition whose comment begins with `Mutant:` is no part of a model: it is a mistake one could make in the definition
below it. Each property of a passing run has one that breaks it, so none of them holds because it says nothing.

## 4. The runs

Sizes are distinct states. Two requests in progress are enough for every race stated here, since each hazard is between
a check and a write of one request and one write of another; the payments run has a third, since a refund there has three parties. One order or
one payment is enough where rows do not interact, and two are taken where codes or keys could be confused.

| Run | Instance | What it shows |
|---|---|---|
| `OrderLifecycle_concurrent` (214 000) | 2 orders (one a legacy row), 2 workers, 2 codes, 1 death | whatever interleaves: no order is handed over that had not been ready (`HandedOverOnlyWhenReady`), the timeline ends in the status or the order was picked up since (`TimelineAgrees`), and unless a request dies READY is announced (`ReadyIsAnnounced`) |
| `OrderLifecycle_serial` (51 000) | 2 orders, 1 worker, 1 death, 2 connections to one order | with one handler at a time the handlers implement `OrderStateMachine` and points are earned once; a viewer sees the order move ahead only (`ViewIsAheadOnly`) and is told its end and released (`ViewersHearTheEnd`), with deaths and polls in between |
| `OrderPayments_ledger` (310 000) | 1 payment, 3 payment workers, 1 key, 3 calls, 1 death, no vendor | verify, refund and webhooks race: every entry is backed by money that moved, SUCCESS is booked, refunds are covered and single (`BooksAreSound`), and every step is one of the abstract ledger or a stutter (`ImplementsLedger`) |
| `OrderPayments_order` (1 364 000) | 1 payment, 1 payment worker, 1 vendor worker, 2 calls | with the vendor at work on the same order, a refund whose answer was lost is recorded through the webhook (`RefundIsRecorded`) |
| `SlotReservation_race` (82 000) | capacity 3 (LIMITED from 2), 5 requests, 2 workers, 1 death | the counter stays within capacity and never counts too many (`CountIsSafe`), without overlap counter and label are exact (`CountIsRight`), and the Redis key never stays (`LockIsReleased`) |
| `Carts` (2 255 000) | 2 workers, 5 requests, 1 death; 2 users in a group, splits of -1, 0 and 3, 2 groups and 2 slots, locks for 0 and 30 minutes, 3 items of 2 vendors, 2 keys | a cart keeps one vendor and never makes up items; shares cover the bill; a group order orders what each member had; rows are unique, slots exclusive and locked as asked (`SlotLocksHold`), keys effective as long as requests do not overlap |
| `Services` (662 000) | 2 workers, 4 requests (7 on a login, as long as they do not overlap), 1 death; 2 accounts, readers, vendors or students, 2 texts, 3 slots of 2 vendors, order books of up to 8 rows | points, policy, vouchers, jobs, passwords, notices, rate limits, settings, user rows, complaints, past orders and analytics, each on its own: 12 parts |
| `OrderPayments_twice`, `OrderPayments_terminal`, `SlotReservation_capacity`, `OrderPlacement_retry`, `StationeryJobs_verify` | | counterexamples, section 7 |

Why the bounds suffice: five requests on a slot of three places pass through empty, LIMITED, FULL and a request that
is refused, with a lost update in front of each; three calls on a payment cover verify after verify, refund after
refund and a verify between two refunds; three lock rows are one more than two groups can come by without a race; two uses
of a voucher whose limit is one or two cover the last use and the one after it; a limit of two with four requests
covers admitted, refused and admitted again after the window, and a failure of Redis in each place. Seven requests are what it takes for a count of wrong tries
to end under a newer password and for more than three tries to follow: two sends, a try before and one across the end of the count, and three after. Two texts are an announcement to two users, or two
notices; a provider without credentials, a cut and a timeout each occur in both places. Four requests on one complaint are filing it, an
assignment and an escalation that overlap, and one more. The order book begins empty, with one legacy row (COMPLETED, or
READY_FOR_PICKUP with `actual_completion_minutes`, which no code writes any more), or with seven on three days (enough for a day that is
busier than the rest); three requests then fill the slot of one place and half the one of two, or make the
one of ten, seven of which had been booked without an order (`OldFills`), 80, 90 and 100 percent full; pauses of 10 and 25 days take a row
out of the windows of 7, 14 and 30 days in turn. `Services` gives the same two model values to all sets that never meet in one part, so that one symmetry
serves them all. Not reached are more than five vendors, at which a list of trends is cut, slots of hundreds of places, and a database that
refuses the literals (`TextEnums = FALSE`); `FiguresAreSound` and `AdviceIsSound` cover all three. `MaxAborts = 1` lets any one request die at any
of its steps. Symmetry is declared for interchangeable workers, rows and keys, and only in runs without
liveness properties.

## 5. Fairness

No client, vendor or viewer is obliged to do anything, and no request is obliged to arrive. What is assumed:

- `OrderLifecycle!FairSpec`, `OrderPayments!FairPaySpec`: weak fairness of the commit step of each request past its
  read; the thread pool keeps scheduling it. A request may still die.
- `OrderPayments!FairPaySpec`: weak fairness of each `Deliver(p, e)`; Razorpay repeats a webhook until it is answered 200,
  and stops then (`acked`).
- `SlotReservation!FairSpec`: weak fairness of each worker's steps, strong fairness of `LockRow` (PostgreSQL queues
  the waiters of a row, so a row that keeps becoming free is eventually given to each), and weak fairness of `Expire` (the TTL).
- `OrderTracking!TrackSpec`: weak fairness of `Poll` (the loop of `ws_router.py:220`) and of `Refuse` (the ten seconds an
  unauthenticated connection has).

## 6. The theorems

For any number of orders, workers, payments, keys, codes, users, rows and slots, any capacity and any bounds, from the ASSUMEs of the
modules: sentinels such as `NoCode` are not values, bounds are naturals, `LimitedAt` lies within the capacity, amounts and quantities
have the signs that the code checks, and where rows are counted or added up there are finitely many of them. A property that says
`~raced` or `died = 0` is about the executions in which no two requests overlapped, or none died; all else holds of every execution.

`OrderLifecycle_proofs`
- `TypeCorrect`, `HandOverIsEarned`. The invariant `HandedOverOnlyWhenReady` is not inductive: a pickup that has
  read but not committed must still be entitled to its order. `IInv` adds that requests hold rows
  (`RequestsHoldRows`), that an order in a pickup status had been ready (`PickupStatusIsEarned`) and that what a pending
  pickup checked cannot be taken away (`PendingPickupIsEarned`): other handlers may move the order, even cancel it, but
  neither its READY row nor its code ever disappears.
- `TimelineIsCurrent` from `IInv`: every write of a status appends its row in the same step, a pickup excepted.
- `SerialImplementsStateMachine`, `SerialRewardsOnce`, `SerialCodesResolve` assume `OneWorker` (two elements of
  `Requests` are equal). `SerialInv` adds that what a pending request checked is still true (`ChecksAreFresh`) and that a
  rewarded order is past CONFIRMED (`RewardIsBehind`); each commit is then a `Move` or a stutter.
- `SerialEndsAreFinal`, also under `OneWorker`: no handler moves an order out of a status in which it ended. With two workers TLC
  refutes this (`OrderPayments_terminal`).

`OrderTracking_proofs`
- `WatchingIsHarmless`: a step of `TrackSpec` is one of `Spec` or leaves its rows alone, so all of the above holds of watched orders.
- `ViewsGoAhead`, under `OneWorker`: what a viewer was last sent is the status of the order or behind it (`ViewInv`), because every
  move of the order goes ahead (`Ahead`, the transition table closed under composition) and a poll sends the status as it is.

`OrderPayments_proofs`
- `PayTypeCorrect`, `LedgerIsSound`, `KeysAreUnique`, `PaidHandOverIsEarned`, `PaymentsImplementLedger`. `PayInv` conjoins `IInv` of the lifecycle with: rows have orders, every
  request but initiate works on a row that is there, events are true once they exist, a request about to book
  money acts on money that moved (`RequestsAreBacked`), and at most one request holds Razorpay's answer to a refund of a payment
  that has no DEBIT yet (`RefundAnswersAreUnique`). The last one is why refunds are single although the check of SUCCESS is
  long past: it rests on Razorpay refusing to refund twice, not on the code. `PaidHandOverIsEarned` is the hand-over
  property for the composition, in which payments write statuses outside the table. `PaymentsImplementLedger` is the refinement: under
`PayInv` each action maps to a step of `PaymentLedger` on the payment it works on, or to a stutter; the events that exist and the entries
that are backed are what lets a commit that writes a label or an entry be a `Book`, a `BookBack` or a `Relabel` there.

`SlotReservation_proofs`
- `TypeCorrect`, `CounterIsSafe`. `IInv` adds that what a request loaded was true once (`SeenIsPast`; places are only ever
  taken). The Redis lock plays no part: it may expire at
  any time, and the theorems hold all the same.
- `SerialCountIsRight`, and with it `SerialCapacityIsEnforced`, which names the condition under which the property that
  `SlotReservation_capacity` refutes does hold: without overlap at most one request is in progress (`Alone`) and what it loaded is current
  (`SeenIsCurrent`), so what it writes is right, whatever fails or dies among them.

`ServiceLemmas`, `Accounts_proofs`, `Carts_proofs`, `Services_proofs` hold one theorem per service over `Worker`, all along one line. An
invariant of a service says (a) what tasks a worker can have (`Typed`), (b) that at most one request is in progress unless two overlapped
(`Alone`), and (c) what a request relies on between two of its steps. `ServiceLemmas` states once what `Begin`, `Continue`, `Finish`,
`AtOnce` and `Die` do to (a) and (b); each proof adds one lemma per action for (c). Under `~raced` (c) is that what was loaded is still
in the row. What holds of racing requests needs more, and is the interesting part:

| Theorem | What is proved | (c), the part that makes it inductive |
|---|---|---|
| `WindowsAreSound` | `WindowIsSound` | the admitted requests held different numbers up to the limit that no request holds any more, or were let through by a failure: `admitted <= Cardinality(Given \ Held) + lapses` (`LimitInv`) |
| `LoginsAreSound` | `LoginIsGuarded`, `SmsIsHonest` | passwords have numbers, senders different ones (`SendersDiffer`, `PasswordsAreNumbered`); sends and tries are at most what the counters say, or a request is about to count them (`SendsAreCounted`, `TriesAreCounted`); a counter has a TTL, or a request is about to set it or died before it could (`SendsLapse`, `AttemptsLapse`); what a count that ended had in it is at most one try per death and one more (`ForgottenAreFew`) |
| `NoticesAreSound` | `NoticesAreTexted`, `SmsIsHonest` | for each reader the texts sent are the rows shown and the rows still pending in transactions (`TextsAreTallied`) |
| `ProfilesAreSound` | `ProfileIsWhole` | a decision writes both columns alike (`DecisionsSetBoth`); what is merged, with or without the fields that have a default, is merged into what is stored (`RowIsLoaded`) |
| `GroupsAreSound`, `GroupsOrderTheCart` | `GroupIsWhole`, `GroupOrderIsCovered`, `OrdersTheCart` | rows differ (`RowsDiffer`) and what a request found is there (`Fits`) unless raced; the bills of the last order add up whatever changes meanwhile (`ReceiptCovers`), since quotient and remainder of the shares do |
| `SlotLocksAreSound` | `SlotLocksHold` | locks are exclusive (`LocksDiffer`), what a request found free is free (`ChecksHold`) and what it has loaded is there (`LoadedLocksExist`) unless raced |
| `CartsAreSound` | `CartAddsUp` | every snapshot of the document is a cart that was legal and made of items that were added (`SnapshotsAreCarts`) |
| `PlacementsAreSound` | `KeyPlacesOneOrder` | a key has one whole order if it is marked, or if the request that placed it is about to mark it (`KeysAreCounted`) |
| `PointsAreSound` | `PointsAddUp` | redemptions in progress are covered; there is a bound on what each account has, or will have after the awards in progress, and the bounds add up to no more than what was recorded (`EarnedIsBounded`) |
| `PoliciesAreSound` | `PolicyIsAudited` | each column of every policy row is in some entry of the log (`PolicyRowsAudited`), and unless raced the last entry is the policy in force (`LastAudited`) |
| `VouchersAreSound` | `VoucherBooksAgree` | a request has read no more uses than there are, and a bill that the discounts in the ledger account for (`SeenIsCovered`); without overlap it has read what is there (`SeenIsCurrent`) |
| `JobsAreSound` | `RzpOrdersAreTraced` | requests that owe a row owe different ones (`OwersDiffer`) |
| `SettingsAreSound` | `LatestIsInForce` | which of Redis and the process variable holds the latest value, by outage, restart and request in progress (`RedisIsLatest`, `FallbackIsLatest`) |
| `ComplaintsAreSound`, `PastOrdersAreSound` | `ComplaintsAreHandled`, `PastOrdersAreHandled` | what was loaded, or was checked, is still so (`CaseIsLoaded`, `ChecksHold`) |
| `CartsTypeCorrect`, `ServicesTypeCorrect`, `SalesAreTyped` | `CartsTypeOK`, `ServicesTypeOK` | whichever part is explored keeps its own invariant, and the rows of the other parts are untouched (`CartsInv`, `ServicesInv`) |
| `AdviceIsSound`, `FiguresAreSound` | `AdviceHolds`, `FiguresHold` | the types of the order book; the rest is counting and arithmetic, below |

*Sums.* `SumOf` is `MapThenSumSet`, which chooses a function on the subsets of a set. `ServiceLemmas` unfolds it to that function
(`SumOfIsChosen`), shows that one exists (`SumsExist`) and that any two agree (`SumsAgree`), and proves induction over subsets by the
well-foundedness of the strict subset relation (`SubsetInduction`), with a set in place of a predicate. What the services need follows: the
type of a sum, and how it changes with one row.

*Advice.* `AdviceIsSound` holds for every capacity, order book and day. Thresholds in percent and in fractions agree by linear arithmetic. That a fuller slot
scores no better is an order of quotients (`Below`), for which the score is written as a sum of terms that is never clamped
(`ScoreIs`, `ScoreRange`). That the slot which the loop keeps heads the sorted list needs that such a list exists and names every slot (the section
"lists in an order" of `ServiceLemmas`), and that the maximum over slots is its head. The attempt showed that an earlier form of `BestSlotLeads`, by which a
full slot is only ever recommended if all others are full, was false from 584 places on: a rush hour weighs more than a single free place does. It
now says how little room the others can have, `3500 * (Capacity[s] - filled[s]) <= 6 * Capacity[s]`.

*Figures.* `FiguresAreSound` is about every order book, with finitely many students (`SalesAssumption`), and rests on three things.
(1) A GROUP BY partitions the rows: its counts are positive and add up to the rows that were grouped (`CountsAddUp`, `TallyCounts`), so every
board, breakdown, forecast and preference that groups the same rows has the same total. (2) Some key leads, and any leading key is in one of the answers of
ORDER BY ... LIMIT (`LeaderExists`, `LeadingSetsExist`), so the first maximum that one file takes is in the list of another. (3) Averages and
weighed sums stay in their range: `Upto(m)` are the quotients between 0 and m, a sum of one up to m and one up to n is one up to m + n
(`PlusAddsBounds`), and the fold over the slots of a vendor is unfolded like `SumOf` (`AddsExist`, `AddsBounded`); hence a rank of 0 to 100.
The ranking and the hours of a group are lists in a total order, as the recommendations are.
The attempt refuted two earlier forms of the properties, which the instances of TLC are too small to do: the admin's top vendors are all that have
an order only while there are at most ten vendors (`LIMIT 10`), and a group with an hour in common is told a coordination score of 0 once two
members are no more than half a percent of it, from 400 members on (`round` in `ai_intelligence/service.py`, which rounds ties to even). Both are conditions of the
properties now.

Only model-checked: the liveness properties (`ReadyIsAnnounced`, `ViewersHearTheEnd`, `RefundIsRecorded`, `LockIsReleased`), since the
prover does not reason about fairness or `ENABLED`. Every other property of a passing run is the statement of a theorem. `LedgerIsSound` is checked
by TLC on one payment and proved for all.

## 7. What the code does otherwise than it says

Checked, each a run with a counterexample and a finding:
- `OrderPayments_twice`: verify and the captured webhook finalize one payment and book it twice.
- `OrderPayments_terminal`: finalize_payment, or a handler that validated earlier, moves an order out of CANCELLED.
- `SlotReservation_capacity`: the count is computed from the row loaded before the lock, so more places are taken than there are.
- `OrderPlacement_retry`: a retry that overlaps its first request places a second order.
- `StationeryJobs_verify`: the ledger entry of a verified stationery payment has no order, the commit fails, and the payment never
  becomes SUCCESS.

Stated in the modules and also refuted by TLC, but left out of the configured runs. To see one, put the property into the named
configuration in place of the properties there:
- `OrderLifecycle_concurrent.cfg`: `HandedCodesResolve`, "Return existing QR if already generated" (`qr_service.py:23`). Of two requests that both
  found no code the second overwrites the one that the first handed out. With one worker the property is proved (`SerialCodesResolve`).
- `OrderLifecycle_serial.cfg`: `LostViewersAreDropped`, "server cleans up silently" (`ws_router.py:168`). A viewer who leaves is noticed at no
  send (`manager.send` swallows the exception), and the server polls on until the order ends.
- `OrderPayments_twice.cfg` with a key, two payments and two payment workers: `OneRazorpayOrderPerKey`, "without hitting Razorpay again"
  (`payments/model.py:33-35`). Two initiations that both found no row both call Razorpay; only the row stays single.
- `SlotReservation_capacity.cfg`: `CheckoutIsAtomic`, "a single atomic transaction" (`checkout_service.py:78-80`). `transactional` commits what is
  flushed before an `HTTPException` leaves, so a refused checkout keeps its order row.
- `Carts.cfg`: `SlotHasOneHolder`, "Slot is locked by another group" (`group_cart/service.py:241`). Two requests that both found the slot free lock
  it for two groups. `NobodyIsBilledLess`, "Custom split requires a non-negative amount" (`service.py:481`). The sign is checked
  for CUSTOM splits only (480), while the bill, when the first row it finds is CUSTOM, takes the amounts of all rows (441-447).
- `Services.cfg`, for all that follow. `OtpLogin!TriesWithinMax`, "max wrong tries" (`otp_service.py:15`). The count belongs to the phone and the
  password to its own five minutes. A count that was begun under an earlier password and ends between INCR and EXPIRE of a try (114-115), or whose
  EXPIRE never came because the request died, takes the tries in it along, and the password has a full number left; no two requests need overlap for that. Tries
  that do overlap each read the count before either is counted (108).
- `RewardPoints!NothingIsSpentTwice`, "Check if user has enough points" (`rewards/service.py:68`); two redemptions pass on one balance.
- `Vouchers!LimitIsKept`, "Voucher at limit raises ValueError" (`test_coverage_boost3.py:556`); two redemptions take the last use.
- `UserProfiles!UnsentFieldsAreKept`, "partial updates are safe to call without overwriting unrelated preference fields" (`users/router.py:87-89`).
  `enable_reorder_suggestions` and `enable_offpeak_reminders` default to True, not to None (`users/schemas.py:57-64`), so every update that
  leaves them out switches them on again. One request is enough.
- `PastOrders!ReviewedOnce`, "Feedback already submitted for this order" (`feedback/router.py:42`); two submissions both find none.
- `PastOrders!ReordersAreCounted`: a reorder takes no place in its slot, so more is ordered than the slot holds.
- `PastOrders!EtaIsKept`: "add preparation time based on order complexity" (`reorder_service.py:27`); the ETA is computed before the
  items are flushed, the session has no autoflush and no column keeps it, so what is told later is later.
- `Notices!AnnouncementsAreKept`: "creates notification for all active users" (`FEATURE_ANALYSIS_REPORT.md:269`); `send_global_announcement`
  flushes the rows and never commits, so they are gone when it answers.
- `PickupAdvice!RecommendedSlotsHaveRoom`: "Get all available slots" (`ai_intelligence/service.py:45`); the status is compared with `"full"` (50).
- `PickupAdvice!DelaysAreAnnounced`: "Check user's upcoming orders" (`service.py:406`); the query asks for `"confirmed"` and `"preparing"` (413),
  finds none, and alerts nobody.
- `UserInsights!CompletedOrdersAreSeen`: "Generate smart reorder suggestions for a user" (`reorder_engine.py:19`); it looks for `"completed"` (26).
- `PickupAdvice!FasterScoresHigher`: "faster than ETA = higher score" (`scoring.py:106`); eta minus actual is positive when the order was
  faster, and a negative difference scores 90.
- `VendorInsights!PreparingPays` (a PROPERTY): CONFIRMED counts as a success and READY and PICKED do not (`vendor_ranker.py:133`), so a vendor who gets
  an order ready sinks in the ranking.

Stated, refuted, and contradicting no document: `OrderPayments!CapturedIsCredited` (`OrderPayments_order.cfg`, one payment worker). The webhook looks
the row up by `razorpay_payment_id`, which only verify writes, and answers 200 to what it does not find, so money that was
captured may be booked nowhere. `test_webhook_simulation.py:8` says "payment.captured -> payment SUCCESS", but line 13 that unknown payments are ignored.

Read, and not a matter for a run:
- No handler ever writes COMPLETED, though `state_machine.py:15` calls it equivalent to PICKED. Feedback and reorder accept
  COMPLETED orders only, so neither can be used except on legacy rows, which `PastOrders` starts from.
- Literals in small letters, where the columns are text: reorder suggestions and delay alerts are always empty, every vendor trend is stable, the
  speed factor is always 0.8 once there are orders, and cancelled orders count as spending. PostgreSQL refuses these queries altogether.
- `scoring.py` weighs a completion rate that is a fraction as if it were a percentage: no slot scores 60, so "Good option" and "Excellent choice" are never
  said (`BestSlotLeads`). `thirty_days_ago` in `service.py:132` is the last midnight. `abs(current_hour - preferred_hour)` does not
  wrap at midnight (`preference_engine.py:251`). No slot has a `congestion_level` column: the object's attribute is set in the request only.
- `send_sms` says that its fallback is for transient errors (`sms.py:131-134`); it tries it after a rejected request as well.
  An httpx error other than a timeout or a refused connection has no class there and skips the fallback.
- `assign_complaint` reopens a resolved complaint, which `escalate_complaint` refuses to do.
- `slots/router.py` books a place with no order, and cancelling an order gives its place to nobody.
- Payments change an order's status without an `order_history` row, as does the QR pickup.
- `group_cart/group_service.py` says that the owner invites and locks; any member may. A group places its order on an expired lock
  (`model.py:98`), with quantities nobody checks, and its zero-amount payments have no ledger entry.
- `rate_limit.py:15-16` calls a second EXPIRE a no-op; Redis sets the TTL anew. It makes no difference to the properties here.
- `mark_order_ready` rewards the student before the order is picked up, and `stationery/router.py` loses its READY
  notification: it is flushed after the commit.

## 8. What is not modelled

- Menu and vendor lists: one statement on one row, nothing between two steps.
- Token encoding, configuration, startup checks, metrics, file uploads: no state that two steps share.
- The app is the environment; migrations and scripts run by hand.
- Of the AI planners: suggestions by item (`_analyze_frequent_items`, `_generate_item_recommendations`), amounts spent, the dated signals of
  `service.py:206-346`, print settings, the wording of reasons.
- Of the dashboards: revenue, sign-ups, payment counts, confirmation latency, recent orders.
- Inside the modelled parts: ownership checks, amounts of payments, messages, ratings, complaint texts, which reward rule is active,
  the response that the cart's payment checkout keeps in Redis, names and university ids of users, listings.

## 9. The plan

Written, in this order: transitions and abstract machine, lifecycle, payments, slots, carts and placement,
services, tracking; then the abstract ledger and its refinement, messages, notices, complaints, policy, past orders, and the analytics.
Next, by importance:

1. `Checkout`: `OrderPlacement`, `SoloCart`, `SlotReservation` and the order row in one composition, so that placed orders,
   taken places and emptied carts can be related; the same for `GroupCart` with `SlotReservation`.
2. Policies: what `AdminSettings` and `RewardPolicy` hold against what handlers enforce while it changes.
3. The item-based suggestions of `preference_engine.py` and `reorder_engine.py`.

Theorems next: how far concurrent requests can overbook a slot or credit a payment twice, as bounds in terms of the requests that overlapped;
the invariants of the compositions above. Liveness stays with TLC.
