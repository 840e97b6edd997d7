# Verification of the sobkichu API

TLA+ models, TLC configurations and TLAPS proofs kept beside the sobkichu
marketplace (NestJS API under `api/src`, PostgreSQL schema under
`docs/data-model`, Python tools under `tools`). `PROJECT.json` maps every
definition to the source lines it models.

## 1. Inventory

| Component | State | Operations | Interacts through |
|---|---|---|---|
| Payment settlement (`api/src/payment`) | `transaction` row of an order | `applySettlement`: idempotency check, pending lookup, amount check, mark, order transition, notification, clock | one SQL transaction shared with `OrderPort` and `NotificationPort` |
| Order (`api/src/order`) | `app_order`, `order_item`, `order_status_event` | `createOrder`, `transitionStatus`, `startDeliveryClock` | reads catalog, merchant and location ports; writes the outbox |
| Delivery clock (`common/compliance`) | none (pure) | window, deadline, overdue, countdown | used by settlement |
| Money, advance cap (`common/money.ts`, `order/domain`) | none (pure) | conversions, percentage, cap | used by checkout and settlement |
| Notification outbox and dispatcher (`api/src/notification`) | `notification_outbox` | `enqueue`, `claimPending`, `deliver`, `markSent`, `markFailed` | filled by other modules' transactions; drained by a scheduler outside the repository |
| Identity (`api/src/identity`) | `app_user`, `role`, `kyc_document`, challenges in Redis | `requestOtp`, `verifyOtp`, `switchRole`, `createMerchant`, `submit` | rate limiter, outbox |
| Rate limiter, sessions (`common`) | Redis counters; none (signed tokens) | `hit`; `issue`, `verify` | used by identity and the guard |
| Catalog, location | `listing`, `category`; `location` | `createListing`, `searchNearby`, `resolveCartLines`; `createLocation`, `findById` | ports used by checkout |
| Repository knowledge tools (`tools/repo_knowledge`) | `.repo`: project state, its rendering, events, people's phases; a lock in the Git directory | `init`, `collect`, `sync`, CI sync, `verify` | Git, CI, people editing the same directory |

What is hard in it: webhooks that are repeated, concurrent and out of order,
each running seven or so SQL statements at READ COMMITTED with row locks taken
only by UPDATEs; rollbacks between any two statements; dispatcher instances
whose claims outlive their locks; reads of the catalog that are stale when the
order is written; money at the rounding and column boundaries; Redis
read-modify-write in the OTP store, next to a database transaction that may not
happen; tokens that outlive the decisions about their role; generated files that
several processes derive, stage and exchange while people commit and edit. `PROJECT.json` lists the hazards line by
line, with the properties that cover them or the reason none does yet.

What makes the core correct: order and payment status never desync; the
regulated delivery clock runs exactly for paid advances and never moves; a
reference is recorded once; the timeline kept as evidence is a chain; the
outbox promises only what was committed; an advance is lawful and provably so
from the order's own rows; notifications are attempted a bounded number of
times and each is eventually resolved; a login code is single use, capped, dead
once a newer one is saved, and not taken away by anything else; nobody is locked
out for good; only a verified merchant
publishes, and a session acts for its own user only; the knowledge directory is
one consistent value whose history only grows.

## 2. Modules

| Module | Models |
|---|---|
| `DeliveryClock` | `delivery-clock.ts`, as operators |
| `Money` | `money.ts` and `advance-cap.ts`, as operators |
| `PaymentLedger` | the abstract specification: committed rows, changed only by placing an order or applying a notice, each in one step |
| `Settlement` | extends `PaymentLedger`: concurrent `applySettlement` calls, one action per awaited repository call |
| `Checkout` | extends `Money`, `DeliveryClock`: concurrent `createOrder` calls against a changing catalog |
| `Dispatcher` | `dispatchBatch` run by several instances |
| `RateLimiter` | the fixed-window counter of `redis-rate-limiter.ts`, as operators |
| `OtpLogin` | extends `RateLimiter`: concurrent `requestOtp` and `verifyOtp` |
| `Merchants` | sessions, role switching, addresses, onboarding, KYC, listings, radius search |
| `ProjectState` | `core.py` and `ci_evidence.py`, as operators |
| `KnowledgeStore` | the abstract specification of `.repo`: a value replaced as a whole |
| `RepoKnowledge` | extends `ProjectState`: concurrent commands of `cli.py` |
| `MCSettlement`, `MCCheckout`, `MCDispatcher`, `MCOtpLogin`, `MCMerchants`, `MCRepoKnowledge` | small instances for TLC |
| `LedgerProofs`, `SettlementProofs`, `MoneyProofs`, `CheckoutProofs`, `DispatcherProofs`, `OtpProofs`, `MerchantsProofs`, `KnowledgeProofs` | theorems and their proofs |

Three pairs are related by refinement, each model-checked and proved. `Settlement`
implements `PaymentLedger`. `Checkout` implements the placing half of the same
`PaymentLedger`, through an INSTANCE whose rows are read off the orders placed so
far: what the proofs say of settlement is about the orders checkout writes, and
the amount checkout asks for is the amount settlement compares with.
`RepoKnowledge` implements `KnowledgeStore`.

### PaymentLedger and Settlement

`txn`, `ord`, `timeline`, `outbox` are the COMMITTED rows of `transaction`,
`app_order`, `order_status_event` and `notification_outbox`. Status `"none"` is
a row that is not there. A pair (aggregator, aggregator_ref) is one element of
`Refs`. The push and the SMS row of an event are written together and are one
dedupe key.

In `Settlement` a worker is one webhook request in any API process.
`pc` is its position in `applySettlement`, `job` its notice and `draft` what it
has written but not committed.

| Action | Code |
|---|---|
| `Place` | the transaction that ends `createOrder` |
| `Receive` | `PaymentController.handle` after the signature check, and BEGIN |
| `FindByAggregatorRef` | the duplicate check and its early return |
| `FindPendingForOrder` | the pending lookup and the amount check, with their early returns |
| `Mark`, `EnterRef` | the UPDATE of `markSettled` or `markFailed`: the row lock, then the entry in the unique index |
| `TransitionStatus` | `OrderAdapter.transitionStatus` (SELECT, INSERT, UPDATE) |
| `NotifyCustomer` | `notifyCustomer` and the `is_advance` early return |
| `StartDeliveryClock` | `findForSettlement`, the `advancePaidAt` guard, `startDeliveryClock` |
| `Commit`, `Fault` | the two ends of `PgUnitOfWork.withTransaction` |

PostgreSQL is modelled from how the code uses it. A SELECT sees the committed
rows and the worker's own writes. An UPDATE waits until no other transaction has an
uncommitted write of the row (`RowFree`) and locks it; it then applies, by id, to
the row the other writer left. With the row locked it waits for every transaction
whose end decides whether its reference is taken (`WaitsFor`): one that writes the
same reference to another row, or one that is changing the row which carries it.
So a worker may hold its row while it waits for another worker, and others may wait
for that row. With three requests or more, and two references each reported for
both of two orders, the waits can close into a circle; PostgreSQL's deadlock
detector then aborts one request, which is an outcome of `Fault`.
`CirclesOnlyReapply`, proved in `SettlementProofs`, says what such an abort can
cost: nothing but a re-application. Several statements
after `EnterRef` are grouped per repository call, because only the holder of the
transaction row's lock writes the rows they touch; this is exactly what
`DraftOK` in the proof establishes.

Two branches of the code are unreachable and not modelled: `findCustomer`
and `findForSettlement` returning null, which the foreign key from
`transaction` to `app_order` excludes.

### Checkout

A request resolves its cart, reads the merchant, reads the locations and prices
the order, and inserts it: four steps, between which listings and merchant rows
may change. No endpoint of the repository edits a listing and KYC decisions are
taken outside it, so the two edit actions are external; they stand for what
administrators and later phases do to the same tables. Locations are never
updated, so reading them is part of pricing. A row that is not found, a query that
throws and a rollback are `Fail`. The controller passes a delivery fee of zero.
`TermsOf`, `LedgerTxn`, `LedgerOrd`, `LedgerTimeline` and `LedgerOutbox` are the
refinement mapping to `PaymentLedger`.

### Dispatcher

Rows are numbered in `created_at` order. The attempts column as returned by the
claim is kept per instance in `seen`: the code decides from it whether to log.
The scheduler that calls `dispatchBatch` is not in the repository; it is modelled
by letting an idle instance start a batch at any time. A message whose template
or number is permanently bad is in `Unreachable`.

### OtpLogin and RateLimiter

A worker is one HTTP request; each awaited call to Redis or PostgreSQL is a step.
`store` is the key `otp:<phone>`, `hits` the limiter's keys, `bucket` the phones
whose dedupe key of the current minute is taken. Time is relative: every lifetime
is kept as the ticks that are left and `Tick` shortens them all, so runs need no
bound on time. The code's own `expiresAt` (`left`) is kept apart from the TTL of
the Redis key, because `recordAttempt` may put an old challenge under a newer
TTL. Codes are numbered in order of issue; two issued codes are taken to differ.
`compared`, `logins`, `raced`, `latest` and `crossed` are history variables the
properties need: `raced` are the codes two verifications held at once, `crossed` the
phones for which a code was saved while a verification held a loaded challenge. A
counter beyond its limit and attempts beyond the cap are not told apart.

| Action | Code |
|---|---|
| `RequestOtp`, `Save`, `QueueSms` | `requestOtp`: limiter and `issueOtp`; `OtpStore.save`; the transaction |
| `VerifyOtp`, `Load` | `verifyOtp`: limiter; `OtpStore.load` and the domain check |
| `ReadTtl`, `WriteBack` | `OtpStore.recordAttempt` |
| `Consume`, `Mint` | `OtpStore.consume`; `findByPhone` and the token |
| `Fault` | a call that throws, or a process that dies |

### Merchants

A role row is named by its user (UNIQUE `(user_id, type)`). `tokens` are the
session tokens that were issued and have not expired; there is no revocation in
the code. `Submit`/`SubmitKyc` and `CreateListing`/`FindMerchant`/`FindCategory`/
`InsertListing` are the separate queries of one request; `Decide` and `Suspend`
stand for administrators, for whom there is no endpoint yet. Points lie on a
line: the search depends on distances only. Distances that tie come in any order
in SQL; the model takes the older row, and `SearchFindsNearest` does not ask.

### RepoKnowledge, ProjectState and KnowledgeStore

A commit is its number on the branch. Of its tree the model keeps the source and
the generated files apart, and of its message whether it begins with
`chore(repo-knowledge):`: a commit of generated files under another subject, and a
change that is later reverted, are commits of the model. As in the code, `git diff`
compares two trees (`SameSource`) and not the commits between them, and a diff that
fails reads as one without changes (`diffed`): it lets a stale CI result through,
which `blind` records. `dir` is the directory a reader opens; a command holds the
lock from `Acquire` to its end, derives (`DeriveInit`, `Collect`), validates and
stages a copy (`Transaction`) and exchanges the directories (`Publish`). The code
leaves the exchange out when the copy equals what is there; exchanging equal
directories changes nothing, so the comparison is part of `Publish`. The Git
reads of one derivation are one step; commits may land between any two steps
otherwise. `Stop` is a failing system call or a killed process: the kernel drops
the lock and the staged copy is never looked at. The many descriptive fields of a
CI run go with its run identifier, and one timestamp stands for those of the
build and of its test step. The schema validator rejects malformed times
(`BadTime`) and nothing else the model tells apart.

## 3. Runs

| Run | Instance | Shows |
|---|---|---|
| `settlement_race` | 1 order, 3 workers, 2 references, both outcomes, 2 amounts, 2 instants, 1 fault | all safety properties of the committed rows, and refinement of `LedgerSpec` |
| `settlement_live` | 2 orders, 2 workers, a shared reference, 1 fault, fair | requests end although they hold one lock while waiting for another, payments are recorded, the shared reference stays on one order, re-application is bounded |
| `settlement_replay` (violation) | 1 order, 2 workers, 1 notice | concurrent duplicates are applied twice |
| `dispatcher_pair` | 2 instances, 3 rows (one push, one undeliverable), 3 attempts, batches of 2, 1 fault | bounded attempts, sent means delivered; repeats and silent abandonment need a fault or a row two instances held |
| `dispatcher_live` | 2 instances, batches of 1, fair | every row is resolved |
| `dispatcher_claims` (violation) | 2 instances, 1 row, no fault | a message is sent twice |
| `checkout_plain` | 1 request, escrow provider or not, 7 listing contents, 3 merchant contents, 8 commands, 1 edit, column limit 0.99 BDT | cap evidence, lawful advance, amount due, column range, refinement of `PaymentLedger` |
| `otp_safe` | 1 phone typed in several shapes, 2 requests at once, 2 codes, 1 fault, windows of 2 ticks, codes of 1 | cap, single use, a new code kills the old one, nothing else does, bounded lockout |
| `otp_cap` (violation) | 2 requests at once, no fault | the cap is exceeded |
| `merchants` | 2 users, 1 request at a time, 4 addresses, 4 offers, 2 listings, 2 decisions, 1 result | K1 at publication, own role only, KYC bookkeeping, nearest first |
| `knowledge` | 2 processes, 7 command lines, 4 CI runs, 3 commits (a change, its revert, a publication, generated files under another subject), 3 commands | refinement of `KnowledgeStore`, no source hidden, phases kept |
| `knowledge_verify` (violation) | a writer and a reader | a torn read |

Why the bounds are enough to be interesting. Three workers allow one to commit,
one to be waiting and one to be reading stale rows; two references and both
outcomes let a settled row be overwritten by a failure and the reverse; `MsPerDay`
is 2 so that deadlines of different windows and instants differ. `Times` has two
instants so that a restarted clock would show. Three attempts with two instances
allow a stale count below the limit. A column limit of 0 taka makes two lines of
60 poisha overflow it; two lines of 7 poisha make ten percent 1.4, between the
advances of 1 and 2 that are asked for. `MaxFaults`
and `MaxEdits` only bound how often something goes wrong. One checkout request is
enough for `checkout_plain`: requests write rows of their own and interact only
through the listings and merchant rows, whose changes are the edit actions. Two
OTP requests suffice for every overlap of a verification with a request or with
another verification; with windows of two ticks and codes of one a window ends
within a code's life, and 2 hits per window exceed the cap of 3 over two windows; 2
requests per window let a code be replaced without an outage.
In `merchants` one request is enough because requests meet only through the role
rows, which `Decide` and `Suspend` change between its steps; 2 listings and 1
result make the search drop a match. In `knowledge` two processes and three
commands allow one to publish while the other waits, reads or dies, and 3 commits
allow a CI result to be late, to be overtaken by a publication, and to come after a
change and its revert; 5, 6 and 7 are CI's and the observer's times, later
than any commit.

Deadlock is checked for `Settlement` (an idle worker can always receive). The
dispatcher may stop when the outbox is drained, checkout when all requests are
answered and the knowledge tools when all commands are, so their configurations
switch the check off.

### Fairness

`Settlement`: strong fairness of each worker's steps (a Node request keeps
running; PostgreSQL queues lock waiters, so a waiter whose row is free again and
again gets it, be it a row or an index entry) and of the arrival of each notice (aggregators retry until they are
answered with 200). `Dispatcher`: weak fairness of each instance's steps (the
scheduler calls it again and a batch runs on); nothing is assumed about the gateway.
Faults, gateway timeouts, orders and enqueueing are not fair.

### Findings

1. *Concurrent replays settle twice* (`ReplayIsNoOp`). The UNIQUE constraint
   cannot reject the loser: it updates the same row to the same reference. The
   status, clock and outbox are unharmed (the other properties hold), but the
   evidence timeline gets a second `confirmed` event. `ReappliedOnlyInFlight` and
   `LateDeliveryWritesNothing` say how far it can go.
2. *Claims are not exclusive* (`RepeatsOnlyAfterFaults` with two instances). The
   same cause lets a required SMS be abandoned without the log line and leaves
   rows `abandoned` that were delivered; `RepeatsOnlyFaultsOrShared` and
   `AbandonedIsLogged` show that nothing else does.
3. *The attempt cap of a login code can be exceeded* (`AttemptsCapped`) by
   verifications that overlap; `GuessesPerCode` gives the bound that remains.
4. *verify may report a finding in a consistent directory* (`VerifyNeverTorn`).

Notes without a run, met while modelling:

* `POST /orders` has no idempotency key, although the mobile architecture wants one
  for queued mutations; the order-creation limit that `rate-limiter.ts` declares is
  used nowhere.
* A second request for a code within a minute replaces the challenge, but its SMS is
  dropped as a duplicate: the code the user was sent no longer works. The comment
  there wants the SMS of a double tap dropped and is silent about the challenge. A
  crash between saving the challenge and queueing its SMS has the same effect.
* A guess that overlaps a new request writes the old challenge back over the new one:
  the old code works again and the new one does not, against the comment of
  `OtpStore.save` ("requesting a new code must invalidate the old one"). `OldCodeDeadUnlessCrossed` and
  `CodeStandsUnlessCrossed` say that only such an overlap does it.
* A change and its revert leave an empty diff, so a CI result from before both is
  accepted and the recorded head moves back over two source commits. The source it
  names is that of the tip (`NoSourceHidden`). A `git diff` that fails also reads as
  empty: then a stale result is published (`blind`), the one exception to the property.
* A KYC submission that overlaps an administrator's approval puts the verified role
  back to pending (`DemotedOnlyByOverlap` shows there is no other way).
* An edit of `phases.yaml` saved between copy and exchange is lost
  (`PhasesKeptUnlessOverlapped`).
* Note 1 of `phase-1-schema.sql` gives the cap as `round(total_bdt * 0.10, 2)`, which
  rounds half up; `percentageOf` rounds down, and `StandardCapIsTight` shows that only
  that is lawful.

## 4. Proofs

Every invariant, action property and refinement that a passing run checks is also
a theorem. So is, for each of the four documented claims that a violation run
refutes, the condition under which the claim is true.

Assumptions. Each module names what it assumes of its constants, and TLC evaluates
the assumptions in every run: `MsPerDayAssumption`, `MoneyAssumption`,
`RateLimiterAssumption`, `MerchantsAssumption` and `ProjectStateAssumption` are about
types (an address has integer coordinates or none), as is `DispatcherAssumption` but
for finitely many instances; `LedgerAssumption` adds that NULL is not a
reference, `CheckoutAssumption` that a price in the catalog is one the column can
hold and a command passed validation, `SettlementAssumption` that requests in
flight are finitely many, `OtpAssumption` the same and that a code does not outlive
a limiter window (300 s against 900 s in the code), `RepoKnowledgeAssumption` that
a status on the command line is one of argparse's choices. `ImplementsLedger` has
the hypothesis `Amounts = Nat`: the constant only bounds which amounts TLC
enumerates. The theorems on refuted claims have hypotheses by design:
`OneInstanceNeverRepeats` takes a single dispatcher, the others an `[]P` that says
which requests do not overlap (`SerialPerOrder`, `VerificationsSerial`,
`ReadersExclude`) or, in `SerialAttemptsCapped`, that nothing fails (`NoFaults`). For
all other theorems nothing is assumed about how many orders, requests, references,
rows, users, codes, commands, commits or faults there are.

* `LedgerProofs`. `LedgerSafety`: `LedgerInv` (types, `OrderPaymentInSync`,
  `ClockRunsForAdvances`, `RefRecordedOnce`, `TimelineIsChain`) is inductive for the
  atomic ledger; `LedgerOutboxCorrect` adds `OutboxMatchesTimeline`.
  `CountdownShowsBreach`: `daysRemaining < 0` iff `isOverdue`.
* `SettlementProofs`. `SettlementSafety`: `SettlementInv` is inductive for the
  statement-level model. The ledger's invariants alone are not: COMMIT installs a
  draft written several steps earlier. What is needed is `DraftOK` (what the holder
  of the row lock has drafted is what `ApplyNotice` would make of the committed rows
  NOW), which rests on `Exclusive` (writers hold different rows and references),
  `FoundOK` (a row once found stays, with its amount) and `LateOK`.
  `SettlementImplementsLedger`: by `CommitApplies` every COMMIT is an `ApplyNotice`
  step and every other statement stutters, so settlements are serialisable in
  commit order although they run at READ COMMITTED. `OrderAndPaymentInSync`,
  `ClockCorrect`, `ClockKept`, `RefsUnique`, `TimelineCorrect`, `OutboxCorrect`,
  `LateDeliveriesInert` and `TypeCorrect` follow. `ReapplicationBounded` needs a
  count, `EventsBounded`: once a payment was answered, the order's events after the
  first, with the requests that can still write one, never exceed the requests there
  are (a request that starts now finds nothing pending and cannot).
  `CirclesLoseNothing`: a request waits only for one that writes its reference or
  whose row carries it; in a circle not all can be of the first kind, because a
  writer waits for nothing, so each is waited for as the holder of an answered row.
  `PaymentsFinalUnlessOverlapped` and `ReplaysInertUnlessOverlapped`: under
  `SerialPerOrder` (no two requests of one order are in flight at once) a request
  that found a row pending still finds it so when it writes, so an answered payment
  and its timeline are final and a replay is the no-op of finding 1.
* `MoneyProofs`. `StandardCapIsTight` and `TakaRoundTrip`: the cap is the largest
  whole number of poisha within ten percent, and the conversion to column text is
  lossless in range. `SumAddsUp`: what `Sum` adds up to is characterised by its
  partial sums; instead of an induction over the sequence, the proof takes the
  least position at which two characterisations would differ.
* `CheckoutProofs`. `CheckoutInv` says what each request read, checked and wrote:
  the order it has placed is a function of its own priced lines and command, for
  which `Acceptable` held when it was decided. The listings and merchants that
  change meanwhile do not occur in it, which is why `CapHasEvidence`,
  `AdvancesLawful` and `PaymentIsDue` survive them. `ImplementsLedger`: every step
  is a `PlaceOrder` of `PaymentLedger` or a stutter, under the rows read off the
  orders. `TypeCorrect` includes that every amount fits its column.
* `DispatcherProofs`. `DispatcherInv`: `AttemptsOK` counts holders, because a row
  that has used up its attempts is claimed by nobody, so each further attempt uses
  up an instance that held it before (`AttemptsAreBounded`); `DeliveryOK` links
  `mark_sent` to a delivery (`SentMeansDelivered`); `SoleOK` says of a row never
  held twice that the count read at the claim is still the row's and every
  unrecorded delivery was lost to a fault (`RepeatsExplained`,
  `AbandonmentLogged`). `OneInstanceNeverRepeats`: one instance never shares a row,
  so the claim of finding 2 holds of a deployment with one dispatcher.
* `OtpProofs`. `OtpInv` follows a code from issue to use: where it can be (the
  store, a request), that it belongs to one phone, and, unless verifications
  overlapped, that at most one request holds it and the comparisons made so far are
  the ones counted in the challenge (`AttemptsAreCapped`, `CodesAreSingleUse`,
  `LockoutsEnd`). `CurrentInv` adds, for a phone that is not `crossed`, that the
  store and every verification between its load and its write-back hold the last
  code saved, under a TTL that is not shorter than its life: a write-back can then
  restore nothing but what is there (`OldCodesStayDead`), and a deletion hits the code that was accepted
  (`CodesStand`). `GuessesAreBounded` has
  an invariant of its own, `GuessInv`, for the codes whose verifications did
  overlap: comparisons, with the requests about to make one, stay within what the
  limiter has let through since the code was issued. A window that ends within the
  code's lifetime is the first it meets, any other may be the second, and there is
  no third because a code does not outlive a window. `SerialVerificationsAreCapped`
  has a third, `SerialInv`: with no overlap the attempts in the store, or in the one
  copy being counted, fall behind the comparisons by at most one per failure, since
  a failure drops at most the one guess its request has compared. Single use needs
  no allowance for failures. `SerialAttemptsCapped` is the claim of finding 3, when
  nothing fails either.
* `MerchantsProofs`. `MerchantsInv` relates rows (a pending role has an unanswered
  submission and an NID) and requests (one that submits read a role that was not
  verified; one past the check saw an eligible role). From it: `PublishingIsEligible`,
  `SessionsActForOneself`, `PendingIsAnswerable`, `DemotionNeedsOverlap`.
  `SearchesFindNearest`: `Nearer` orders the rows found strictly and totally, so their
  ranks number them from 1 (`RanksNumberRows`) in order of distance (`RankOrders`);
  the row of each place is therefore unique, and a row left out ranks behind every
  row returned. `ListingsInv` adds that a stored point is an integer or absent.
* `KnowledgeProofs`. `KnowledgeInv`: what a command has derived or staged may be
  published over the directory that is there NOW (`Follows`). The lock excludes
  other publications; commits only add to the branch and edits only touch the
  phases, so neither can spoil it. `ImplementsKnowledgeStore` follows.
  `SourceStaysVisible` adds `VisibleInv`: the head of what waits for its exchange has
  the source of some commit no older than the recorded head, which was the tip, or
  the recorded head itself, when it was derived. The lock keeps the recorded head
  where it is until the exchange; `PhasesSurvive` adds `PhasesOK`, that a staged copy
  has the phases people saved unless an edit overlapped it. `SnapshotsConsistent`
  states what a reader of one snapshot may rely on. `TornOnlyByPublication`: what
  verify has read stays what it compares with unless an exchange comes between
  (`ReadersAgree`), so finding 4 has no other cause. `RepeatsAreStable` and
  `RetriesPublishNothing` are the documented retry contract: a derived directory is
  a fixed point of its own command line (`Repeatable`) until source is committed or
  phases are edited, because a result that is already recorded keeps its time.

Only model-checked:

* `EveryWebhookAnswered`, `PaymentEventuallyRecorded` and `EveryRowResolved`:
  liveness under fairness is outside the prover.
* The properties of the violation runs are false of the code as it is; the theorems
  above state them under the condition that makes them true.

## 5. Not modelled, and the plan

Left out: HMAC verification and payload validation (stateless); token signing and
encoding (a token that was not issued does not verify); template texts and their
substitution (for the dispatcher, rendering succeeds or throws each time); the
columns of a listing that neither a rule nor the search looks at; the full schema
validator; the HTTP calls of the CI sync; the lint scripts (stateless text checks);
the mobile app (no code). Seven hazards of `PROJECT.json` have no property, each with
its reason: a payment after a failed one, `occurred_at` at the start of a
transaction, a repeated `POST /orders`, stock that is never reserved, a merchant
suspended between the check and the insert of an order, and the two ways in which
the SMS of a saved login code is never queued.

That a command waiting for the knowledge lock gets it is not checked: it is what
`flock` and the end of the holder's process give, and no code here bears on it.

Planned:

* The rows the ledger's outbox stands for, one per channel, as input of
  `Dispatcher`.
