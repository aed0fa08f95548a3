# Make It Art: a TLA+ model of orders, payments and deliveries

Make It Art is a marketplace for digital artworks (Express + Prisma/PostgreSQL
backend in `src/backend`, Nuxt frontend in `src/frontend`). Its hard part is
money and what it buys: a buyer's cart becomes an order that reserves artworks, Stripe
is asked for a payment, five kinds of server handlers act on the same rows while the
provider, the bank and the browser do what they like, and the paid order is then
delivered, invoiced, refunded and disputed by tasks of a durable outbox. These modules
model that, check it with TLC, and prove its central properties with TLAPS.

Line numbers are given in `PROJECT.json` ("map"), one entry per definition.

## 1. Inventory

Paths are relative to `src/backend/src` unless they begin with `src/`.

| Component | State it keeps | Operations | Status |
|---|---|---|---|
| Payment state rules (`domain/payment-state.js`, `domain/payment-intent-state.js`) | none: two transition tables | `canTransitionOrder`, `canTransitionPayment`, event targets, reusable intents | `PaymentStates` |
| Checkout (`services/checkout.service.js`) | orders, payments, reservations, cart version | `initializeCheckout`: renew, cancel superseded, create or reuse, intent, link, reconcile, last write | `Checkout` |
| Checkout recovery (`services/checkout-recovery.service.js`) | order and payment status, reservations | resume, `cancelOrderSafely`, `cancelSupersededCheckouts`, `expireStaleCheckouts` | `Checkout` |
| Payment finalization (`services/payment-finalization.service.js`) | the webhook ledger, order, payment, inventory, cart, tasks | `processStripePaymentEvent` | `Checkout` |
| Inventory reservation (`services/inventory-reservation.service.js`) | counters of artworks, reservation rows | consume, release | `Checkout` |
| Payment monitoring (`services/payment-monitoring.service.js`) | none of its own | `reconcileStalePayments`, `reconcilePaymentIntent` | `Checkout` |
| Carts (`services/cart.service.js`, `domain/cart-pricing.js`) | versioned carts | add, remove, clear; fingerprint, payability | `Checkout` |
| Webhook endpoint (`services/stripe-webhook.service.js`) | none | delivery of payment, refund and dispute events | `Checkout`, `Refunds`, `DigitalDelivery` |
| Fulfillment tasks (`services/fulfillment-task.service.js`) | task rows with leases and attempts | enqueue, claim, complete, retry, give up, cancel | `FulfillmentQueue` |
| Payment operations (`services/payment-operations.service.js`) | replays of tasks | `requeueFulfillmentTask` | `FulfillmentQueue` |
| Refunds (`services/refund.service.js`, `services/refund-finalization.service.js`) | refunds, refunded amount, order and payment status | request, provider call, link, refund events | `Refunds` |
| Digital delivery, disputes, downloads (`services/digital-delivery.service.js`, `dispute-finalization.service.js`, `artwork-download.service.js`) | entitlements, certificates, disputes, download counts | grant, suspend, restore, revoke, dispute events, download | `DigitalDelivery` |
| Invoices (`services/invoice.service.js`) | invoice rows, number series, PDFs | sale and commission invoices | `Invoicing` |
| Artwork lifecycle and media (`services/artwork-lifecycle.service.js`, `repositories/artwork.repository.js`, `routes/artist.routes.js`) | artwork rows, stored files | edit, relicense, hide, publish, archive, restore, delete | `ArtworkLifecycle` |
| Withdrawals (`services/artist-withdrawal.service.js`) | withdrawal requests | request, approve, reject, pay, cancel | `Withdrawals` |
| Sessions, wallets, contracts, image processing, mail, catalogue queries, pages, API documentation | records of their own, or none | see section 6 and `PROJECT.json` | not modelled |

Interaction: the checkout, the resume and the sweeps call Stripe *between*
database transactions; `processStripePaymentEvent` is called by the webhook
endpoint with the provider's events and by every handler with events the
server makes up from an intent it has just read (`reconcilePaymentIntent`);
finalizations of payments, refunds and disputes enqueue, withdraw or add tasks in their
own transaction, and workers in every server process execute them later, under leases.

What is hard here:

- a handler reads a row, waits for Stripe, and writes what it decided from the old row;
- the list of superseded orders is read long before the new order is inserted;
- events come late, twice, out of order, before the intent they name is linked, or never;
- a handler may die between any two of its transactions, and a worker with the lease of a task;
- a worker whose lease has expired works on, while another one executes the same task,
  an operator replays it or a refund cancels it;
- tasks that grant, suspend, restore and revoke the same rights run in any order, next to
  the refund or dispute that changes which of them is right;
- two refund requests, two withdrawals or two downloads meet at the same limit;
- two buyers want the same single copy, two tabs of one buyer want two carts, two pages
  of an artist edit the same artwork, its licence, price and files, while orders hold it;
- the provider may decline, ask again, cancel, take days, or forget a customer.

`PROJECT.json` ("hazards") lists each one at its line, with the properties that cover it.

## 2. Modules

- **`PaymentStates`**: the two transition tables, the event targets, what the server
  makes of an intent's status, as constants and pure operators.
- **`Checkout`**: the system. Three groups of variables: the database (`cart`,
  `artwork`, `customer`, `order`, `reservation`, `payment`, `fulfilled`,
  `processed`), the provider (`intent`, `sent`) and `work`, one record per handler
  in flight. A step is one database transaction, one database read or one call
  to the provider. What a handler has read stays in its `work` record
  (`seen`, `paid`, `status`, `linked`, `todo`), and is used, stale or not,
  as the code uses it. `Fail(w)` ends a handler between any two steps.
- **`Allocation`**: what buying an exclusive artwork promises: an order takes all the
  artworks it asks for if all are free, gives all of them back, or buys all of them.
- **`CheckoutAllocation`**: the refinement mapping from the counters and the
  reservation rows to the owner of each artwork.
- **`MCCheckout`**: symmetries for the TLC instances.
- **`FulfillmentQueue`**: the outbox. A task row and, for each worker, the task in hand,
  the attempt it counts and how its handler ended: the two differ as soon as a lease is
  lost. What handlers do is left to the modules that extend it.
- **`Refunds`**: one order, its refund rows, the requests in flight, the provider's refunds
  and the events not yet processed. A sum of refunds is the number of their units, counted as a set.
- **`DigitalDelivery`** extends both: the rights tasks of an order, disputes, what the
  buyer has been given, and downloads. A handler is two steps, its read under the
  order's lock and its commit, because finalizations take other locks and may commit in between.
- **`Invoicing`** extends the queue: a handler goes through its recipients, and each invoice is
  a snapshot, a commit the database may refuse, and a PDF.
- **`ArtworkLifecycle`**: one artwork, its row, its files and the requests of its artist, with
  the orders cut down to what they do to it.
- **`Withdrawals`**: the withdrawals of one artist; every check and every write apart.
- **`MCCheckout`**, **`MCRefunds`**, **`MCDelivery`**, **`MCInvoicing`**, **`MCArtwork`**,
  **`MCWithdrawals`**: symmetries and instances for TLC.
- **`CheckoutProofs`**, **`InventoryProofs`** and **`FinalizationProofs`** (each extends the one
  before), **`RefundsProofs`**, **`QueueProofs`**, **`DeliveryProofs`** (extends both),
  **`InvoicingProofs`**, **`LifecycleProofs`**: the proofs.

How actions correspond to the code:

| Code | Actions, in order |
|---|---|
| `initializeCheckout` | `BeginCheckout` (or `RepeatCheckout`: the same request sent again), `RenewCanceledCheckoutSnapshot`, `RereadCart`, `ListSuperseded`, the cancellation loop (none of these when the page was outdated: step `"outdated"`), `ReuseOrder` or `CreateOrder`, `CreateOrRetrieveIntent` (then `MarkOrderForReview` if the intent is not the order's), `LinkIntent`, `Reconcile`, `Settle` |
| `resumeCheckout` | `BeginResume`, `CheckCart`, `RetrieveIntent`, `Reconcile`, `ReloadOrder`, `Reopen`, or `MarkOrderForReview`, or the cancellation loop |
| `cancelOrderSafely` in a loop | `CancelNext`, `CancelAtProvider`, `CancelLocally` / `AlreadyClosed`, or `ProtectPayment` |
| `expireStaleCheckouts` | `BeginExpiry` and the cancellation loop |
| `reconcileStalePayments` | `BeginMonitor`, `RetrieveIntent`, `Reconcile` |
| `processStripePaymentEvent` | `ProcessEvent`, inside `Webhook`, `Reconcile` and `ProtectPayment` |
| carts, artists, time, provider | `SetCartItem`, `RemoveCartItem`, `ClearCart`, `EditPrice`, `Expire`, `ReplaceCustomer`, `Confirm`, `BankAnswers`, `ProviderCancels` |
| `claimNextTask`, `completeTask`, `failTask`, `markExhaustedTasks` | actions of the same names; `HandlerEnds`, `CompletionThrows`, `Crash` |
| `requeueFulfillmentTask` | `BeginRequeue`, then `Requeue` or `AbandonRequeue` |
| `requestRefund` | `reserveRefund` or `RepeatRequest`, `CreateAtProvider`, `LinkRefund`, `AbandonRequest` anywhere |
| `processStripeRefundEvent` | `processStripeRefundEvent`; with the tasks it enqueues, `RefundFinalized` |
| `processStripeDisputeEvent` | `processStripeDisputeEvent` |
| handlers of `digital-delivery.service.js` | `lockedOrder`, `CommitRights` or `HandlerThrows` |
| `consumeArtworkDownload` | `BeginDownload`, `FinishDownload` |
| `issueSaleInvoice`, `issueCommissionInvoices` | `BeginInvoices`, then for each recipient `RefuseRecipient`, or `ReadSeries`, `createInvoiceRecord`, `ensureInvoicePdf` |
| `PATCH` of an artwork | `BeginEdit`, `updateArtwork` or `RejectEdit`, `deleteArtworkMediaAssets`, `AbandonFiles` anywhere |
| `deleteArtwork`, visibility, moderation | actions of the same names |
| withdrawals | `BeginRequest`, `createWithdrawal`; `BeginReview`, `updateWithdrawal` |

### Abstractions

- Serializable transactions are atomic. A transaction that fails after its retries
  changes nothing, which is `Fail`; a webhook that fails is delivered again.
- All reservations of an order move together, in one transaction, so an order has one
  reservation status. An order has one payment row. Quantities are one. Only
  exclusive artworks are reserved; the others are sold without a stock.
- A pricing fingerprint stands for the priced content of a cart (`lines`), and two
  fingerprints are equal when the contents are. Amounts, currencies, billing details,
  buying one's own work, visibility, saved-card consent, the audit ledger of financial
  transitions and operator alerts are left out.
- A browser tab keeps one Idempotency-Key per cart version and fingerprint, as
  `src/frontend/utils/checkout-security.js` does.
- Stripe (external) is modelled from how the code uses it. Creating an intent again
  under the same key replays the first answer; `requires_confirmation` is treated
  as `requires_action` and `requires_capture` as `processing`. The replay of a
  failed idempotent cancellation is not modelled. Keys are replayed for ever, of intents and of
  refunds, although the user stories say that they are not permanent
  (`src/docs/USER_STORIES_PAIEMENT_STRIPE.md`, AC-05 of the checkout).
  A refund the provider made may come back later (`returned`).
- A new checkout reads the buyer's provider customer and calls the provider in one step; a replayed
  key with another customer is refused, which is `Fail`. Intents created without a customer
  are not told apart from those whose customer has not been replaced.
- The replacement of a deleted provider customer is a step of the environment.
- The reconciliation sweep takes one order at a time; its five-minute age
  threshold only narrows when it may run. Only the deadline of an open order is
  ever read, so a closed order's deadline does not pass.
- A closed pool of order identities (`Orders`) stands for the table: an order that
  finds no identity left is not created.
- Time is not counted in the queue: the lease of a task in progress may have expired
  whenever somebody looks, and a retry may be due at once. A lease token is named by the worker it was
  given to. Tasks that only send mail or notices, and operator alerts, are left out.
- Statuses no rule tells apart are one: a dispute is `OPEN` in `NEEDS_RESPONSE` and
  `UNDER_REVIEW`, and closed disputes count as won. Rights follow disputes
  (`SUSPEND_ON_OPEN`); commission invoicing is enabled.
- `Refunds` and `DigitalDelivery` follow one order, whose locks, sums and rows are its own;
  `DigitalDelivery` starts when the order is paid and its refunds have been acknowledged.
  What `Refunds` shows of requests holds there too.
- A serializable transaction that others may disturb is a snapshot and a commit refused
  when what it read has changed (`Invoicing`).
- Of the licences, only whether it is `EXCLUSIVE` matters to the rules; `OPEN` stands for the
  others. The files of one upload, original and preview, are one value; an upload
  that fails halfway is among the files that are `lost`. Previews that a download makes again
  (`persistRecoveredPreview`) are not modelled.
- An order is placed in one step (`PlaceOrder`). In the code it is a READ COMMITTED transaction, and
  an edit takes its snapshot with the artwork's row lock: an edit of an *open* edition may miss an
  order that is being inserted. Exclusive artworks, which the properties of purchases are about, have
  their row written by both.
- `RejectEdit` rolls back edits that were not committed. The code's `catch` also runs when the
  answer to the commit is lost, or when deleting the old files throws (hazards).
- `Withdrawals` keeps the code's two units: the balance of sales in euros, the sums of requests in cents.

## 3. What TLC checks

Every bound is a constant. `MaxVersion` bounds buyers' edits only: the server's own
version bumps are finite because each one closes an order.

| Run | Instance | Question |
|---|---|---|
| `all_handlers` | 1 buyer, 1 artwork, 1 order, 2 handlers of any kind; captures, declines, asynchronous payments | `TypeOK`; `FinalizedTogether`: paid, sold and enqueued are one write; `ReservationEndsOnce`; `OnlyStaleResumeReopensPaid`: nothing but the last write of a resume reopens a paid order |
| `two_buyers` | 2 buyers, 1 artwork, 2 orders, 2 requests | `NoDoubleAllocation`, `InventoryConsistent` while the artwork is taken, given back by a cancellation and taken by the other buyer; `ImplementsAllocation`: each step is one step of the abstract allocation |
| `successive_carts` | 1 buyer, 2 artworks, 2 orders, 2 requests, 3 cart edits | `SingleActiveCheckout`: no step gives the buyer a second open order that holds artworks, except in the two ways the property names |
| `provider_outcomes` | 1 handler, every provider outcome, 2 charges per intent, 2 provider customers | `NothingGivenUnpaid`, `NoOrphanReservation`, `SucceededByItsCharge` under any order of events |
| `sweeps` | 1 handler, 2 prices, cart edits, no fairness on webhooks | `HeldAtListedPrice`; liveness: `ExpiredReservationFreed`, `CaptureReachesInventory` |
| `refunds` | 3 refund requests, 2 at a time, up to 3 units | `NeverOverRefunded`, `OrderMatchesRefunds`, `SettledByFirstVerdict` with lost answers, repeated keys, refunds that come back, events in any order |
| `rights` | 7 rights tasks of one order, 1 refund, 1 dispute, 2 workers, 2 downloads, 1 attempt | `RightsSettled`: when no task is left, the buyer holds what the order calls for; `DownloadsBounded` |
| `outbox` | the granting and the revoking task of one order, 1 full refund that may cancel a grant in hand, no dispute, 2 workers, 2 attempts, 1 replay each | `CompletedIsFinal`, `GivenUpWhenSpent`, `RightsSettled` when leases are lost and tasks executed twice; liveness: `TasksSettle`, `RefundReachesRights` |
| `invoices` | a sale invoice and two commission invoices of 2 recipients, 2 workers, 1 replay, 2 years | `NumberedInSequence`, `CompletedInvoicesAll`, `InvoicesAreFinal` |
| `artwork` | 2 orders, 2 requests of the artist, 3 uploads, 4 versions | `ReservationBacked`, `ExclusiveSoldOnce`, `PurchaseIsKept`, `FilesOfArtworkStored`, `NoStrayFiles` |
| `canceled_payable`, `overdrawn` | | section 4 |

Each run finishes in two minutes or so on two cores; the largest visits 2.6 million states.

Why the instances are enough to be interesting: every race of a checkout is between
two handlers, or a handler and an event, on one order (`all_handlers`), between two
orders on one artwork (`two_buyers`), or between two orders of one buyer
(`successive_carts`). A second charge is what makes late events of a first charge
possible, and a second customer what makes an intent somebody else's. Two artworks in
an order are what a partial sale needs. `provider_outcomes` and `sweeps` run one
handler at a time because the interleavings there are those of events, provider
answers, deadlines and failures with one handler, and each of them is a step of the
environment. A takeover needs two workers and two attempts, or one attempt and a replay
(`outbox`, `invoices`); the order of rights tasks needs one attempt only (`rights`), where a
handler that throws ends its task. Three refunds are two that add up and one that is too much.
Certificates have no run: their tasks differ from those of the rights in their name only, and the
theorems cover both. Nor has an order that gets some of its artworks and not the others:
`two_buyers` has one artwork, and the theorem `CheckoutImplementsAllocation` is what covers several.
Two licence changes and two orders are what selling twice would take, and three uploads
are two pages saving over a first file. Deadlock is not checked: every actor may leave for
good, and every task may be over.

**Fairness of the checkout** (`FairSpec`): a handler in progress moves on or dies (weak fairness
of `HandlerStep \/ Fail`). The two sweeps are started by timers for ever, and an
attempt may fail any number of times, so each step of a sweep that is
possible again and again is eventually taken (strong fairness). Banks answer. Nothing
is assumed of webhooks, buyers, browsers or requests: `CaptureReachesInventory` holds
when no webhook is ever delivered. Both liveness properties allow the order to be parked in
`PAYMENT_REVIEW`, which the code leaves to an operator.

**Fairness of the outbox** (`DeliveryFairness`): `jobs/fulfillment.scheduler.js` starts a batch in
every process for ever, so each worker claims and settles (weak fairness of `BatchStep`),
its handlers return or throw (`HandlerStep`), and leases expire, so the exhaustion sweep runs
(`markExhaustedTasks`). A process may die any number of times: each life costs the task in hand an
attempt, which is why tasks settle all the same. Nothing is assumed of operators, of the
provider or of disputes. `RefundReachesRights` allows the revocation to be given up, which
the code reports to operators.

Every property of a passing run has a mutant in `PROJECT.json`: a plausible bug of a mapped
definition (a guard that is dropped, a loop that stops early, a write that does not look at
what it overwrites; the operators named `..._variant` in the modules) with which TLC
finds the property violated under the very same configuration.

## 4. Disagreements with the documents

Two runs expect a violation. Each checks one sentence of the repository's code or tests.

1. `canceled_payable`: an order whose intent was created but never linked is canceled
   locally only; the repeated request returns the client secret of its live intent.
2. `overdrawn`: the balance a withdrawal is compared with is read before, and outside, the
   write of the request: two requests that read the same balance together exceed it.

A third disagreement is a restated property instead of a run. The provider may report that a refund
failed after it had reported it made (`returned` in `Refunds`). `applyRefundEvent` ignores the second report
(`services/refund-finalization.service.js`, `ignored_terminal_transition`): the refund stays
`SUCCEEDED`, the order `REFUNDED` or `PARTIALLY_REFUNDED`, the rights revoked, and the amount cannot be
refunded again. The documents expect of a refund that failed that the order stays paid and the rights
unchanged (`src/docs/ARTWORK_LICENCES_QA.md`, LIC-REF-03; `src/docs/PAYMENT_TEST_PATHS.md`, the refund
card 5126). `SettledByFirstVerdict` says what the code does instead, the first final verdict stands, and
`OrderMatchesRefunds` that the order follows the rows, not the provider.

Other weaknesses met on the way have no run of their own and are listed with the hazards.
The main one: `resumeCheckout` writes the order without comparing it with the row it read, so
a `PAID` order may go back to `PENDING_PAYMENT`, a canceled one may be reopened and paid without a
reservation left, and the next reconciliation does not repair it, because the id of the
event it makes up is already in the ledger. `OnlyStaleResumeReopensPaid` shows that nothing
else reopens a paid order. Money and artworks stay right all the same: `NoDoubleAllocation`,
`NothingGivenUnpaid` and `ReservationEndsOnce` hold in these behaviours too.

A buyer may end up with two open orders that hold artworks, in two ways. TLC found both outside
the bounds of `successive_carts` when the proof was being prepared, and `SingleActiveCheckout`
names them. A request whose page shows an older price cancels nothing
(`services/checkout.service.js`, the two `if`s of `initializeCheckout`), and creates its order all
the same if the price has gone back before `createPendingCheckout` compares it (two prices). And
an order parked because the provider's customer was replaced is on no list of superseded
orders, but a resume that read it before that reopens it (a resume and two customers).

## 5. What is proved

For every number of users, artworks, orders, handlers, prices and versions, of tasks,
workers, attempts and replays, of recipients and years, of refunds, requests and files, from the
constants' assumptions alone (each module names its own: exclusive artworks are artworks,
`None` is nobody, bounds are naturals, a payment's total is positive, the tasks of a delivery
are its rights tasks and its refunds and downloaders are finitely many):

| Theorem | Says |
|---|---|
| `CheckoutProofs!TypeCorrect` | `Spec => []TypeOK` |
| `InventoryProofs!NeverAllocatedTwice` | `Spec => []NoDoubleAllocation` |
| `InventoryProofs!CountersAgree` | `Spec => []InventoryConsistent` |
| `InventoryProofs!ReservationsEndOnce` | `Spec => ReservationEndsOnce` |
| `InventoryProofs!BuyersPayTheListedPrice` | `Spec => []HeldAtListedPrice` |
| `InventoryProofs!CheckoutImplementsAllocation` | `Spec => Abstract!Spec` |
| `FinalizationProofs!PaidIsFulfilled` | `Spec => []FinalizedTogether` |
| `FinalizationProofs!GivenIsPaid` | `Spec => []NothingGivenUnpaid` |
| `FinalizationProofs!SucceededNamesItsCharge` | `Spec => []SucceededByItsCharge` |
| `FinalizationProofs!ReservationsHaveOrders` | `Spec => []NoOrphanReservation` |
| `FinalizationProofs!PaidStaysUnlessResumed` | `Spec => OnlyStaleResumeReopensPaid` |
| `FinalizationProofs!CheckoutsSupersede` | `Spec => SingleActiveCheckout` |
| `RefundsProofs!RefundsHaveTypes` | `RefundsSpec => []RefundsTypeOK` |
| `RefundsProofs!RefundsStayCovered` | `RefundsSpec => []NeverOverRefunded` |
| `RefundsProofs!OrderFollowsRefunds` | `RefundsSpec => []OrderMatchesRefunds` |
| `RefundsProofs!SettledRefundsKeepVerdict` | `RefundsSpec => []SettledByFirstVerdict` |
| `DeliveryProofs!CompletedStays` | `DeliverySpec => CompletedIsFinal` |
| `DeliveryProofs!AttemptsAreSpent` | `DeliverySpec => GivenUpWhenSpent` |
| `DeliveryProofs!DownloadsStayBounded` | `DeliverySpec => []DownloadsBounded` |
| `DeliveryProofs!RightsSettle` | `DeliverySpec => []RightsSettled` |
| `DeliveryProofs!DeliveryTypes` | `DeliverySpec => []DeliveryTypeOK` |
| `InvoicingProofs!InvoicingTypeCorrect` | `InvoicingSpec => []InvoicingTypeOK` |
| `InvoicingProofs!NumbersFollow` | `InvoicingSpec => []NumberedInSequence` |
| `InvoicingProofs!CompletedTasksInvoiced` | `InvoicingSpec => []CompletedInvoicesAll` |
| `InvoicingProofs!InvoicesStayIssued` | `InvoicingSpec => InvoicesAreFinal` |
| `LifecycleProofs!LifecycleTypeCorrect` | `Spec => []TypeOK` |
| `LifecycleProofs!ReservationsAreBacked` | `Spec => []ReservationBacked` |
| `LifecycleProofs!SoldOnce` | `Spec => []ExclusiveSoldOnce` |
| `LifecycleProofs!FilesAreKept` | `Spec => []FilesOfArtworkStored` |
| `LifecycleProofs!NoFileIsStray` | `Spec => []NoStrayFiles` |
| `LifecycleProofs!PurchasesAreKept` | `Spec => PurchaseIsKept` |

**Types.** `TypeOK` is not inductive: a handler that cancels or links an order reads
the order's row, and the row of an identity never used has no buyer. `TypeInv` adds
that a handler past the creation of its order works on an order that exists, that
every order in its list exists, that an order that exists has a buyer, and that a
payment with a linked intent belongs to an order that exists (events are applied to
linked payments only); it needs that orders never stop existing
(`Placed \subseteq Placed'`). There is one lemma per action.

**Inventory.** `AllocationInv` is `NoDoubleAllocation`, the agreement of the counters
of each exclusive artwork with the reservation rows (`Counted`), and that reserved
orders exist. The last is what makes a new identity free of reservations; the
counters are what makes `CreateOrder`'s guard, which reads only the
artwork's row, imply that no *order* holds the artwork; and that two
orders never share an artwork is what keeps the counters right when one of them
lets go. None of the three is inductive without the others. The proof first sorts
all actions into a few kinds (`Move`, or `CreateOrder`): nothing moves, a price is edited, the
reservation of one order is sold, that of one order is released, an order is
created. Then each kind is shown to preserve the invariant. The same classification
gives `ReservationsEndOnce` and, with the guard of `EditPrice`, the price theorem.

**Refinement.** Under `AllocationInv` the mapping reads one and the same owner from the
counters and from the reservation rows (`OwnerDetermined`). Selling is then
`Sell`, releasing is `Free`, creating is `Hold`, and every other step a stutter.

**Finalization.** A handler reads an intent in one step and acts on what it read in a later one.
`FinalizationInv` says how far it may be trusted: a capture is final, so a reading that says
`succeeded` may be old but not wrong, and names the charge that was captured (`ReadingsOK`; the same for
events under way, `EventsCaptured`). So whatever is paid, sold or enqueued was captured
(`PaidFor`). `Together` relates the order, its payment, its reservation and its tasks; what keeps
them together is that only an open or parked order holds a reservation, that a fulfilled one holds none,
and that a canceled payment leaves none, which is what makes a stale write to the statuses harmless.
The properties are parts of these two, none of them inductive alone. `PaidStaysUnlessResumed` then
goes through the steps once more: no transition these handlers make leaves `PAID`, and only
the last write of a resume decides from a status it read earlier.

**Successive checkouts.** `SingleActiveCheckout` holds although the list of superseded orders is old
when the new order is inserted. `PreparedOK` says why: as long as the cart keeps the version of the
request, every open order of the buyer that holds artworks for another version of it is still on the list
or in hand (`Pending`); a new order can only be made from the current version, so
either it is the request's own, which is taken over, or the cart has moved on and the creation is
refused. It needs that versions, customers and intents only go forward (`Forward`), and
`ParkedOK`: an order in review that still holds artworks is parked for its customer's sake and
unpaid, which is what limits the second exception to replaced customers. A resume compares the intent
with the customer its first query read; `CustomerOK` says that this one lies between the intent's and
the buyer's current one, so that only an order whose customer has been replaced is parked.

**Refunds.** Sums are cardinalities of sets of units (`Units`), so that adding a refund, or moving
one from a status to another, is a union or an inclusion of finite sets. `Covered` says that what is
pending or made fits into the payment; the guard of `reserveRefund` counts the same rows.
`RowFollowsBank` says what a row may say given what the provider has decided (a refund the
provider knows is never forgotten, and one it made or may still make still holds its amount), which with
`Covered` bounds what the provider is asked for; `EventsFollowBank` says that an event under way
names a verdict the provider gave, and that a verdict is known or on its way: once no event is left
the row has one, the only one there is unless the refund came back after it was made.

**The queue.** `QueueProofs` shows for each step of the queue, whatever extends it, that
`QueueInv` is kept, completed rows are untouched and tasks are given up with their attempts
spent. The invariant says what a worker may still believe: the attempts it remembers are
those of the row as long as it holds the lease (without it the last attempt could be
skipped), and a task an operator is about to replay has been given up, or canceled since
(without it a replay could reopen a completed task). `RowsMoved` says what others may do to the rows,
and the finalization of refunds and disputes is shown to do no more.

**Downloads.** Every request past the check has seen the count below the limit, and the
count has since grown by no more than the other requests past it: the property is inductive with
the types of the two variables it relates.

**Rights.** `RightsSettled` only speaks of the moment when every task is over; `RightsInv` says
why nothing wrong can be left then. A revocation is never refused, and a suspension only once its
dispute is over (`RefusalsOK`); the tasks that exist are those the order's and the disputes' status
calls for (`TasksFollow`); under the lock one handler at a time decides what to write
(`DecisionsOK`); once a revocation has been performed nothing but revoked rights remains
(`RevokedOK`); a suspension that has been performed keeps the rights suspended while its dispute is
open (`SuspendedOK`); and rights that stay suspended with nothing to suspend them have a
restoration that will still run (`RestoredOK`). The last two are about finalizations as much as
about workers: a dispute that closes between a handler's read and its write leaves a wrong
suspension behind, and the task enqueued with it puts it right. Steps are sorted into those
that write nothing the buyer has (`Quiet`), finalizations, reads under the lock, and commits.
The types of the composed model (`DeliveryTypeOK`) follow from the invariants of its parts: the
refunds', the queue's, the rights' and that of the downloads, each of which contains the
types of its own variables.

**Invoices.** `Progress` says what a handler in progress has behind it: every recipient
before the current one has an invoice with its PDF, and the current one its number, in the last
step. Rows never lose a number or a PDF (`RowsGrow`), so it stays true whoever else
executes the task; a worker that reports success has served all recipients. Numbering
is kept because a commit finds the counter as its snapshot saw it and no invoice of the recipient.

**Artwork.** The orders' half (`OrdersInv`): a copy set aside is held by one order whose item
still names the artwork; an exclusive order holds its copy until it is paid and leaves the
stock at zero afterwards, so a second sale would need a licence change, which `canEdit` refuses. The
files' half (`FilesInv`): what a request stored is its own and not the artwork's, what it
is about to delete is no longer the artwork's, and a page that shows the current version
knows the current file. `PagesTrue` is what makes the version check protect the files.

**Model-checked only**: the four liveness properties (`ExpiredReservationFreed`,
`CaptureReachesInventory`, `TasksSettle`, `RefundReachesRights`). Liveness under fairness, and
anything about `ENABLED`, is beyond the proof system and stays with TLC, as do the two
runs that look for a violation. Every invariant and action property of a passing run is proved.

## 6. Not modelled

- **Serialisation and validation in the routes**, the Vue pages, and the API
  documentation (`docs/openapi.js`): no state of their own. What a route does in several
  steps (the files of an artwork) and the key a checkout page keeps are modelled.
- **Sessions, login codes, remembered devices, OAuth**: a key deleted and another written, a
  code used once; no other part reads them.
- **Wallets, artist applications, contracts, administration**: single-row updates and audit
  records; where one overwrites another, the hazards say so.
- **Image processing, watermarks, storage providers, PDF rendering, mail, analytics**: computation and I/O.
- **Catalogue, collector and order queries**: read-only.
- **Amounts**: totals, taxes and commission rates of `domain/cart-pricing.js` and of invoices are
  integer arithmetic on one request, without state.
- `.pnpm-store` and other vendored copies.

## 7. Plan

1. The withdrawals of an artist against refunds that lower the balance.
2. An abstract specification of the outbox (a task is executed at least once, completed once), with
   `FulfillmentQueue` shown to implement it.
3. Wallets and artist applications, for the stale writes listed with the hazards.
