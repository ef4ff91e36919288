# RentStage: verification project

RentStage is a multi-tenant rental back office: a Go API (`apps/api`) over
PostgreSQL, with a web front end. All authoritative state is in the database;
the API processes are stateless and may be several, so every hard question
about the program is a question about concurrent READ COMMITTED transactions:
which statement reads what, under which lock, and what another connection may
commit in between. This directory models those transactions in TLA+, checks
them with TLC on small instances, and proves the central invariants with TLAPS
for every size.

Contents: 1 inventory, 2 hard behaviours, 3 how the models read the code,
4 modules, 5 runs and bounds, 6 fairness, 7 proofs, 8 disagreements found,
9 what is not modelled, 10 plan.

## 1. Inventory

Paths are relative to `src/apps/api/internal/core/` unless they say otherwise.
Migrations are in `src/apps/api/internal/database/migrations/`.

| Component | State | Operations | What makes it correct |
|---|---|---|---|
| `availability` | none of its own: advisory transaction locks, one per resource identifier | `LockResources`, `CheckWithQuerier`; a read-only endpoint | the sum of overlapping blocking reservations never exceeds the fleet |
| `reservation`, booking part | `reservations`, `reservation_items`, `reservation_schedule_history` | `CreateManual`, `CreateFromQuote(Tx)`, `Reschedule`, `Confirm`, `Prepare` | no overbooking; one reservation per quote; grants are atomic |
| `reservation`, warehouse part | `reservation_assets` (assignments and their custody), `assets.physical_status` | `AssignAsset`, `UnassignAsset`, `MarkReadyWithInventory`, `CheckOutWithAssets`, `ReturnWithInspection`, `CompleteAfterReturn`, `CancelAndRelease` | a unit is in one place at a time; a READY reservation is complete; custody follows the lifecycle |
| `inventory` | `assets` | `CreateAsset`, `UpdateAsset` (read, patch, write back), retire | a unit out of service is not handed out; an inspection is not lost |
| `quote` | `quotes`, `quote_items` | `Create`, `Update` (drafts), staff `Accept`, `Reject`, `Cancel` | decided at most once |
| `quoteportal` | `quote_portals`, `quote_portal_settings`, `quote_portal_events`; the trigger of migration 009 | `Issue` (send, reissue), `Revoke`, `TouchAndGet`, `Accept`, `Reject`, expiry | portal and quote agree; only the newest link decides; online acceptance and reservation are one; decisions stand |
| `catalog` | `resources`, `categories` | create, patch | an inactive resource is not on the public site; tracking mode is stable under open reservations |
| `customer` | `customers` | create, patch | single-row |
| `packages` | `packages`, `package_items` | create, update, archive; composition and discount allocation | allocated cents add up to the discount; totals and lines are of one snapshot |
| `publiccatalog` | publication flags, `quote_requests` with items and packages | anonymous request (hourly limit per fingerprint), status, conversion to a quote | the limit is definitive; one conversion per request |
| `billing` | `invoices`, `invoice_items`, `payments`, `payment_allocations`, `security_deposits`, `billing_settings` with the next number | draft, issue, void; pay, void a payment; receive and settle deposits | paid amount = confirmed allocations; balances never negative; numbers used once; one active invoice per source |
| `dte` | `dte_documents` with their attempts, `dte_settings` with the next control number | create from an invoice, submit, retry, cancel, invalidate | a number and an identity are used once; a retry repeats the same document; only an accepted one is invalidated |
| `assistant` | `assistant_conversations`, `assistant_messages`, `assistant_proposals` | simulated conversations, Meta webhook, approve, send, opt-out | a delivery is stored and answered once; delivery status does not go back; the status of a conversation says what waits |
| `webchat` | `assistant_web_chat_sessions`, messages of the assistant's conversations | create session, add message, prepare draft | a retried message is stored once; a message that was acknowledged is stored; the hourly limit holds |
| `identity` | `users`, `tenants`, `tenant_memberships`, `tenant_invitations` | sync, create workspace, invite, accept, update member | a workspace keeps an active owner; an invitation is used once |
| `authn`, `tenant` | session cookies (Firebase); nothing | login, logout; read | external |
| `audit` | `audit_events`, append-only | `Record`, after commit, errors ignored | nothing reads it back |
| `operations`, `dashboard`, `commercialmetrics` | none | read-only projections | |
| `../integrations` | none | HTTP clients of Meta and Vertex AI | |
| `../httpapi`, `../webutil`, `../config`, `../idutil` | none | routing, middleware, validation of identifiers | |
| `../database` | schema, migrations | migration runner under a session advisory lock | |
| web front end, scripts, infrastructure | none that is authoritative | | |

How they interact:

- Quote to reservation: `quoteportal.Accept` and the back office both call
  `reservation.CreateFromQuoteTx`, the first inside its own transaction.
- Reservation to availability: `CreateManual`, `CreateFromQuoteTx` and
  `Reschedule` call `LockResources` and then `CheckWithQuerier` for each item,
  in the transaction that writes.
- Inventory to the warehouse: no call; both write `assets`.
- Quote status to portal: the trigger `sync_quote_portal_from_quote_status`
  writes `quote_portals` inside whichever transaction updates `quotes`.
- Billing reads quotes and reservations as sources; DTE reads an issued
  invoice and writes back its `fiscal_status`.
- Web chat and Meta webhooks write the conversations the assistant works on;
  an approved proposal of the assistant becomes a draft quote.
- A public request reads resources and packages in one snapshot, and its
  conversion makes a customer and a draft quote. `packages.QuoteTemplate`
  supplies the lines of both.
- The tenant middleware of `httpapi` reads the membership once per request;
  every handler relies on the role it found.

## 2. Hard behaviours

`PROJECT.json` lists every hazard at its line. They are of a few kinds:

- write skew: two transactions each read what the other is about to change,
  with no lock in common (`Reschedule` and `AssignAsset`), or one reads in a
  snapshot from before the lock it waits for (`VoidInvoice`);
- checks in one statement and writes in another (capacity, exact units,
  hourly limits, sources of invoices), definitive only under the right lock or
  unique index;
- read, patch in memory, write the whole row back (`UpdateAsset`,
  `UpdateResource`);
- lock order: row locks, then advisory locks in key order; quote before
  portal, except in `Revoke`; a document before its invoice, except in a
  preparation; the invoices of a payment in order of their identifiers, as the
  request spells them;
- time: a link that expires while a request waits, or after it was decided;
- capability rotation: a request that resolved an old token before a rotation
  committed;
- a request that dies between two statements, and answers that are lost and
  requested again (portal decisions, fiscal submissions, web chat messages);
- answers that arrive and are taken for something else (fiscal provider);
- effects outside the database between two transactions (the fiscal provider,
  WhatsApp), reports about them repeated and reordered;
- cents: a discount spread over lines, a price divided among units.

## 3. How the models read the code

One tenant: every statement filters by `tenant_id` and no lock spans tenants.

`Txn` is the set of database connections. A transaction that reads in one
statement and writes in a later one takes several steps of a connection; `pc`
names the statement it has reached, and the other fields of `tx[t]` hold the
Go locals it will still use. A transaction's writes become visible at its last
step, COMMIT. A transaction whose reads are all covered by the locks it takes
is a single step, enabled when those locks are free: under READ COMMITTED a
statement that waits for a row sees the row as committed afterwards, so the
wait itself can be left out. `Abort(t)` ends a transaction at any statement:
client gone, connection lost, process stopped. Returns in the code that end in
the deferred `Rollback` are `Rollback(t)`.

Row locks and advisory locks are variables (`holder` in the rental core;
`settingsLock`, `quoteLock`, `portalLock` in the portal; `lock`, by row, in the
others). Unique indexes are modelled where the code relies on them: the active
invoice of a source, the active document of an invoice (an INSERT waits for the
transaction that is updating the row it would collide with), the pending
invitation of an address, the identifier of an inbound message. In the rental
core they are not: the row locks already exclude what they would refuse, which
is what `OneReservationPerQuote` and its proof show.

A statement that waits for a row reads it anew, but a subquery of it reads the
snapshot from before the wait (`BeginVoid` keeps that answer in `seen`). A
REPEATABLE READ transaction keeps what its first query saw (`Snapshot`).

A call to another system lies between two transactions and is a step of its own,
whose effect and whose answer may part: `Answered` and `Unanswered` in `Dte`,
`SendText` in `Inbox`. An answer is read by the code's own rules: `Transmit`,
`Invalidate` and `LooksRejected` make a verdict of a `Reply`. `GiveUp(t)` is the
`Abort` of these modules.

What a property does not tell apart is left out: names, prices, notes, terms,
view counts, audit and event rows. Identifiers are model values; windows are
pairs of small numbers compared as the code compares time stamps, start
inclusive and end exclusive.

## 4. Modules

| Module | Models |
|---|---|
| `RentalState` | tables, locks, transactions and shared queries of the rental core (availability check, exact-unit conflict, inventory gaps) |
| `Booking` | `CreateManual`, `CreateFromQuoteTx`, `Reschedule`, `Confirm`, `Prepare`: begin, one step per advisory lock, one per item checked, exact check, commit |
| `Warehouse` | assignment in three statements; the other warehouse operations, each one step under its locks |
| `Inventory` | `CreateAsset`; `UpdateAsset` in its two unlocked statements |
| `Rental` | composes the three with `Abort`; properties; the inductive invariants `IInv` of rows and units, `QuantityInv` of quantities and `WaitingInv` of lock order |
| `BookingLedger` | abstract: a grant checks and writes at once. `Rental` implements it (`ImplementsLedger`) |
| `QuotePortal` | quotes and their links: settings, drafting, staff decisions, issue and reissue, revocation, views, customer decisions, expiry, trigger; `PortalInv` |
| `Offer` | abstract: an offer is drafted, sent, decided once, reserved only when accepted. `QuotePortal` implements it (`ImplementsOffer`) |
| `BillingState` | tables, row locks and transactions that billing and fiscal documents share |
| `Billing` | settings; creation, update, issue and void of invoices; payments spread over invoices and their reversal |
| `Dte` | fiscal documents: preparation under the next control number, submission around the provider's call, retry, withdrawal, invalidation; the provider |
| `Fiscal` | composes `Billing` and `Dte` with aborts and the deadlock detector; properties; `FiscalInv` |
| `Receivables` | abstract: an account book changed one entry at a time. `Fiscal` implements it (`ImplementsReceivables`) |
| `Money` | arithmetic in cents: packages, quote templates, discount spread, quote totals, invoice amounts and taxes |
| `Pricing` | the money of one rental: package, quote, invoice, deposit; `PricingInv` |
| `Inbox` | one conversation on any of the three channels: simulated, WhatsApp, web chat; `InboxInv` |
| `Team` | invitations, memberships and roles, with the permission a request finds on arrival |
| `Storefront` | extends `Team`: site settings, the catalog and a package changed meanwhile, public requests, conversion; `OfficeInv` |
| `Sums` | the sum of a quantity over a finite set of rows, as SQL computes it |
| `MCRental`, `MCQuotePortal`, `MCFiscal`, `MCPricing`, `MCInbox`, `MCStorefront` | constants for TLC |
| `Rental_proofs`, `QuotePortal_proofs`, `Fiscal_proofs`, `Inbox_proofs`, `Storefront_proofs`, `Pricing_proofs` | the inductive invariant of the module they are named after, and what follows from it |
| `Ledger_proofs` | the rest about the rental core: no overbooking, the refinement of `BookingLedger`, lock order and the absence of deadlocks, agreements that stand |
| `SumTheorems` | lemmas about sums, and induction and recursion over finite sets and numbers |

State and code, rental core: `status`, `window`, `lines`, `origin` are columns
of `reservations` and `reservation_items`; `moved` is whether a row in the
schedule history exists; `physical` is `assets.physical_status`;
`custody[r][a]` is the state of the active row of `reservation_assets`, FREE if
there is none. `Spelling` is the set of ways a request may write identifiers:
`idutil.IsUUID` accepts either case and advisory locks are keyed by the string.

State and code, portal: `quote` and `portal[q]` are the two status columns with
the token hash, the rejection flag and the decision source; `expires` is
`quotes.expires_at`, to which `Issue` makes the portal's equal, and which only
drafts can change otherwise, so that one variable stands for both; `converted`
is whether a reservation has the quote as its origin. Inside an acceptance the
conversion is the single grant of `BookingLedger`, with the availability of
units left open: `ImplementsLedger` is what justifies taking it as one step. A
public request takes four: token to quote without a lock (`BeginPublic`), lock
of the quote (`LockQuote`), lock of the portal with the token looked up again
(`OpenPortal` or `TokenReplaced`), and commit. Between the last two it holds
both locks and, for an acceptance, waits for advisory locks. A view or an
expiry commits in the same step in which it gets the portal row: nobody can
wait for what it writes in between.

State and code, billing: `inv` and `pay` are the rows of `invoices` and of
`payments` with their allocations; `inv[i].paid` is the stored
`paid_amount_cents`, `inv[i].refs` the two source columns; `next` and `control`
are the counters in the two settings tables, of which `settings` and `station`
are the tenant's choice. `reserved` is the set of quotes from which a
reservation was made, so that one quote can be charged through either. `lock` is
by row. `doc[d]` is a row of `dte_documents`; `filed[d]` is what the provider
has for it, and `missed` the documents about which an answer of the provider
never reached the tables, or was taken for another. A `Reply` is what the code
looks at: the class of the HTTP status, the word in the status or the message,
and whether there is a receipt seal. The code takes 2xx with a seal and no word
that looks like a refusal for an acceptance, and 2xx without such a word for an
invalidation; everything else below 500 but 429 is a refusal. The provider may
answer anything in `Replies`, with one exception that is an assumption about it:
a receipt seal is given only for what was accepted. `filed` and `missed` are
outside the database, and the properties use the latter to say how far agreement
can go (`Heard`). A submission is a transaction that claims the document, the
provider's step, and a transaction that records the answer; a request that gives
up between them leaves the document SUBMITTING. `tx[t].rank` is how the ids of a
payment sort as its request spells them: one of `Ranks`, since `idutil.IsUUID`
takes either case and `CreatePayment` sorts strings. A reversal reads its
allocations in the order of the database, `Stored`.

State and code, messages: `conv` has the status and the consent of the
conversation, `session` that of a web chat, `inbound` the customer's messages
by the identifier under which a unique index stores them once, `out` the
outbound rows with the message they answer and the number Meta gave them.
Outside the database are `said` (what the customer sent, which a webhook may
bring any number of times, in any order), `meta` and `reported` (what became of
a message at Meta, and which of it Meta has told), and `acked` (the messages
whose sender was told they arrived). `Room` bounds the outbound rows.

State and code, team and site: `member` and `invitation` are rows of
`tenant_memberships` and `tenant_invitations`, an invitation with its
seven days as a flag; the actor's role is read where a request begins and not
again. `resource` and `package` hold what a public request reads. Two queries read
it: the first gives the price of the package, which becomes the `line_total` of its
row in `quote_request_packages` (`charged`), the second the items, whose lines the
estimated total of `quote_requests` adds up (`total`). `quotes` and `customers`
count what conversions made. The advisory lock of the hourly limit is
`lock["visitor"]`, and `clock` is what `now()` gives, read once per transaction.

Money: quantities of invoice lines are in thousandths and rates in hundredths of
a per cent, as in the code; `Pricing` takes each service call as one step, since
their interleaving is the matter of the other modules. `QuoteFits` is what the
columns of `quotes` and `quote_items` take: an INSERT of more fails.
`allocateDiscount` multiplies cents by cents in int64: `Proportion` wraps as it
does, at `Word`, the scaled 2^63, and divides as Go does. Nothing in
`packages.normalize` or in the columns (NUMERIC(12,2)) keeps the product below
it, so what is promised of a template supposes `ProductsFit`. The other integer
products of the code stay below 2^63: invoice lines multiply at most 10^8
thousandths by 10^10 cents, and `allocateHeaderDiscount` multiplies in float64.
Where the code multiplies and rounds in float64 the model is exact: with at most
100 lines and amounts below 10^12 cents the quotients differ from the exact ones
by far less than a cent. The two may then break a tie between lines differently,
or give a cent to another line; sums are taken in whole cents by both.

An operator named as a mutant in its comment (`BlockingForgetsOut`,
`CommitDecisionFirst`, ...) is a plausible bug in the operator below it. It is used
only to show that a property would notice.

## 5. Runs and bounds

| Run | Checks | Instance |
|---|---|---|
| `floor` | `IInv`, `QuantityInv`, `UnitExclusiveUnlessMoved`, `CompleteFromReady`, `CustodyMatchesStatus`, `NoOverbooking`, `OneReservationPerQuote`, `ImplementsLedger` | two reservations, one of them possibly from a quote; three units of one tracked resource; items of one or two units; three windows; two connections; 508,824 states up to symmetry |
| `live` | `AssignsAvailableUnit`, `EveryTransactionEnds` | two resources, orders for both at once, all operations, units created and patched while assigned; 109,402 states, no symmetry |
| `portal` | `PortalInv`, `PortalFollowsQuote`, `AcceptedOnlineIsReserved`, `OnlyRevokeDeadlocks`, `CurrentTokenDecides`, `ImplementsOffer`, `EveryRequestEnds` | one quote, two tokens, two connections, validity of one unit, clock 0..1; 127,760 states |
| `receivables` | `OnlyPrepareDeadlocks`, `PaidIsSumOfPayments`, `OneActiveInvoicePerSource`, `ImplementsReceivables` | two invoices, two payments over both, their ids spelled so that they sort either way, one quote, totals 1 and 2, six ways to divide a payment, two connections; 323,274 states up to symmetry |
| `fiscal` | `FiscalInv`, `OneActiveDocument`, `FiscalFollowsDocument`, `OneValidDocument`, `AnswersKept`, `EveryRequestEnds`, `SubmissionSettles` | one invoice, two documents, two connections, two attempts, both settings switched on and off, all twenty replies; 59,188 states, no symmetry |
| `money` | `TemplateIsQuotable`, `RequestCostsItsPackages`, `InvoiceHonoursQuote`, `DepositsAddUp` | packages of one to three items, free ones and ones of 6,000 units among them, at the sum or a fixed price; quotes of up to three items with discounts and extra charges; five tax rules, one of 100 %; limits of 120 and 240 instead of 9,999,999,999.99 and 999,999,999,999.99, so that amounts do reach them; 5 * 10^7 instead of 2^63, which some products exceed; deposits up to 3; 5,332 states |
| `messaging` | `OneDraftPerMessage`, `StatusTellsWhatWaits`, `HourlyLimit`, `DeliveryOnlyForward` | each channel; three messages (text, stop, start), three replies, two sends, limit two, two requests; 1,236,389 states up to symmetry |
| `office` | `RequestsWithinLimit`, `OneQuotePerRequest`, `PricedAsItsLines`, `JoinsOnce` | two users, two invitations, two resources, two requests, limit one, an hour of one unit, clock 0..2, one change of the catalog; 466,133 states up to symmetry |
| `clash`, `notes`, `voided`, `unheard` | one property each, violated by what the code does | see section 8 |

What they show, run by run:

- `floor` and `live`: booking and warehouse operations in every interleaving,
  aborts included, are grants that check and write at once; exact units,
  completeness and custody are right at every moment, and nobody waits for ever.
- `portal`: page and quote agree, only the newest link decides, and what is
  accepted online is reserved.
- `receivables`: what is stored as paid is what payments that stand add up to,
  numbers have no gaps, and one source is charged once. Payments and reversals that
  sort their ids as the database does never wait in a circle, whatever others do.
- `fiscal`: invoice and document agree always. Nothing is recorded as accepted that
  the provider has not accepted, whatever became of answers; where each answer
  arrived and was read for what it was, the books and the provider agree, and it
  has one valid document of an invoice at most. A lost or misread acceptance is
  not in this promise: the document is then recorded as REJECTED, or under way,
  and another may be prepared. Requests end, and documents that were sent are
  settled or retried.
- `money`: from package to deposit no cent is gained or lost, and no document is
  refused for what the one before it allowed, while products of cents fit.
- `messaging`: duplicates, reordering and retries do not produce a second draft,
  hide what waits, pass the limit or move a delivery status back.
- `office`: the limit holds for every hour, conversions are unique, the price a
  request charges for a package is what its lines come to, and an invitation is
  used at most once, by whom it names.

Why the bounds are enough. Conflicts are between pairs: two reservations, two
connections and two overlapping windows are the smallest case of every race in
section 2. In `floor` the third window is disjoint from one and overlaps the
other, so a reschedule can create and remove an overlap. The third unit lets one
item hold two units while another reservation competes for one, and makes the
sums of the capacity check differ from a count. Two resources are what a lock
cycle needs. In the portal the only interaction between quotes is the settings
row, which is released with the transaction; one quote, a token and its
replacement, and two requests cover rotation under a waiting request, revocation
head-on and every pair of deciders. The clock has one step and the validity is
one unit: a link issued at 0 is live at 0 and late at 1, one issued at 1 is
always live, one whose draft had an expiry ahead keeps it.

In `receivables` two payments over two invoices are the least that can be locked
in two orders, and a total of 2 is the least that can be paid in part. The six
allocations are of one invoice or of both, in equal amounts or not, and two of
them pay in full or exceed what is due. In `fiscal` a second document is a second
preparation of the same invoice, beside the first or after it was refused or
withdrawn; a second attempt is a retry. The replies are all that the code tells
apart. The run leaves out changes of `billing_settings` once its invoice is issued
(`SettingsMatter`, an action constraint): only the creation and the issue of an
invoice read them, and no fairness is about them, so nothing else depends on what
is left out. Two invoices have two orders, which is all that two spellings can do
to them. Payments and fiscal documents meet in no run, and need not: a payment
changes no fiscal status, and `FiscalInv` is proved for both together.
`NoPackage`, `NoDocument` and their neighbour in `Pricing` look at a package, a
quote and a deposit one at a time; three items are the least for which a
remainder of cents is spread unevenly more than once. In `messaging` three
messages exceed the limit of two, two sends can be reported out of order, and
the kinds are those that change consent. `MaxReplies` stops a conversation that
is full; a message which would need a fourth row is not stored in the run. In
`office` two requests exceed the limit of one and the clock lets one wait past
the hour of the other. `SiteQuiet` and `TeamQuiet` let the team change before
the site does and not after, since a role is read only when a request begins.

For sizes beyond these, section 7.

`CHECK_DEADLOCK FALSE` everywhere: row identities, tokens, attempts and clocks
are bounded, so when all are used up and all transactions have ended nothing
more can happen. That no transaction waits for ever is checked by the liveness
properties, `OnlyRevokeDeadlocks` and `OnlyPrepareDeadlocks` instead, and proved
as far as circles of waiting requests go (section 7, Waiting).

Symmetry: identities of reservations, payments, invitations, public requests and
connections are interchangeable in the safety runs, those of units where all
belong to one resource. Those of invoices are not: they are locked in their
order. The liveness runs use none.

## 6. Fairness

`FairSpec` has strong fairness of every connection's next statement. A statement
that is not waiting is executed. One that waits for a lock which others take and
release again and again is granted it in the end: PostgreSQL queues waiters of a
row or advisory lock in order of arrival. Nothing is assumed of requests that
have not begun, of `Abort`, or of the clock. In the portal `Victim` is weakly
fair: PostgreSQL's deadlock detector cancels one of the transactions in a cycle,
after `deadlock_timeout`. The rental core has no such assumption and needs none,
as `live` shows and `NobodyDeadlocks` proves: locks are taken without cycles.
`Victim` looks at two requests that wait for each other; that is no restriction,
since every longer circle of requests that spell ids in one way contains such a
pair (`DeadlocksRevoke`, `DeadlocksNeedPreparations`).

`Fiscal` has its own `FairSpec`, with the same strong fairness of statements and
weak fairness of `Victim`, and weak fairness of `ProviderStep`: a call to the
provider is answered or fails after the 30 seconds of the HTTP client. Nothing
is assumed of `GiveUp`, so a request may die with the document SUBMITTING, which
is why `SubmissionSettles` excepts the documents in `missed`.

## 7. Proofs

`tlapm` checks every leaf of the eight modules with theorems. They hold for any
sets of rows, units, tokens, messages and connections, any amounts and limits.
The assumptions are the named `ASSUME`s of the modules, which TLC evaluates in
the runs (shapes of the constants, finitely many rows, no identity used for two
kinds of objects, NULL different from every identity, no string that spells two
resources, a second package in a request as valid as the first), and, for
quantities only, `OneKeyEach` below.

No safety property of the models is inductive by itself: each says what the
tables look like, and a step is only safe because of what its transaction read
and locked some statements before. The strengthening is of one kind throughout:
every request has the locals its statement uses, holds the locks it took, and
what it read under them is still so. A step is then of one of three kinds: it
leaves the tables alone; it writes rows that are locked by its own transaction,
so nobody else has read anything of them; or it writes rows nobody locks, and
what others have read is not about them. Each module states these frames once,
as lemmas, and has one lemma per action.

Rental core: `IInv` is inductive (`Inductive`). A transaction's fields have the
shape its statements use (`Shapes`), it holds the locks it took (`LocksHeld`),
rows being inserted are new and not shared (`InsertsFresh`), a quote being
converted has no reservation (`QuoteFresh`), and what an assignment checked is
still so when it inserts, except for reservations that moved (`AssignReady`,
`RoomLeft`, `NeverTooMany`). From it: `TypeCorrect`, `QuoteConvertedOnce`,
`CustodyFollowsStatus`, `AssignmentsExclusive`, `PreparationComplete`, and, as an
action property, `AssignedInService`.

Quantities: `QuantityInv` is inductive (`QuantityInductive`). `KeysHeld` says
which advisory locks a grant has at each statement, `ChecksStand` that an item
found to fit still fits, `NeverOver` that the demand at the start of any window
is within the fleet. The step that matters is a commit beside a grant that has
checked: if both want a resource, both hold its lock, so one of them has not
checked yet; if not, the sum of the other does not change. A demand that is
highest somewhere is highest at the start of a window, which is why `NeverOver`
looks at those only. From it `NeverOverbooked`, and the refinement
`RentalImplementsLedger`. All three suppose `OneKeyEach`, that a request spells
a resource as the database does. The code does not see to it: `idutil.IsUUID`
takes upper case, the advisory lock is on the string, and `MCSpelling.cfg` shows
the overbooking that follows. Requests that send identifiers back as the API gave
them satisfy it; it is the hypothesis under which the promise is kept.

What was agreed: `AgreementsStand` follows from `IInv` and `WaitingInv`. A
commit of one reservation leaves the others alone (`LeftAlone`), and the status a
reschedule or an assignment found when it began still stands when it commits,
since it has the row of the reservation locked; so none that began early changes
what has become final.

Quote portal: `PortalInv` is inductive (`PortalInductive`). `LocksMatch` fixes
who holds the quote and the portal row at each statement, `ReadsHold` that what
was read under them still holds at the write, `Undecided` and
`ReservedIsAccepted` that an open portal bears no decision and a reservation no
unaccepted quote. Whoever writes a quote or its portal finds the locks of both
free or its own (`OthersElsewhere`), and only the quote written has to be looked
at again (`WriterKeepsReads`, `WriterKeepsTables`). From it: `PageFollowsQuote`,
`OnlineAcceptance`, `DeadlocksRevoke`, `PortalTypes`, the action property
`NewestLinkDecides`, and the refinement `OfferImplemented`.

Billing and fiscal documents: `FiscalInv` is inductive (`FiscalInductive`).
`LocksMatch` says exactly which rows a request has locked at each statement,
`LocksInOrder` that a payment has locked every earlier invoice of its own, as it
sorts them, when it has locked a later one, `OneActorEach` that a row is
inserted by one request and a document exchanged by one. `ReadsHold` is what was
read and still stands: balances, sources, the absence of payments and of active
documents. `NumbersWithoutGaps` and `DocumentsOfIssued` are about the two
counters, and `AnswersPlaced` about what the provider can have of a document in
each status, as long as its answers were heard. `AnswersSealed` is inductive
beside it (section Seals of `Fiscal_proofs`) and speaks of all documents: an
acceptance that is recorded, or about to be, came with a seal. The sum in
`PaidIsSumOfPayments` changes by one term in a payment and a reversal
(`SumChange`), and not at all elsewhere. From it: `PaidAmountsAddUp`,
`SourcesChargedOnce`, `DocumentsAreSingle`, `FiscalStatusFollows`,
`ValidDocumentsAreSingle`, `AnswersAreKept` (with `AnswersSealed`),
`DeadlocksNeedPreparations`, the refinement `BillingImplementsReceivables`, and
the action property `DocumentsAdvance`: whichever statement writes a document,
the status its transaction read is the one it replaces.

Inbox: `InboxInv` is inductive (`InboxInductive`). `ChannelsApart` says what
each channel leaves untouched, `RowsStand` that nothing is answered that is not
stored, `MessagesNew` that a message about to be stored is new and within the
limit since the lock of the session was taken, and `PublishesAll` that a reply
about to be published supersedes whatever waits, since the conversation is
locked. From it: `MessagesAnsweredOnce`, `StatusIsTrue`, `LimitHolds`, and the
action property `ReportsOnlyForward`; `HoldersCommit` is inductive beside it.
TLC finds `InboxInv` to hold on the instance of `messaging` too. The proof found
that two guards of the `CASE` in `Upserted` overlapped, so that the definition
left open which status a conversation takes; they are disjoint now, in the order
of the SQL.

Public site and team: `OfficeInv` is inductive (`OfficeInductive`). `OnePending`
is the unique index of migration 006 on pending invitations, `WithinLimit` the
limit for hours that begin at any instant, later ones included: a request that
waits for the advisory lock carries the time at which it began, and counts those
behind it because the query has no upper end. From it: `LimitHolds`,
`ConvertedOnce`, `TotalsMatchLines`, and the action property `AdmitsOnce`.
`OwnerStays` proves that an organization keeps its owner: the row it is about is
locked when `UpdateMember` decides, and an acceptance inserts but does not
replace. The proof of `OfficeInductive` does not use `SiteQuiet` and
`TeamQuiet`, the bounds that keep the run `office` small: the guards are in
`Next`, and no lemma cites them. `OfficeInv` quantifies an instant over all
numbers, so no run lists it; TLC checked it with instants up to the last of the
clock before the proof.

Money: `DiscountIsDivided` is about `allocateDiscount` for every list of items
and every discount up to what they cost whose products fit an int64 (`Fit`, from
`ProductsFit`): what does not wrap is divided as numbers are (`ProportionFits`),
each part is within its item and they add up to the discount to the cent.
Forwards, what is left after each item is what the items before it did not take,
so the parts and the rest telescope to the discount (`Telescope`). Backwards, if
anything were left in the end, every item would be full, and together they cost
at least the discount.

`HeaderDiscountIsDivided` says the same of `allocateHeaderDiscount`, and that no
share is a cent or more from its proportion. `Before` is a linear order of the
lines, so their ranks are a permutation of 0 .. n - 1 (`Ranks`), and the lines
that get a cent are as many as the cents that are left (`CentsOfRank`). A remainder
is less than the whole, so those cents are fewer than the lines that have a
remainder (`FewCents`); lines that have one come first, so nobody without one gets
a cent (`FirstLines`), and a floor with a remainder is below what the line costs.

`PricingInv` is inductive (`PricingInductive`): a package on file was accepted, a
quote on file is valid, fits its columns and has the total of its items, and a
deposit is settled within what was received. From it:
`TemplatesAreQuotable`, `RequestsCostTheirPackages`, `QuotesAreHonoured`, and the
action property `DepositsSettle`. In `QuotesAreHonoured` every line keeps its cost
less its share (`SourceLinesHonour`), and net and tax of a line add up to that or
to the tax on top of it, under any rule (`LinesAreHonoured`). That the invoice
accepts the lines needs the widths of the columns on both sides
(`MaxMoneyAssumption`): a line's gross is at most two amounts of a quote, and a
tax at most the net. The first model of a quote had no widths, and the property
was not provable from it; `QuoteFits` is what the proof added.

Waiting. Nobody deadlocks in the rental core (`NobodyDeadlocks` of
`Ledger_proofs`), by the order of locks: `WaitingInv` says that the keys a
transaction holds precede those it still has to lock, that a unit is locked last,
and that whoever holds a unit waits for nothing. Then the key awaited grows along
a chain of waiting transactions, and of finitely many one awaits the greatest.
It holds without `OneKeyEach`: spellings are sorted as strings, and locked as
strings. In the inbox (`NobodyDeadlocks` of `Inbox_proofs`) the conversation comes
after the other two rows, and who holds it waits for none. These theorems are about
the statements at which a transaction waits in the model. The operations that are a
single step there (check-out, return, cancellation) lock their reservation first
and then its units, sorted (`lockActiveAssignments`), the order of an assignment;
that they lock nothing else was read from the code, not proved. In the portal and in
billing there are deadlocks, head-on with a revocation or a preparation.
`OnlyRevokeDeadlocks` and `OnlyPrepareDeadlocks` are about circles of any length:
each contains two requests, one of them a revocation or a preparation, that wait for
each other. For billing the argument is the order again: without a
preparation, the invoice awaited would grow around the circle. It supposes
`Canonical` of the requests in the circle, that their ids sort as those of the
database do; `MCOrder.cfg` shows what happens otherwise (section 8).

Five properties are proved but listed in no run, because `floor`, `fiscal`,
`messaging` and `office` are as long as a run should be: `AgreementStands`,
`NoDeadlock` (twice), `DocumentsGoForward` and `OwnerStands`. TLC found each to hold
on the instance of those runs (and the first two, with `WaitingInv`, on that of
`live`) before it was proved. They can be violated: on these instances
`AgreementStands` is by operations that lock the units and not the reservation
(`CanLockUnitsOnly`), and `DocumentsGoForward` by a withdrawal of a document under
way (`BeginCancelSubmitting`).

Sums and recursion. The induction theorems of the library take an operator as a
parameter, which the installed provers cannot instantiate. `SumTheorems` takes
another way: the subsets of a finite set are well-founded under strict
inclusion, and so are the numbers under <, and that a well-founded relation has
a least element in every set that is not empty (here, the set of
counterexamples) takes only sets. `FiniteInduction` and `NumberInduction` state
induction over a set of subsets and over a set of numbers, `Recursion` and
`PartialSums` that a recursive function exists, which is what makes its CHOOSE
mean anything, and the other lemmas are what the proofs need of a sum: a change
of one term, two sets that are disjoint, a scaled or pointwise sum, a smaller
set, terms that are zero.

Only model-checked:

- the liveness properties (`EveryTransactionEnds`, `EveryRequestEnds`,
  `SubmissionSettles`): fairness needs ENABLED, which the provers do not treat;
- the properties of section 8, which the code violates: they are false.

## 8. Disagreements between code and documents

The first four are runs. The other six have a configuration of their own beside
the runs (`MCRevoked.cfg` and `MCOrder.cfg` of `MCFiscal`, `MCWrap.cfg` of
`MCPricing`, `MCSpelling.cfg` of `MCRental`, `MCDecision.cfg` of `MCQuotePortal`,
`MCRedelivery.cfg` of `MCInbox`), and `tlc` shows each in the same way.

- `clash`: `AssignAsset` and `Reschedule` have no lock in common. Both can
  commit on what the other makes stale, and one unit is in two overlapping
  blocking reservations, which CHANGELOG and `docs/VALIDATION-0.4.0.md`
  exclude. It takes a reservation that was rescheduled: otherwise the promise
  holds (`UnitExclusiveUnlessMoved`, proved).
- `notes`: a patch of a unit that does not mention its condition writes back
  the condition it read before a return inspection recorded damage.
- `voided`: `VoidInvoice` asks for an active fiscal document in a subquery of the
  statement that locks the invoice. If it waits for a preparation, the row is
  read anew but the subquery is not, and the invoice is void under an active
  document. `CHANGELOG.md:464` says such a void is blocked.
- `unheard`: `webchat.SendMessage` assigns the error of `AddInboundMessage` and
  returns nil. A message refused by the second count of the limit, by a chat
  switched off meanwhile, or by a failed statement is answered with success and
  not stored; `README.md:33` promises retries until delivery succeeds.
- `MCRevoked`: `looksRejected` takes any status that contains INVALID for a refusal.
  A provider that answers INVALIDADO to an invalidation, as the repository's own
  provider does, has invalidated the document; the code records a failure and
  keeps it ACCEPTED. `docs/ARCHITECTURE.md:1142` has it INVALIDATED and the
  invoice VOIDED.
- `MCOrder`: `CreatePayment` sorts the ids of invoices as the request spells them.
  Two payments over the same invoices, one of them with an id in upper case, lock
  them in opposite orders and deadlock; `docs/ARCHITECTURE.md:986` says they are
  locked deterministically. PostgreSQL cancels one of the two.
- `MCWrap`: the product of a discount and a price in cents exceeds an int64 for
  items of 35 and 100 millions and a discount of 35 millions. The first item gets a
  negative discount, against the test at `packages/service_test.go:168`, and the
  quote service refuses the template.
- `MCSpelling`: a manual creation that spells the resource identifier in upper
  case locks another advisory key than a conversion, and both are granted the
  last unit.
- `MCDecision`: `Accept` and `Reject` look at the expiry before they look whether
  the portal is still ACTIVE. After a customer has decided and the link's
  validity has passed, the opposite request marks the decided portal EXPIRED;
  the quote and its reservation stay, and the recorded decision is no longer
  repeated to the customer.
- `MCRedelivery`: the upsert of the conversation, with the consent a message
  asks for, commits although the message turns out to be a duplicate. A "stop"
  or "start" delivered a second time overrides what the contact said since;
  `README.md:65` says that duplicates are processed idempotently.

## 9. Not modelled

- Read-only endpoints and projections, HTTP routing, sessions, the front end,
  deployment: no state, or state of an external service.
- Audit and event rows: written, never read to decide.
- Names, texts and terms: of quotes, of the catalog's pages, of messages. How a
  draft is worded (Vertex AI, the safety filter and the sales brief of the web
  chat) and how packages are ranked decide no state beyond the draft itself.
- `customer`, and in `catalog` the creation and archiving of resources and
  the categories: single-row operations. The switch of `track_individual_assets`
  under open reservations is listed as a hazard; `Tracked` is a constant.
- In `assistant`, `LinkCustomer`, which sets one column; in `identity`, the
  synchronization of users, the profile of an organization and the choice of the
  active one, which are single rows without interplay.
- The payload of a fiscal document, its signature and the provider's tokens:
  formatting and I/O around the modelled call.
- Overdue units: a unit still out after its window ended does not overlap a
  later window and can be handed out again by the rules of the code. It is
  listed as a hazard without a property, since no document says otherwise.
- Approvals of one proposal at once, of which the loser leaves a draft quote
  behind; it reserves nothing, and no document excludes it. In the same way two
  conversions at once may each make a customer of one address, and two members
  who send the same WhatsApp draft send it twice.
- The web front end's retries and caches.

## 10. Plan

Done: the rental core with its ledger, the quote portal with its abstract offer,
billing with its account book, fiscal documents with their provider, prices from
package to deposit, the inbox with its three channels, the team, and the public
site, each with an inductive invariant proved for every size; the three
refinements; both discounts; the action properties; lock order.

What would come next:

1. The switch of `track_individual_assets` as an action of the rental core, with
   `Tracked` a variable: what a READY reservation holds would then have to be
   stated for the mode in which it became READY.
2. The creation of workspaces and the synchronization of users in `Team`, once
   more than one organization is of interest.
3. Liveness stays with TLC on small instances until ENABLED can be treated.
