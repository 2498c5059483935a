# Auto Parts CRM: a TLA+ verification project

The repository is a CRM for a used-auto-parts business: a NestJS backend
(`src/backend`, PostgreSQL through Prisma, Redis as cache, BullMQ as job queue)
and a Next.js front end (`src/frontend`) that proxies to it. This directory
models the backend's own logic, where several people and services act on the
same rows at the same time, and the pages of the front end, where several calls
of one tab are under way and their answers come in any order.

In this text "request" is one HTTP request handled by the backend: an
asynchronous function whose every `await` on the database, Redis or a gateway
lets other requests run. Almost nothing in the code is a transaction, so
"reads a row, checks it, writes it some awaits later" is the shape of most
operations and the source of most hazards.

## 1. Inventory

Paths are relative to `src/backend/src/modules/` unless they start with `src/`.

| Component | State it keeps | Operations that change it | What is hard about it |
|---|---|---|---|
| orders (`orders/`) | `Order`: number, status, payment, the JSON column `intakeDetails` | create (with order number, lead conversion, note), update, cancel, refund | a number drawn as MAX+1 by concurrent serializable transactions and a retry loop; read-modify-write of `intakeDetails`; steps after the commit that may fail |
| orders list cache (`orders/orders-cache.service.ts`, `src/backend/src/infrastructure/redis/`) | Redis: a version per namespace, one entry per version and query, with a TTL | list, invalidate (from orders, notes, shipments, replacements) | loads that overlap invalidations, Redis calls that fail silently, writers that never invalidate |
| order jobs (`jobs/`) | BullMQ queue | enqueue a lifecycle event (not awaited), process | 3 attempts with backoff, lost when Redis is down; the worker only logs |
| leads (`leads/`) | `Lead`: text, `convertedOrderId`, `convertedAt` | create, update, be converted by an order | edits and conversions of one lead overlap |
| website leads (`website-leads/`) | `WebsiteLead`: status, assignee, `convertedLeadId`; notes | ingest (signed webhook), claim, update, add note, convert | webhook retries, two agents claiming at once, conversion racing reassignment |
| invoices (`invoices/`) | `Invoice`, `InvoiceAuditEvent`; links in customers' mailboxes | create, edit, clone, send, resend, view, accept terms, sign | a staff member and the customer act on one row without a lock; mail and SMS gateways fail between two writes |
| shipments (`shipments/`) | `Shipment` status and dates | create, update status | one shipment per order is a check before an insert; status machine with an override for privileged roles |
| costs (`costs/`) | `ShipmentCost`, additional costs, history | create, update, add and change an additional cost | totals recomputed from a read that is stale when written |
| replacements (`replacements/`) | `ReplacementRequest`, history | create, update | transit details checked on a stale merge |
| tracking (`tracking/`) | none of its own | none (builds a timeline) | read only |
| notes (`notes/`) | `Note` | create | bumps the orders list, touches the lead, notifies, in separate awaits |
| notifications (`notifications/`) | `Notification` read and cleared flags | notify, mark read, clear (one, group, all) | a bulk update racing new notifications |
| auth and users (`auth/`) | `User`: role, active flag | login, create, update, deactivate, delete | a token outlives a role change; deleting a user who owns rows |
| releases (`releases/`) | `UserReleaseSeen` | mark seen (upsert) | idempotent |
| dashboard (`dashboard/`) | none | none (three reports) | periods are Pacific days, half-open, over changes of the clocks; sums over orders, sheets and leads |
| appconnect, ringcentral lookup | none | none (search for a caller; log a call as a note) | read-mostly |
| vehicle lookup | static table | none | data |
| common, prisma (`src/backend/src/common`, `src/backend/src/infrastructure`) | none | error mapping, guards, dates | which database errors reach the callers' catch blocks |
| front end pages (`src/frontend/src/features/`) | per tab: what was loaded, filters and forms, locks (`isSaving`, `isLoading`, ...), request trackers; a session cookie | load, filter, turn pages, export, open and close popups, submit, sign, poll | answers out of order, answers after the page moved on, optimistic changes and their rollback, answers that are lost, locks |
| proxy routes (`src/frontend/src/app/api`) | a session cookie | parse, rename and forward each request | one more layer whose limits must agree with the others |

The pages share no state with each other: each tab mounts one page and the bell,
and everything else is between the page and the backend.

How they interact: `OrdersService`, `ShipmentsService`, `ReplacementsService`
and `InvoicesService` write their rows, then call `NotesService.create`
(which bumps the orders-list namespace for order notes), then bump the namespace
themselves, then `NotificationsService`. Creating an order may convert a lead;
converting a website lead creates a lead. Nothing undoes the earlier calls when
a later one throws.

What makes each component correct, in the words the properties use:

- orders: numbers of a day are given once and without gaps; an order and the
  conversion of its lead appear together; a lead gives at most one order; a
  request that failed before its commit left nothing behind.
- orders list cache: an answer is never older than the last invalidation that
  finished before the question, unless Redis failed; stale answers end.
- invoices: a signed text does not change, a signature is given once over the
  accepted text, the audit trail tells the truth, a replaced link stays dead.
- shipments and costs: one shipment per order, legal status changes, totals that
  are the sum of their parts.
- website leads: one record per submission, one owner per lead, one conversion.
- replacements, notifications, users: state and history agree; "cleared" implies
  "read"; a disabled user acts no more.
- pages: a page that has settled shows what is stored, what it sends is about the
  record it shows, and it never stays locked after its calls have ended.
- forms: what a form lets pass is stored, what is stored can be edited, and every
  report of an order tells the same money.
- lists: a row is listed exactly when it belongs to what was chosen.

Hazards: PROJECT.json lists them at their lines. They fall into four shapes: a
check separated from its write by an `await` (invoices, shipments, replacements,
users, notes of website leads); a read-modify-write without a lock (order
intake details, cost totals); a sequence of awaits that stops half-way (every
operation that writes a note, an event or a mail after its row); and retries and
stale answers (order numbers, the cache, the website's outbox). The pages add three:
an answer that arrives after a newer one, or after the choice it belongs to; a form
or a lock that a reload, an unmounting or another answer takes away; and a copy of
a row that is sent back later. Forms, lists and reports add one that no interleaving
causes: a rule written by hand in several layers.

## 2. Plan

| # | Modules | State | What it is for |
|---|---|---|---|
| 1 | `InvoiceSigning`, abstract `InvoiceContract` | done, proved | the longest workflow, two parties, gateways that fail |
| 2 | `OrderCreation`, abstract `OrderBook` | done, proved | the only retry loop around a transaction |
| 3 | `OrdersListCache` | done, proved | freshness although nothing is ever deleted |
| 4 | `WebsiteLeadIntake`; `WebsiteLeads`, abstract `WebsiteInbox` | done, proved | at-least-once delivery; claims, edits and conversions |
| 5 | `FulfilmentRows`, `OrderEdits`, `Shipments`, `ShipmentCosts`, `Replacements`, composed by `Fulfilment` | done, proved | one order and everything that happens to it after the sale |
| 6 | `Browser`, the page modules, composed by `Workspace` | done, ten pages and all locks proved | answers out of order, lost answers, locks, copies of rows |
| 7 | `Forms` and the modules of the forms, composed by `FormPage` | done | layers of validation, what is stored, what is shown of it |
| 8 | `OrderViews`, `DetailPages`, `DashboardPage`, `ListQueries` | done | one order reported in several places, timelines, periods, filters |
| 9 | `WorkspaceProofs`: what the proofs share; `StaffPageProofs`: signing page, tables, users, costs, notes; `OrderPageProofs`: shipment, order forms, dashboard, order page, both lead pages | done | what the pages claim, for any number of calls, rows and faults |
| 10 | `PageLockProofs`: the locks of all fifteen pages | done | no button stays disabled and no page keeps loading after its call has ended |
| 11 | the bell and the details in `OrderPageProofs` | open | the rest of the conjunctions of `Workspace` |

Composition: `OrderCreation` contains the part of leads, notes and notifications
that creating an order runs. `OrdersListCache` takes every writer as a write
followed by a bump, the interface through which the services of `Fulfilment` meet
it. `WebsiteLeads` contains the part of users that races requests. `Fulfilment`
composes four modules over the tables of `FulfilmentRows`, because the services of
shipments and costs write one sheet and edits of the order change what both compute
from. `Workspace` composes the pages over `Browser`; `FormPage` uses the modules of
the forms and `OrderViews` as operators, `ListQueries` the calendar of `DashboardPage`.

Theorems worth proving next are those of row 11: the conjuncts of
`SettledPagesAreCurrent` that are still only model-checked, page by page, and
those of `LoneWorkSucceeds` but `LoneRequestAllowed`. Of `ShownBelongsToChoice` only `ListedMatchesChoice` is left, a
finite table.

## 3. Modules

All modules share conventions. A request is a record `req[r]` whose field `step`
names the `await` it stands before; the other fields are the local variables that
survive an `await`. One action is the code between two awaits. A request refused
by its first check changes nothing and has no action of its own. `RequestFails`
(or `Fault`, `Lose`, `Unreliable`) is a rejected promise, a lost connection or a
crash: the request stops where it is, its open transaction is rolled back, and
what it wrote before stays. Operators marked "Mutant" are wrong versions of the
definition that follows; each shows that a property can fail.

### InvoiceSigning (`invoices/invoices.service.ts`, `invoices.repository.ts`)

The invoice of one order. `invoice` is its row, `audit` the table of audit events,
`links` the tokens the customer received, `orderStatus` what the code asks of the
order, which `UpdateOrderStatus` (`OrdersService.update`) changes in both directions at
any time. A staff form has fields for a signature and its date but no input for them,
so texts arrive unsigned (`Unsigned`). Texts, tokens and signatures are numbered, so that an event can say which
one it is about; the field `signedContent` is history: the text in the row at the
moment of the signature.

| Code | Actions |
|---|---|
| `create` | `BeginCreate`, `CreateInvoice` (unique index on `orderId`), `CreateAudit` |
| `update` | `BeginEdit`, `EditInvoice`, `EditAudit` |
| `cloneSignedInvoice` | `BeginClone`, `CloneInvoice`, `CloneAudit` |
| `issueSignatureRequest` and the sends | `BeginResend`, `IssueCheck`, `IssueToken`, `SendEmail`, `SendSms`, `SentAudit` |
| `getByToken` and `acceptTerms` | `BeginView`, `ViewAudit`, `BeginAcceptTerms`, `AcceptCheck`, `AcceptAudit` |
| `signWithToken` | `BeginSign`, `SignCheck`, `SignInvoice`, `AttachedAudit`, `SignedAudit`, `CompletedAudit`, `Confirm` |

`InvoiceContract` is the promise to the two parties with every operation atomic.

### OrderCreation (`orders/`, `leads/`)

`create` is `BeginCreate` (with `findConvertibleById`, outside of the transaction),
then a serializable transaction `ReadNumber`, `InsertOrder`, `MarkConverted`,
`Commit`, which `RetryOrThrow` runs again for the errors the code retries, then
`StoreNote`, `AfterMutation` and `NotifyOrderCreated`. Lead edits are `BeginEdit`,
`UpdateLead`. PostgreSQL is modelled by what the code relies on: snapshot reads,
waiting for a key or a row that another transaction holds, refusal of writes over
a newer version and of read/write conflicts at the commit. `Midnight` moves the
date that the number's prefix takes from the server's clock. `OrderBook` is the
abstract version: one step per order.

### OrdersListCache (`orders/orders-cache.service.ts`, Redis service)

`counter` is the version of namespace `orders:list`, `entries` the stored lists
with their remaining lifetime, a list being the number of writes it reflects.
`BeginRead`, `ReadVersion`, `GetList`, `LoadList`, `StoreList` are
`rememberList`; `Write` and `BumpVersion` are any service that changes orders and
calls `invalidateListCache`; `WriteCosts` is `CostsService`, which calls nothing.
`Unreliable` selects what may fail: the read of the version, a get, a set, a bump,
the writer before its bump, the memory of Redis. `floor` is history: the writes
covered by the last bump that finished.

### WebsiteLeadIntake (`website-leads/`, intake)

The website's outbox (`Enqueue`, `Send`) and the upsert behind it: `Select`,
`Insert`, `CommitInsert`, and `Find` for the loser of the race for the unique index.
`Answer` brings the outcome back; `Lose` loses a request, an answer or a server.

### WebsiteLeads (`website-leads/`, work on inquiries)

`Claim`; `ReadForUpdate`, `isActiveAgent`, `Update`; `ReadForNote`, `AddNote`;
`ReadForConvert`, `SelectOriginal`, `CreateLead`, `MarkConverted`, `Commit`, the
last four one READ COMMITTED transaction that holds the row of its inquiry from
`MarkConverted` on. `SetAccount` and `DeleteUser` are the users' side
(`auth/auth.service.ts`); foreign keys clear the assignee of an inquiry and keep a
user who has leads or notes. Roles are constant here. The note that a conversion
writes belongs to the new lead and is left out, as is the status CONTACTED, which
no check tells from CLOSED. `WebsiteInbox` is the abstract version.

### Fulfilment (`orders/`, `shipments/`, `costs/`, `replacements/`)

| Module | Code | Actions |
|---|---|---|
| `FulfilmentRows` | the tables, a request, its failure | `Arrive`, `Fail` |
| `OrderEdits` | `OrdersService.update`, `cancel`, `refund` | `BeginUpdate`, `BeginCancel`, `BeginRefund`, then `ReadIntake`, `WriteOrder`, `NoteOrder` |
| `Shipments` | `create`, `updateStatus` | `BeginCreateShipment`, `InsertShipment`; `BeginUpdateStatus`, `WriteStatus`; `UpsertCost`, `Upsert`, `NoteShipment` |
| `ShipmentCosts` | costs and additional costs | `BeginUpdateCost`, `UpdateCost`, `BeginUpdateExtra`, `UpdateExtra`, `ReadForTotals`, `WriteTotals`, and the history |
| `Replacements` | `create`, `update` | `BeginCreateReplacement`, `InsertReplacement`, `BeginUpdateReplacement`, `WriteReplacement`, `NoteReplacement` |

No operation holds a transaction over more than one statement, so overlapping
requests break most rules. The properties say exactly which survive: three
invariants hold whatever overlaps, and the rest is stated for a *lone* request, one
that has met no other since it arrived (field `alone`), whatever state the earlier
ones left behind. What they do not forbid is what overlapping requests do to each
other. Points the model settles that the code does not say:

- updating a shipment admits the roles ADMIN and SHIPPING only, and both may
  override, so `ALLOWED_STATUS_TRANSITIONS` binds nobody;
- the costs service computes the gross profit from the whole sale, the shipments
  service takes a fee of 2 % off for some methods: `Balanced` admits either;
- an edit of the order's total does not recompute the gross profit;
- an actual amount that replaces an estimate and equals the unused actual amount
  stored (0, as a rule) is not logged (`UnusedAmountGiven`).

### Browser and the pages (`src/frontend/src/features/`)

`Browser` is one tab: `mounted` names the page that is open, `page` is its React state,
`server` the backend rows it works on, `calls` what is under way. A handler runs to
its next `await` in one step (`Ask`, `Become`); the backend performs a call in one
step (`Perform`, `Refuse`), at any time; its continuation runs at any time after
that (`Continue`), so answers come in any order; the network may lose a call before
or after it was performed (`LoseCall`); others may change the rows (`Elsewhere`).
Closures matter: what a continuation remembers from the moment of its call is the
field `kept`.

| Module | Code | What is in `page` |
|---|---|---|
| `SigningPage` | `InvoiceSigningPage.tsx` | the invoice last shown, terms, signature, photo ID |
| `ListPage` | the five tables and their hooks | filter, page number, request tracker, popup |
| `ShipmentPage` | `ShipmentDetailsView`, `GrossProfitSummaryCard`, their hooks | the shipment, the order, the form, the status to roll back to |
| `LeadPage` | `LeadDetailsView`, `WebsiteLeadDetailsView` | the lead, its notes, the generation of the load |
| `NotesPage`, `CostsPage` | `useNotesWorkspace`, `useCostsWorkspace` | choice, trackers, list or form |
| `OrderPage` | `OrderDetailsView`, `InvoiceActions`, `OrderResolutionActions` | the order, the panel's invoice, its form, the popups |
| `BellPage` | `NotificationBell.tsx` | list, badge, filter, the rows to roll back to |
| `UsersPage` | `UserManagement.tsx` with `updateUser`, `deleteUser` in two awaits | accounts, the selected one, its panel |
| `OrderEntryPages` | `CreateOrderForm`, `CreateLeadForm`, `UpdateOrderForm` with the checks of `OrdersService.update` | number, make and models; the fields sent |
| `DashboardPage` | `DashboardWorkspace.tsx`, `dashboard.service.ts` | tab, period, filters, tracker, the data of each tab |
| `FormPage` | every form, and each layer between it and the row | the values of the form, what was typed |
| `DetailPages` | the four pages of details, `ReplacementTracker`, their hooks | the order, its notes and the shipment's, locks of their forms |
| `ListQueries` | six tables, their API clients, proxies and repositories | a table, its filters, whether the row is listed |

A page's flag `mixed` (or `moved`) is history: it remembers that one of the overlaps
named at its definition has happened, after which the code really may leave
something stale; the properties claim the rest. The exceptions are the hazards that
PROJECT.json lists next to the properties. `Workspace` is a tab on any one of the
pages; no page shares state with another, so the composition adds no interleavings.
It states the properties of the pages as six conjunctions, one for each question
asked of every page, whose conjuncts are defined and explained in the pages' modules,
and `NoLockOutlivesItsCall` of all of them. The exceptions of that one: a photo is
compressed without a call, a make that is emptied during its lookup leaves the select
of models locked, and a tab of the dashboard that is left keeps its spinner until it
is opened again.

### FormPage and the forms

A form is judged five times between a keystroke and a row: by its own schema, by the
schema of the API client (with which the proxy route parses again), by the DTO of the
controller and by the service; two functions in between rename and drop fields.
`FormPage` is one form of twenty-five, its handlers dispatching to one operator per
layer: `FormAccepts`, `ValuesSent`, `ClientAccepts`, `Payload`, `DtoAccepts`,
`ServiceAllows`, `Stored`. `Forms` has what the layers share and how values are
abstracted: of a text its length, of a phone number the count of its digits, of a date
the days after today, amounts in thousandths of a unit, so that limits of lengths,
fractions of cents and dates in the future are real. `WholeCents` is what
`Number.isInteger(value * 100)` takes: it leaves out every amount below two units whose
product with 100 is no integer in floating point (0.07, 0.14, 0.28, 0.29, 0.55 and so
on) and, above that, the one the models reach, 12.34 + 20. The amounts used contain
0.29, and additional costs of 0.20 and 0.35, which pass one by one and whose sum is
refused.

| Module | Forms |
|---|---|
| `OrderForms` | order: create, edit (by role), cancel, refund |
| `PeopleForms` | lead: create, edit, from an inquiry, into an order; account; password; note |
| `FulfilmentForms` | cost sheet, base, estimated and additional costs; shipment; replacement (popup, update, card) |
| `InvoiceForms` | invoice: generate, edit, clone; and its documents: preview, page, PDF |

`LayersAgree`: what the form lets pass no later layer refuses, but for what
`KnownRefusal` names. `StoredFitsForm`: a stored row passes its own editor.
`SavedFormIsShownAgain`, `PreviewIsStored`: what was typed is what is shown later.

### OrderViews

What is told of a stored order: `order-financials.ts` of the pages, the functions of
the shipments service, of the dashboard, of the export and of the note of a refund,
each as an operator of its own, and the fields that the pages of details and the
columns of the export show. Money is in 50ths of a cent, so that the fee of 2 % is
exact and rounding is visible. `FormPage` evaluates them on every order that a form
stored: `ReportsAgree` says that all report one paid amount, refund and profit up to
the rounding of the fee, `DetailsShowWhatIsStored` that each field shows up under its
own name.

### DetailPages

The page of an order, of a shipment order, of a shipment and of a replacement, for
staff who may ship. A note is a record of how its text begins, whether it speaks of a
status and whether a line of it begins with "- Status:", which is all that the four
classifications look at. `OlderNotes` is one note of every beginning that programs
write; the operations of the page make the backend write more. Loads, reloads, form of
notes, cards and the tracker of replacements are actions; leaving the page drops its
answers. `SettledNotesAreShown`: each note is in exactly one of the three timelines.

### DashboardPage

`getSalesOverview`, `getOrderStatus` and `getAgentLeads` with the periods they take,
and the page of three tabs that asks for them. An instant is an hour of UTC, so that
the day of 23 or 25 hours exists; months have three days, as only their ends matter;
an order and a lead lie at the two sides of a midnight next to the change of clocks.
`DashboardShowsChoice`: the data of a tab answers the period and filters chosen now.
`SettledDashboardIsCurrent` defines the expected counts by calendar days instead of
instants, and compares.

### ListQueries

What a filter becomes on its way: the page parses it from its address, its hook or
client builds a query, the proxy takes it apart and builds another, the controller's
DTO checks it and the repository makes a condition of it (and defaults of the role of
who asks). The state is one table, one choice and one row; the answer says whether the
row is listed. `QueryInit` has an aspect at a time: status, lead filters, people, ages,
dates, searches. `ListedMatchesChoice` compares with what the page promises next to the
row: the status in its cell, the age it shows, the days of the calendar, the fields its
search box names, the count on its tab.

## 4. Runs

| Run | Question | Bounds |
|---|---|---|
| `invoice_concurrent` | Do signatures, trail, links and the unique invoice survive any overlap and failure of two requests? | 2 requests, mail only, 2 texts, 2 links, 1 signature, links live for 1 tick of 1 |
| `invoice_serial` | Does a server that handles one request at a time keep the contract? | 1 request, mail and SMS, 3 texts (so a clone and an edit), 2 links, 2 signatures, 2 ticks |
| `invoice_read_only` (violated) | Is a signed invoice read-only? | as `invoice_concurrent`, 2 signatures |
| `invoice_clone_terms` (violated) | Must the terms be accepted again for a cloned text? | 1 request, 2 texts, 2 signatures, 2 ticks |
| `order_creation` | Do overlapping orders and lead edits implement `OrderBook`, leave all or nothing, retry only when another made progress? | 3 requests, 2 leads, 2 attempts, 2 days, 1 fault |
| `order_answers` | Is every request answered? | 3 requests, 1 lead, 2 attempts |
| `orders_list_fresh` | Is a list as new as the last invalidation before the question? | 2 readers, 2 writers, 3 writes, lifetime 2; get, set, bump and writers may fail |
| `orders_list_expiry` | Do old lists go away whatever fails? | 2 readers, 1 writer, 2 writes, lifetime 2, everything may fail |
| `website_intake` | One record per submission, and every attempt answered? | 3 attempts, 2 submissions, 2 losses |
| `website_leads` | One conversion, made by the owner, and no inquiry taken from its agent? | 1 inquiry, 2 agents, 1 admin, 2 requests, 1 note |
| `fulfilment` | What survives any overlap of two requests on a sold order, and what does a lone one leave behind? | 2 requests, 2 shipments, 2 additional costs, 1 failing call; amounts chosen so that no two sums agree by chance |
| `workspace` | Do settled pages show what is stored, send what belongs to the record they show, list what was chosen, and unlock? Do the layers of a form agree? Does the badge catch up? | 3 to 6 calls per page, 1 per form and per query (`MCCalls`), 1 fault, 2 versions of a row |

Why the bounds are enough to be of use. Each of these races is between two
requests on one row, so two requests on one invoice and one inquiry meet all of
them; orders get a third request because a retry needs a winner, a loser and one
more that may beat the loser again. Two attempts are the least with a retry and an
exhausted one; the code has five, and the theorems hold for any number. One
signature is enough for the overlap run, since each race on it is between that
signature and another request, and the serial run has two. Two readers and three
writes give a slow reader that stores under an old version while a newer one is
asked for. `fulfilment` has about a million states with two requests on one order,
the pair every hazard of these services is about; its initial states contain sold,
delivered and refunded orders, so that long histories need not be replayed. The
calls of `workspace` are enough for an operation, the reload that follows it and two
more that meet them; one fault is a lost answer or, where the rows count them
(`others`), a change by somebody else. Two things of the bell are outside of the count:
its poll, of which one is under way at a time, and the refresh that follows a change,
of which each change has at most one. A form makes one call, since the question is
what becomes of one submission: it is opened on every kind of stored row, filled, and
one field, or two that a rule relates, is given each of the values around every limit
that some layer has for it. A query is one call for the same reason; its days reach
over the change of clocks and its todays (days 10, 11, 17, 18, 33 and 34) over the ends
of the ranges of ages. The bounds are guards of the model (`Max...` constants), named in each
module; a bound that is reached stops the action, so deadlock is not checked
where requests run out (`CHECK_DEADLOCK FALSE`), and is checked for the cache.

Two runs are disagreements between the code and what it says of itself.
`update`, `issueSignatureRequest` and `signWithToken` check the status they read and
then update the row by its id alone, so an overlapping request slips in between
(`invoice_read_only`; the same cause lets a resent link make a signed invoice
pending again and a second signature replace the first); `WebsiteLeads` shows the
remedy in the same repository, an `updateMany` that repeats the check. The other is
`cloneSignedInvoice`: the acceptance of the terms is compared with EDITED events
only, and a clone records CLONED. `WebsiteLeads` loses two smaller races of the same
kind, which are listed as hazards and forbidden by no property: a note of an agent
from whom the inquiry was just taken, and an assignee disabled between the check and
the update.

Fairness. `order_answers` assumes that a request whose next step is possible takes
it (`WF` on `Handle(r)`): Node runs every resolved promise and PostgreSQL grants a
lock whose holder left. Faults have no fairness. `orders_list_expiry` assumes that
reads in progress continue and that time passes (`WF` on `ContinueRead(r)` and
`Tick`); nothing makes a writer bump or a user read. `website_intake` assumes `WF`
on the handler alone: the website is not assumed to send anything again. `workspace`
assumes that the interval of the bell keeps firing (`WF` on `BellPoll`:
`window.setInterval` every 45 s and no code that stops it while the bell is mounted)
and that the calls of the bell settle (`WF` on `BellAnswer`: a promise of `fetch` is
resolved or rejected); nothing is assumed of users, other calls or the network, and
`BadgeCatchesUp` is claimed only of a bell that stays closed.

## 5. Proofs

TLAPS proves, for all values of the constants that satisfy the `ASSUME`s of the
modules (bounds are natural numbers, model values are distinct, the inquiries are
finite):

| Theorem | States | Argument |
|---|---|---|
| `TypeCorrect`, `SignedBacked`, `TrailOrdered`, `OneInvoice`, `ReplacedLink` (`InvoiceSigningProofs`) | the invariants and the action property of `invoice_concurrent`, but for the next row | `BackedInv`: a request at "sign" has seen an acceptance, and every event is older than now. `TrailInv`: a request about to write an event of a signature has the earlier one on record. `OnceInv`: only the request whose insert succeeded may record CREATED. |
| `SentTrue` | `SentIsTrue` | `DeliveredInv`: a request that is past the mail gateway, which comes first, has put its link among those delivered. |
| `SerialContract` | `InvoiceSigning` implements `InvoiceContract` when there is at most one request | `SerialInv`: what a request has read is still so. The hypothesis is needed; the violated runs show what happens without it. |
| `OrderTypeCorrect`, `OrderBookImplemented` (`OrderCreationProofs`) | order creation implements `OrderBook` | `BookInv`: the suffixes of a day are an interval (`NoGap`), a transaction's number was the next one at its snapshot (`NumberDrawn`), and no two transactions hold one key or one lead (`Locks`). |
| `CreationAllOrNothing` | `AllOrNothing` | `AnswerInv`: what each request's step says of the tables. |
| `RetriesMeanProgress` | `RetryMeansProgress` | `ProgressInv`: no row and no snapshot is ahead of the clock, and a number that was read and is in use by now was committed after the snapshot, so whoever is refused was overtaken. |
| `CacheTypeCorrect`, `ListsAreFresh` (`OrderCreationProofs`) | `InvalidatedWritesAreSeen`, when `Unreliable` contains neither "version" nor "memory" | `FreshInv`: an entry of the current version, and a list being loaded for it, reflect all writes up to `floor`. Without the hypothesis only the lifetime bounds the age: a version that cannot be read is taken to be 1, and a Redis that lost its memory counts from 1 again. |
| `IntakeTypeCorrect`, `OneRecord` (`WebsiteLeadsProofs`) | the invariants of `website_intake` | `IntakeInv`: an attempt about to commit holds its key, which no row and no other such attempt has (`HoldsKey`); one about to answer knows a committed row of its submission (`KnowsRow`). |
| `LeadsTypeCorrect`, `LeadsMadeByOwner`, `InboxImplemented`, `AgentsKeepInquiries` (`WebsiteLeadsProofs`) | the properties of `website_leads` | `InboxInv`: leads and rows name each other, and a conversion about to commit holds an unconverted row that its user owns, alone (`CommitsOwnRow`). Every step is reduced to one of four effects (`Effect`): nothing, a write of an open row, a commit, a deletion of a user. |
| `RequirementsAlwaysMet`, `BoughtPartsHaveSheets` (`FulfilmentProofs`) | the two invariants of shipments | `ShipmentInv`: no step takes from a shipment what a check of another request saw (`Later`), so what `InsertShipment` and `WriteStatus` were allowed is still allowed when they write. |
| `RefundDetailsAlwaysAgree` | `RefundDetailsAgree` | `OrderInv`: the fields an edit is about to write agree with each other, and so does the intake it has read to merge them into (`EditChecked`). |
| `FulfilmentTypeCorrect` | `TypeOK` | `TypeInv`: what each kind of request carries at each step is typed (`CallTyped`) and rows are never removed (`Grows`). That the sum of the additional costs is a number needs an argument of its own (`SumIsNatural`): a least set of indices without a sum would have a smaller one. |
| `LoneRequestsBalance`, `LoneRequestsTouchOnlyGiven`, `LoneRequestsKeepRules`, `LoneCostChangesAreLogged`  | the four action properties of `fulfilment` | `LoneInv`: at most one request is alone, and then every other has ended (`Solitary`); what it has read is what is stored (`Informed`). Each step is an arrival or a move that writes only what its service writes (`Acts`), so each property is a fact about the few actions that write. |
| `SignedDocumentAlwaysCurrent`, `SuccessAlwaysTrue` (`StaffPageProofs`) | the two invariants of the signing page | `SigningInv`: at most one call is under way and the page waits for it (`Waits`); a text whose terms this page accepted through the present link is the text in the row until it is signed (`Current`); an invoice that was answered as signed names the signature of that text (`Honest`). Steps of staff and of another device keep both (`Follows`). |
| `NeverAnEmptyPage`, `SettledTablesAreCurrent`, `ExportsSelectTheList` | `NoEmptyPage`; the conjuncts `SettledTableIsCurrent` and `ExportSelectsTheList` | `ListInv`: the answer whose number is the page's own is for the filter and the page number on the screen, and is no older than the last save the page knows of; every change of the filter or the page number begins a load with a new number. |
| `EmailsStayWithAccount` | the conjunct `EmailStaysWithAccount` | `UsersInv`: the form holds the email of the account that is selected, whatever answers replaced the list, and a call that saves one is sent to the account it was taken from. |
| `AmountsAlwaysStay` | the conjunct `AmountsStayWithShipment` | `CostsInv`: the number of a load only grows, so one that answers under the number of the page is about the shipment chosen; a call that saves amounts is sent to the shipment they were read for. |
| `NotesAlwaysBelong` | the conjunct `NotesBelong` | `NotesInv`: the same of the list of notes, and a note that is added is about the entity that the page showed when it was written. |
| `StoredAdditionalStaysSum`, `SettledShipmentsAreCurrent` (`OrderPageProofs`) | `StoredAdditionalIsSum`; the conjunct `SettledShipmentIsCurrent` | `ShipmentInv`, which is `Quiet` while nobody else wrote, no answer was lost and no reload met a status call: at most one load or save of costs is under way (`OnceOf`), and the card stays locked from a save until the row is loaded again, so a load finds what is stored and a base edit carries the stored sum (`ShownRowSound`); a status call remembers or brings the stored row (`ShipmentCallSound`). |
| `OfferedModelsBelong`, `NextNumberIsShown` | the conjuncts `ModelsBelongToMake` and `NumberShownIsNext` | `CreateInv`: a lookup that carries the run of the form is about its make (`LookupSound`, `ModelsOffered`); while nobody else creates orders and nothing is lost, the number of an answer under way is the next one unless this page has just created an order, and then its form is closed (`NumberKnown`). |
| `DashboardAlwaysShowsChoice` | the conjunct `DashboardShowsChoice` | `DashboardInv`: only the call of the last effect carries the number of the tracker, and it asks for what the choices say (`EffectSound`); a tab at rest holds its answer (`TabSound`). The rows may change and the day may not (`DayStands`). |
| `SettledOrdersAreCurrent` | the conjunct `SettledOrderIsCurrent` | `OrderInv`: the answer that carries the page's own number is the stored order, unless this page changed the order meanwhile; then the change is still to be reported to the page (`Unreported`), which will load again, or a load under the new number is on its way (`Reloaded`). Only a page with neither has to show what is stored (`OrderQuiet`). |
| `SettledLeadsAreCurrent`, `LoneLeadRequestsSucceed` | the conjuncts `SettledLeadIsCurrent` and `LoneRequestAllowed` | `LeadInv`, which is `LeadQuiet` while nobody else wrote and no answer was lost. On the page of a CRM lead an answer of the last generation is the stored row and the stored notes, unless a status call met the load (`CrmCallSound`). On the page of an inquiry at most one save and one conversion are under way; what is under way will be allowed (`OwnedBy`), and a stored change is either on the screen or in an answer not yet taken (`InquirySound`, `Unheard`); after a conversion only leaving the page remains. |
| `NoLocksOutliveTheirCalls` (`PageLockProofs`) | `NoLockOutlivesItsCall`, of every page | `LocksInv`: each lock a page holds is opened by the continuation of a call under way that the page still heeds (`Opens`), or needs no call (`Alone`). Backend and network only take calls further (`Advances`); each step of a page hands its locks on to calls that it makes or that stay (`Passed`), so a lock whose call answers is either released by that step or taken over. |

What the theorems about `Fulfilment` assume of the constants is what the code lets
in: the bodies of requests are typed as the DTOs validate them (`EditInputsAssumption`,
`StatusInputsAssumption`, `CostInputsAssumption`), and the first state is one that
requests which were not cut off leave (`InitialAssumption`): rows of the right types,
a sheet for every part that was bought, refund fields that agree. Nothing is assumed
of how many requests overlap, where they fail or what a lone request finds balanced.

`StaffPageProofs`, `OrderPageProofs` and `PageLockProofs` prove the pages inside
`Workspace`, of any tab, from the lemmas of `WorkspaceProofs`. No action changes
`mounted` (`StaysMounted`), and every step is one of its page (`OnSigning`, `OnList`,
`OnUsers` and so on for all fifteen), so each
invariant has to be kept by the actions of one page. A page moves `calls` in few ways - calls are added at the end, performed,
answered or lost - and lemmas say once what each leaves alone (`AskedMore`,
`ServedCalls`, `LostCalls`, `FurtherOn`, `ReplacedCall`). The bounds `MaxCalls`,
`MaxFaults` and `MaxWrites` are arbitrary there.

Only model-checked: all liveness (`EveryRequestAnswered`, `OldListsExpire`,
`EveryAttemptDelivers`, `BadgeCatchesUp`), which is outside of what the prover does
and stays with TLC for good, and of `workspace` the conjuncts that the table does not
name: `SettledBellIsCurrent`, `SettledAccountsAreCurrent`,
`NotesComplete`, `SettledDashboardIsCurrent`, `ReportsAgree`, `SettledNotesAreShown`,
`SavedFormIsShownAgain`, `PreviewIsStored`, `DetailsShowWhatIsStored`,
`ListedMatchesChoice` and those of `LoneWorkSucceeds` but `LoneRequestAllowed`. The forms, `OrderViews`,
`ListQueries` and the reports are finite tables of cases, which a run evaluates
completely; the others could be proved about in the same way and are the next step of
the plan.

## 6. Not modelled

Tracking, appconnect, RingCentral and vehicle lookup only read; releases is one
upsert; the order jobs are logged and nothing depends on them; the bytes of the
workbook, the wording of mails and SMS, layouts, navigation, styling, session cookies
and the deployment tools change no shared state. `DashboardContent.tsx` is rendered by
no page.

Inside the modelled services these are left out: the wording of notes and mails, the
hash of a list's query (each query has a key of its own), the content of a signature
image, tokens and the hashes of passwords, and touching a lead's time by a note.

Of the pages: keystrokes that are followed by others (a form is typed into in one or
two fields), the drawing of a signature, the compression of photos, the load of a
stored photo ID, the sorting that the user of the dashboard chooses and its search, and
years and parts of the vehicle lookup. A query has one filter of texts and one of days
at a time, not all of them at once. A refresh of the bell reads list and count in one
step of the backend, where the code sends two calls and awaits both.

## 7. What modelling showed

Besides the two violated runs and the races named above, the models had to be
written around behaviour that a reader may not expect. None of it contradicts a
statement of the repository; each is in a model as it is in the code, or is an
exclusion named at a property.

Lists and filters:

- `useTableDateRange` builds a new range at every render, and four pages memoize their
  query on it: with "Last week" or "Last month" the end of the range moves with every
  render and the table reloads without end. The page of website leads memoizes on the
  parts of the range and does not.
- "Converted" together with "not touched for N days" lists open leads: the second
  filter overwrites the condition of the first (`leads.repository.ts:349`).
- A search of one to nine digits is taken for a whole sales number, so a piece of a PRO
  or order number finds nothing; a search of more than 160 characters is dropped by
  three proxies, which list everything, and refused by the website leads; the name of
  an advisor is compared by case for orders and shipments only.
- A shipment cancelled in a live order shows "Cancelled" and is found by no status; the
  filter SHIPPED lists refunded orders, whose cell says "Refunded".
- Custom ranges are days of the browser, those of website leads Pacific days; the age
  of a shipment is shown from the date of the order and filtered from its creation.

Forms:

- The editor of an order can set REFUNDED or CANCELLED without the record of a refund;
  the page then shows a full refund. Going from PARTIALLY_PAID to CONFIRMED keeps the
  partial payment, which the export counts and the pages do not.
- Four gaps between layers (`KnownRefusal`): an address of more than 160 characters when
  an account is edited, an emptied reason on the page of a replacement, the fraction of
  a cent in a hidden purchase amount, an invoice of more than 9999 pieces.
- An amount whose product with 100 is no integer in floating point (0.29, 1.1, 19.99)
  is refused by most schemas; a sum of additional costs like 0.20 + 0.35 makes the form
  of base costs impossible to save, the one kind of row that `StoredFitsForm` leaves out.
- An emptied amount on the card of the gross profit or in an invoice is stored as 0, an
  emptied field of most other forms keeps what is stored, an emptied text of a
  replacement clears it. A typed shipping amount of 0 means "keep".
- A shipment that is SHIPPED opens its form with carrier, BOL, pickup and amount empty.

Money and details:

- The costs service computes the profit without the fee of 2 % that the shipments
  service takes off, and the note of a refund ignores it too; the pages round the fee,
  the export rounds the result and the dashboard neither, which stays within a cent.
- The entry "Order created" of a timeline shows the present status as the initial one.
- A comment that a user begins like a program ("status:") lands in the wrong timeline;
  a change of a replacement that keeps its status is in no timeline of two pages.
- A note of a shipment written while the page still loads is dropped by that load.
- The tracker of replacements whose list failed to load, or that was unmounted while it
  saved, offers to create a second replacement, which the service accepts.
