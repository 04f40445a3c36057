# A verification project for bi-backend

TLA+ models, TLC runs and TLAPS proofs for **bi-backend** (the *PiLens* API), a
multi-tenant CRM and BI server: NestJS request handlers over PostgreSQL (Prisma), Redis
caches, BullMQ queues and scheduled jobs. One Node process runs many requests at once, and
the code almost always follows the pattern *read, check, `await`, write*. The questions
worth asking are therefore about what happens between the read and the write.

Source paths are relative to the repository; `src/modules/...` is the NestJS tree.
`PROJECT.json` holds the machine-readable form of this document: components, runs,
mutants, the map from definitions to source lines, findings, hazards, theorems.

1. [Inventory](#1-inventory)
2. [Modules and how they correspond to the code](#2-modules-and-how-they-correspond-to-the-code)
3. [Runs, bounds, fairness](#3-runs-bounds-fairness)
4. [What is proved](#4-what-is-proved)
5. [Finding](#5-finding)
6. [Known gaps: divergences that no run shows](#6-known-gaps-divergences-that-no-run-shows)
7. [Not modelled](#7-not-modelled)
8. [Plan](#8-plan)

## 1. Inventory

### 1.1 What everything shares

| Part | Behaviour that the models use |
|---|---|
| PostgreSQL through Prisma | One statement is atomic. `$transaction` is READ COMMITTED unless the call says SERIALIZABLE; a unique violation aborts the surrounding transaction; a row written and not yet committed is locked for writers and invisible to readers. |
| Tenant scoping (`src/core/prisma/tenant-scoped.extension.ts`) | Adds `tenantId` to every query of the scoped models, hides removed rows from reads, turns `delete` into an update of `deletedAt` **sent through the base client**: inside a transaction it commits on its own. Updates by id do reach removed rows. All models here live inside one tenant. |
| Redis lists (`*-cache.service.ts`) | A list is stored under a hash of its query, without expiry, and is deleted by the writers' `invalidate()`, a scan over a prefix. Roles are cached with an expiry. |
| BullMQ | A job runs at most twice when its worker stalls; a job that throws is failed at once (no `attempts` are configured). |
| Audit log | Written after the change; nothing reads it back to decide anything. Left out. |

### 1.2 The components

| Component | State and operations | Interactions | Hard behaviour | Correct when | Modules |
|---|---|---|---|---|---|
| **Stock** (`stock-items`) | `StockItem.quantity` per warehouse, `Product.avgCost`, `StockMovement` ledger; increase, decrease, transfer, sale of a quote, nightly holding cost | the sale runs inside the quote's transaction | SERIALIZABLE endpoints with retries beside a READ COMMITTED sale and a job of two plain statements | the ledger adds up to the rows; a request acts once; a purchase adds its cost | `Stock`, `StockOps`, `StockAtomic` |
| **Quotes** (`quotes`) | status, items, history, revision count; update, approve, reject, remove | sells stock, opens a sales order and a post-sale case, queues a survey, notifies | status checked outside the transaction that writes; items replaced under READ COMMITTED; rollbacks, deaths | sold once; an order exactly when sold; items always those of a committed request | `QuoteLifecycle`, `QuoteWorkflow` |
| **Document numbers and creation** (`quotes`, `projects`, `sales-orders`, `purchase-orders`) | day counters that are counts of rows; create with retries, idempotency keys | approvals create sales orders inside their own transaction; imports bring numbers of their own | counting races, unique violations, removed rows, double clicks | one document per create, failure only on a crowded day | `DocNumbers` |
| **Spreadsheet imports** (`*-import`) | rows created one by one from maps read once | master data, quotes' numbers | maps that go stale, files imported twice, failures half-way | every row reported as what became of it, once, and nothing of a record lost | `Imports` |
| **Order fulfilment** (`sales-orders`, `purchase-orders`) | item quantities, cancellations, status computed from them; item replacement, removal | sales orders of a quote show the quote's items | item and status are separate statements with a read between; replacements overlap | items keep bounds, are never lost; the status fits after a change that ran alone | `OrderFulfilment` |
| **List caches** (`*-cache.service.ts`, `cache`) | Redis keys; read-through fill, invalidation, clear button, query TTL | every writer names the lists it clears | a fill beside a write; a writer that dies before it clears; writers that clear too little | a list is stale only through a racing fill or a death; query results age out | `ListCache` |
| **Post-sale** (`post-sale-cases`, `public-surveys`, two jobs) | case dates, the survey and its link, answers, queue, reminders | opened by sales; mails a link to the customer; public endpoint | two tables written one after the other by a job, a customer and a salesperson; stalled jobs; daily scan | an answered survey has feedback; the customer has the live link; one reminder | `PostSale` |
| **Sessions and password reset** (`auth`) | access and refresh tokens, reset links, the mark of a changed password in Redis | mail, guards | two uses of one link; a refresh that crosses a reset; Redis failing open | a link works once; older sessions end | `Access` |
| **Users, roles, permissions, guards** (`users`, `roles`, `core/guards`, `core/permissions`) | users, roles, grants, the cached roles; the decorators of every route | sessions, modules of the tenant and of the pages | decisions taken from copies of copies; the last administrator; removed roles | the copies end in their time; a tenant keeps an administrator; every permission asked for can be granted | `Access`, `Routes` |
| **Option lists, warehouses, product lists, bank groups, templates** (17 services) | small lists with default flags, images, users of a row | forms, open screens, object storage | defaults moved by overlapping transactions; row and object written apart; counted, then removed | one default, a row's image is stored, no orphans | `OptionLists` |
| **Calendar, shares, interactions, notes, reminder jobs** (`calendar-events`, `calendar-shares`, `interactions`, `notes`, three jobs) | events, attendees, answers, viewers, last contacts, reminders, stamps | notices, mails | attendees computed from a read before the transaction; jobs that act before they stamp | answers kept, everyone told, nobody reminded twice | `Agenda` |
| **Messages** (`messages`) | letters and what each side has put away, thrown away or read | reports of events, notices | a change of a conversation beside a new message | new mail stays new | `Messages` |
| **Tenants, platform administration, demo accounts** | modules of a tenant and of a page, trials | guards | an assignment in two statements | a page stays closed to those without its modules | partly, in `Access` |
| **Projects** (`projects`) | status, responsible users, linked quotes | quotes, purchase orders | links in two tables | | creation in `DocNumbers`, lists in `ListCache` |
| **CRM master data** (`accounts`, `contacts`, `opportunities`, `products`) | rows, soft deletion | caches, imports | little beyond caches and imports | | sides in `Imports`, `Agenda`, `ListCache` |
| **Notifications and realtime** | rows, sockets | everything | delivery best effort | | sides in `Agenda`, `OptionLists` |
| Data sources, datasets, queries, reports, alerts | definitions, ingests, scheduled reports | cache, queues | ingest beside column edits | | cached results in `ListCache` |
| Drawings, surveys' questions, chat bot, exports, files, mail, PDF | single-row documents, outside services, output | | | | not modelled (section 7) |

The hazards that the properties watch are the list `hazards` of `PROJECT.json`, each at the
line where it bites; those that no property covers, because the code does not meet them, are
the known gaps of section 6.

## 2. Modules and how they correspond to the code

```
StockOps <-- Stock --(refinement)--> StockAtomic     QuoteLifecycle --(refinement)--> QuoteWorkflow
DocNumbers <-- Imports        Routes <-- Access      Agenda <-- Messages
OptionLists     ListCache     PostSale     OrderFulfilment
proofs:  StockProofs QuoteProofs ListCacheProofs FulfilmentProofs (PostSale, OrderFulfilment)
         ListProofs AccessProofs TeamworkProofs (Agenda, Messages) ImportProofs (Imports, DocNumbers)
runs:    MCStock MCQuote MCImports MCCache MCPostSale MCOrders MCLists MCAccess MCTeamwork
```

(`A <-- B`: B extends A.) Conventions: a request is a record with a program counter `pc`;
one action is the part of a handler between two points where another request can get in (a
statement, a commit, a call out); a request that `MayCrash` may die at any of those points,
and an open transaction is then rolled back. Each MC module only declares model values and
what is offered. Definitions marked *Mutant of X* are plausible bugs; no specification uses
them. Their use is to show that each property can fail: with X replaced, the named run must
report a violation. Three fields exist for the properties and no action reads them:
`alone`/`lone` (a request that overlapped no other), and ghosts such as `late` and
`outdated` that remember in which window something happened.

**`StockOps`** is the arithmetic: what a request adds to which row (`Effect`), what a
transaction reads and writes, and the moving average with the rounding of a
`Decimal(…, 4)` column (`Wac`). **`Stock`** is `stock-items.service.ts`: `Begin`, `Commit`,
`Refuse`, `Retry` are a run of `runSerializableStockWrite` (its retries included),
`SaleRead`/`SaleWrite`/`SaleCommit` the loop of `decreaseForQuoteSale` inside the approval,
`JobRead`/`JobWrite` the holding-cost job. An open SERIALIZABLE transaction keeps its
snapshot and the set of rows committed since (`changed`); PostgreSQL's decision is
`Conflict`: it must fail when another SERIALIZABLE commit invalidated a read or anybody
changed a row it writes; `Unlucky` lets it fail for no reason. `ledger[w]` is the sum of
`newQuantity - previousQuantity` over committed movements. **`StockAtomic`** is the
promise: each request acts once, in one step.

**`QuoteLifecycle`** is `QuotesService.update/approve/reject/remove`. `ReadQuote` reads and
checks, `FindItems` and `ReplaceItems` are `deleteMany` and `createMany` (READ COMMITTED:
the delete takes what its snapshot found, waits for rows another update has deleted, and
skips those that are gone), `WriteUpdate`/`WriteApproval` run from the row lock to the
commit with the sale, the order and the history, `RejectStatus`/`RejectHistory` are reject's
two statements, `Afterwards` queues the survey and sends notices. An item list is named
after the request that inserted it. **`QuoteWorkflow`** is the promise of the status menu.

**`DocNumbers`** has the day's documents and the creates; `Count` and `Insert` are separate
statements, `Retry` another attempt, `Recover` the search for the winner under a
`clientRequestId` or a quote id, `FollowUp` the post-sale case of a sales order and the
responsible users of a project. **`Imports`** extends it with the five imports. A file is a
sequence of lines, of which only what decides is kept: whether it passes the checks, the
name, the tax number or e-mail, the firm, the person, the unmapped columns. `Load` copies
the table into the two maps, `FirmFound`, `ContactFound`, `ProductFound` and
`InteractionFound` are the lookups in them (a map keeps the *last* record of a name),
`WriteRow` the update or insert, with `Noted` putting the result back into the maps;
`FindFirm`, `OpenFirm`, `FindPerson`, `AddPerson` find or open what a line names. Quotes
look their number up in the database, row by row, each in a transaction (`FindQuote`,
`WriteQuote`), and become rows of the day's documents. `OffersAssumption` says what an offer
is: files are sequences of lines, and records that are there before have primary keys of
their own.

**`ListCache`** abstracts a row to the version of its table and a list to the versions of
the tables it shows (`Shows`, from the `include`s of the list queries). A writer is a
program of stages, each committing to some tables and then clearing some lists in any
order; the programs (`SaveQuote`, `ApproveQuote`, …) are read off the services one by one.
A fill reads its tables one statement after the other (`LoadRows`) and stores at the end.

**`PostSale`** has the case and survey rows, the queue with its worker
(`TakeJob`…`EndJob`, `JobStalls` for a stalled job that runs again), the public endpoint
(`OpenLink`, `StoreAnswers`), `markFeedback` (`ReadCase`, `MarkCase`, `MarkSurvey`) and the
daily scan (`FindDueCase`, `Notify`, `RecordReminder`). A date is represented by who wrote
it.

**`OrderFulfilment`** is one sales or purchase order. `BeginItemChange`, `WriteItem`,
`ReadBack`, `WriteAutoStatus` are `setItemDeliveredQuantity`/`setItemReceivedQuantity`/
`setItemCancelled` and `syncStatusWith…State`; `BeginStatus`, `WriteStatus`, `ReadActive`,
`MarkItem`, `EndMark` are a status set by hand and `markActiveItemsFully…` (one statement
per item, `Promise.all`, in any order); `BeginReplace` … `InsertItems` are an update of a
purchase order with items, in which a title is written first and locks the order's row.

**`OptionLists`** writes the pattern of seventeen services once. Each service is a record
(`Brands` … `Avatar`) of what differs: is a name unique, is it stored in capitals, which
requests move the default, does an update without the flag keep it, are there images, does
a change go to the open screens, and what becomes of the rows that refer to a removed one.
A behaviour picks a list. `SeeOthers`, `LockOthers` and `Write` are the READ COMMITTED
transaction that clears the other defaults (the rows of its snapshot, locked as they come
free, rechecked) and sets its own; `PutObject` and `DeleteObject` are the object store,
outside any transaction; `Count` and `Remove` a removal; `Use` an insert elsewhere that
names the row; `ReadList` and `Push` the list sent to the screens. `torn` remembers the rows
where a request died or failed between the object and the row, or two crossed.

**`Routes`** is what the controllers ask: one definition per controller, the set of the
distinct combinations of its decorators, and `PageRegistry`, from which permissions are
`Offered`; `CanGrant` is what the requests that save a role accept: the actions of their
schema, on a page and a tab that the service knows. **`Access`** is the chain that decides who gets in. Time is counted in ticks, and
every copy has its life (`AccessTTL < MarkerTTL`, `CacheTTL`, `LinkTTL`, `TrialTTL`): the
roles are copied into the access token by `Sign`, a role into Redis by `LoadRole` and
`StoreRole` (two steps), the date of a changed password into Redis by `Mark`. Sessions:
`BeginLogin`, `Stamp`, `BeginRefresh`, `Sign`, `Logout`; resets: `NewLink`, `BeginReset`,
`Hash`, `Claim` (the conditional update, with the password, in one transaction), `Mark`;
administration: `BeginAssign`/`Assign`, `BeginActivate`/`Activate`, `InsertUser`, `Edit`,
`CountRoles`/`Delete`, `SetModule`, `ClearPage`/`FillPage` (two statements); and the guards
of one call in the order of `app.module.ts`: `CheckToken`, `CheckPermission`, `ReadPage`,
`CheckModule`, `CheckWho`. A role that is cached when the call arrives and one that is not
are different steps; Redis may fail where the code lets it.

**`Agenda`** has the events with their attendees (a seat per user: made by which request,
its answer, the mails each user got for it), `BeginUpdate`/`Update` with the attendees it
read first,
`BeginRespond`/`Respond`, shares (`Grant`), interactions (`BeginTalk`, `Talk`, the last
contact moved forward by a comparison with the one read before), notes with their one
reminder (`FindReminder`, `SetReminder`; the note's own row is a lock only if the request
writes it; `RemoveNote` and `RemoveReminder` are two commits), and three jobs: the digest
(`Look`, `Insert`), the mails (`Pick`, `Send` with the copies to the others who have
accepted, `StampSeat`) and the inactive contacts, one after the other (`Alert`, `Stamp`). A
digest, a mail or its stamp that fails leaves the run going on with the next one; an alert
or a stamp of a contact that fails (`AlertFails`, `StampFails`) ends the run, after some of
the users have been told, and leaves the other contacts for the next day. `alerts`, `mails`
and `failed` count for the properties: what each user got, and how often it failed. Notices
are inserted after the commit, one by one (`Tell`). `Crash` ends all requests of the server
at once. **`Messages`** adds one conversation: `Write`, with recipients and those in copy,
and `MarkSeen` for the changes that a user makes to all messages he saw.

## 3. Runs, bounds, fairness

| Run | Instance | Shows |
|---|---|---|
| `stock_endpoints` | 3 requests, 2 warehouses, no sale, no job | the ledger adds up, a purchase adds its cost up to rounding, the endpoints implement `StockAtomic`, every request is answered |
| `stock_all` | 2 requests, a quote sale of two lines, one job run | rows that no sale wrote still add up; a transfer makes and loses nothing |
| `quote_race` | 2 requests at a time, all endpoints, rollbacks and deaths | stock sold at most once, an order exactly when sold, items always committed ones, history has the status, every request ends |
| `quote_sequence` | 3 requests, one after the other | one item list, and `QuoteWorkflow` is implemented |
| `quote_settled_reopened` | 2 requests | **violation** (section 5) |
| `creates_and_imports` | 3 creates of 5 kinds with one key, removals, deaths; or 2 imports of files of 1 or 2 rows of one kind, with removals and deaths; or imports of quotes beside a create | failure only when crowded, one document per create, an import that ran alone wrote each row once and reported the others, the same file again adds nothing, columns are kept |
| `cache_writes` | 1 list request, 2 writers, 6 endpoints, 3 lists, deaths | only racing fills and deaths leave a stale list; query results age out |
| `post_sale_case` | the sale's job, 2 sends, 1 submission, 1 mark, 2 deaths | an answered survey has feedback, the customer has the live link, due cases are reminded in the end |
| `orders_overlap` | 3 requests, 2 overlapping, 2 items, deaths, both kinds of order | a lone change leaves the fitting status whatever came before, a lone full delivery leaves no item short |
| `lists` | 2 requests on any of 17 lists, 3 rows, 2 labels, 2 formats, deaths | no orphans but those in the window, a lone mark leaves one default, rows name stored images but for crossings, deaths and failures between object and row |
| `access` | 3 requests, 2 at a time, 2 administrators or users, 2 custom roles, ten groups of operations, up to 4 ticks | the seven properties of `Access` |
| `teamwork` | 2 to 4 requests, 2 at a time, 3 users, 2 events, 2 contacts, twelve groups of operations, up to 4 days, deaths of the server, failing mails, alerts and stamps | the seven properties of `Agenda` and `Messages` |

**Why these bounds.** The races of this code are between a read and a write of one request
and the commit of another, so two overlapping requests meet them; the third request is
there for what comes *after* a race (a retry of a retry, a repair, a replaced item under an
old check, a call with the token that was refreshed). The named bounds are `MaxRetries`,
`MaxAttempts` (2 where the code says 3 or 5, 1 for an approval: one try and one retry
exercise both ends of the counter), `MaxOpen` (how many requests overlap), `MaxRequests`,
`MaxCrashes`, `JobRuns`, and in the offers `last` (ticks or days) and `most` (requests).
Quantities are few because only their order and their sum matter; unit cost 5 against
average 2 makes the average round. `cache_writes` picks the six writers whose programs
differ in shape. Files of two rows hold the case that matters, two rows about one record;
the third row would meet what the second import meets.

Two contacts, one of whom may be met and one never, are what a failed alert needs to leave
one undone; four days hold a silence, its alert, a talk and the next silence with a
threshold of one day.

**Offers.** `Access`, `Agenda` and `Imports` have too many operations to let any three of
them meet. A behaviour of theirs begins by choosing an offer: the operations it may use,
who acts, where it begins. Each group holds the operations that touch a common row, and
every operation is in one at least. The lives of the copies are small numbers in their
true order: `AccessTTL = 2` ticks and `MarkerTTL = 3`, as 15 minutes are to 20. A request
of `Access` lasts less than two ticks and one of `Agenda` does not last over midnight: real
ones take well under a second, against ticks of minutes.

**Symmetry** is used where no liveness property is checked and the requests are
interchangeable (`quote_sequence`, `creates_and_imports` for the imports, `access`,
`teamwork`). `OrderFulfilment` numbers its requests as they arrive instead.

**Deadlock** checking is off where clients may simply stop sending requests, which is every
run. Requests that wait for each other's locks would break `EveryRequestAnswered`.

**Fairness.** The server goes on with a request it has begun (`WF` of `RequestStep`,
`SaleStep`, `Proceed`, `ReadStep`, `WriteStep`): Node's event loop runs whatever promise has
settled, and PostgreSQL answers or fails. The queue worker goes on with the jobs there are
(`WF` of `WorkerStep`), the scheduler starts the daily scan (`WF` of `DailyStep`), Redis
expires what is due (`WF` of `Expire`). Nothing is assumed of clients, customers, rollbacks
or deaths. Strong fairness is used nowhere. `OptionLists`, `Access`, `Agenda` and `Imports`
state no liveness and no fairness: what they promise is about the order of things.

**Types.** The type invariants of `Stock`, `QuoteLifecycle`, `ListCache`, `PostSale`,
`OrderFulfilment`, `OptionLists`, `Access`, `Agenda` and `Messages` are theorems (section 4)
rather than runs; the invariants of `DocNumbers` and `Imports` contain the types they need.

## 4. What is proved

All theorems hold for any values of the constants that satisfy the named assumptions of
the modules; what a theorem assumes beyond them is in its ASSUME and named below. Of the
properties of the passing runs, the theorems state all but those in
*What stays with TLC* at the end of this section.

**`StockProofs`.** The inductive invariant is `StockInv`:

- `LedgerTypeOK`, the types;
- `SnapshotsFresh`: what an open transaction has read is what is stored, except for the rows
  in `changed`, of which it has been told. This is the strengthening that matters. Without
  it the commit's absolute write says nothing about the stored row;
- `UnsoldRowsReconcile`: a row that no committed sale wrote equals its ledger.

A commit that is allowed has no conflict on the rows it writes, so its snapshot of them is
fresh, and row and ledger move by the same amount. From it: `ReadsStayFresh`,
`UnsoldRowsAddUp`, `TransfersMoveStock`, and `EndpointsReconcile`, which assumes
`Sales = {}`: with a sale the claim is false (section 6).

The cost needs `CostInv`, which adds `CostTypeOK` (integers, in units of the column's last
decimal), `CostsFresh` (a transaction's cost is the stored
one unless it was told) and `SnapshotsSerial` (where no sale writes, the whole snapshot is
what is stored unless a SERIALIZABLE commit said otherwise). `RoundDivLemma` and `WacLemma`
bound the error of the rounding and so of the moving average, with the nonlinear steps one
by one. From these

- `StockTypes`, all of `TypeOK`;
- `IncreasesAddTheirCost`, for `Sales = {}`. `Total` is a fold over the warehouses; the
  lemmas on finite sums take it as a function on subsets and go by a least counterexample,
  for which `WarehousesAssumption` says that the warehouses are finite;
- `EndpointsActAtomically`, the refinement of `StockAtomic`, for `Sales = {}` and
  `JobRuns = 0`: a committing request maps to its one atomic step, computed from what is
  stored then, and every other step to a stutter. With a sale or the job the claims are
  false (section 6).

**`QuoteProofs`.** `QuoteInv` = types, `OneSale` (at most one sale; an order exactly when
sold), `ItemsAreCommitted` with what the pending item lists are, `StatusRecorded`. That the
stock is sold once rests on `Sell` looking for the earlier sale under the row lock. From it:
`QuoteTypes`, `QuoteSellsOnce`, `QuoteItemsCommitted`, `QuoteStatusRecorded`.
`QuoteFollowsWorkflow` is the refinement of `QuoteWorkflow`, for `MaxOpen = 1`: the extra
invariant `SeqInv` says that the one open request has read the quote as it is
(`OneAtATime`), and that an open quote is unsold and has no order (`OpenUnsold`). With
overlap the refinement is false (section 5). `QuoteOneItemList`, for `MaxOpen = 1` too,
follows from `OneList`: an update that writes has taken exactly the stored list.

**`ListCacheProofs`.** `CacheTypes`, and `StoredListsArePurged`, which is
`OnlyFillsGoStale` for every value of the constants. The argument (`PurgePending`): each
table a stored list is about stands as when the list was stored, or a writer of that table
still has the key to drop, or has died. It assumes
`Ops \cap Forgetful = {}`: the three writers of section 6 that clear too few lists are not
run.

**`FulfilmentProofs`**, of what follows an accepted quote. For `PostSale`: `PostSaleTypes`;
`AnswersHaveFeedback` (invariant `FeedbackFirst`: a mark that has yet to write the survey
follows its own write of the case, and no one takes feedback back); `CasesRemindedOnce`
(`NoticesCounted`: each notice beyond the recorded one is paid by a death; proved, not run);
`CustomerHasLiveLink` (`LinkKept`, `LinkUnderWay`: the live token is mailed, or the worker or
the queue still has the job that will mail it).

For `OrderFulfilment`, two invariants. `TypeInv` = types, `Fresh` (an item that is still to
be inserted has no change pending: an old check never lands on a new item) and `ChangeFits`
(a checked quantity fits the item for as long as it exists); it gives `OrderTypes`, in
which the bound *fulfilled <= ordered* is the part that could be wrong. `LoneInv` = at most
one request is alone and then it is the only one open, and `Knows`: what a lone request has
computed or read is still so. It gives `LoneChangesFit` and `LoneFullsComplete`, both action
properties. `OrderKeepsItems` is inductive as it stands (proved, not run).

**`ListProofs`.** `ListInv` = `TypeOK` and

- `Kinds`: where a request of each kind can be (a removal of a counted list reaches its
  delete through the count only, a request for a default writes only in its transaction);
- `Solitary`: a request that is alone is the only one open;
- `Cleared`: the rows a lone transaction is about to clear are all the other defaults;
- `Put`: the object of a lone upload is stored, and is not the one about to be deleted, so
  that its write mends a torn row;
- `Images`: a row that is not torn has at most one request on its way to its image, which
  knows the object the row names and has put its own; and the object that the row names is
  stored, unless that request has deleted it and is about to write the row;
- `Counting`: between a count and its delete, what has come to refer to the row is `late`;
- `NoOrphans` itself.

From it `ListTypes`, `ListsLeaveNoOrphans`, `ListsKeepImages`, and the action property
`ListsKeepOneDefault`, which looks at the committing step: `Cleared` is what that step needs
to know of the steps before it, whatever overlapping requests left behind.

**`AccessProofs`.** The inductive invariant is `TypeOK /\ AccessInv`. `TypeOK` includes
`Fits`: what a request carries at each point of its way. `AccessInv` has, beside
`OneResetPerLink` and `AdminRemains`, which are not inductive without the rest:

- `Sessions`: the session that a browser holds is `Live`: from after the last reset of its
  user, or issued while that reset committed, or dated before it, so that `IssuedBefore`
  will refuse it;
- `Known`: what each open request knows stays so while others act: its token is live, what
  it is about to sign will be (`Signable`), the time it took for its reset is not in the
  future, and an administrator does not act on himself;
- `Inserts`: no two open requests create one user (the unique e-mail);
- `Marks`: the mark in Redis is the last reset's and outlives every access token from
  before it (`AccessTTL < MarkerTTL`), unless the row says `unmarked`.

From it `AccessTypes`, `LinksResetOnce` (the conditional update of `Claim`),
`TenantKeepsAdmin`, and the action property `ResetEndsSessions`, which joins `Known` and
`Marks` at the step of the guard. They assume of where a behaviour begins only `Sound`: rows
of their types, an active administrator, no reset yet. The other four:

- `RemovalsKeepRoles` from `Solitary` and `Counted`: a lone removal knows who has the role,
  and then who has no other;
- `PagesStayClosed` from `PagesWhole` and `Guards`: a page that no overlap or death tore has
  the modules it was last given, but between the two statements of an assignment; a lone call
  has read those;
- `AccessEndsInTime` from `Ends`, one part per copy on the way of a right: `Copied` (the
  roles in a token), `Signed` (in a token being made), `Cached` (a role in Redis),
  `Loading`/`Fetched` (a role read and not yet stored, or held by a guard), and `Timely` (a
  request lasts less than two ticks). Each says that the copy is what is stored or is dated
  before the change; whatever changes a row writes the time of the change;
- `RoutesCanBeGranted`, controller by controller (`GrantableAll`), for every route of the
  table but the approval of a quote (section 6).

**`TeamworkProofs`**, of `Agenda` and `Messages` together, under `AgendaAssumption` and
`OffersAssumption` (what an offer is). Each action has a lemma, its *Turn*, that says what
it makes of the request that takes it and which variables it leaves; the invariants are
proved from those. `TypesInvariant` has the types, with what a request carries at each point
of its way. `Fresh`: an event not yet made has no attendees, at most one request is going to
make it, and what requests are at has been made. On these two rest

- `OthersKeepAnswers`: an update replaces attendees, but who stays keeps his answer;
- `NewMailKept` (`MarksSeen`: a change of a conversation names messages that were there);
- `EveryoneIsTold` (`NobodyForgotten`: a notice that is due has been sent, or is in the list
  of the request that owes it, or that request died);
- `LoneChangesCommit` (`Alone`, `UpToDate`: what a lone request read is stored);
- `SilenceIsAlerted` (`OneRunEach`: a job does not run twice at a time; `Checked`, per
  contact: unless a new contact crossed the check, a stamp means an alert to everybody, and
  so does a stale contact that a run has not before it any more);
- `RemindersOnce` (`DigestOnce`: a user who is about to get the day's digest has none yet;
  `MailedOnce`: without a death, a seat with a mail beyond those whose stamp failed is
  stamped or about to be, and what the run has before it has no such mail; `Bounded` in
  `Checked`: nor has a contact more alerts than failures while it is not stamped);
- `NotesKeepOneReminder` (`Orderly`, `Untorn`: two requests at one note both write the note
  itself, so that one is past the lock; what that one has read is the note's reminder still;
  a removed note has its remover, or no reminder).

**`ImportProofs`**, of `DocNumbers` and `Imports` together, under `ImportsAssumption` and
`OffersAssumption`. `DayInv` = `DocsOK` (a create has one document at most; imports insert
quotes only), `NumbersOK` (while no import brought numbers, no number is above the number of
those who inserted) and `ReqOK`, per request: `AnswerOK` (the answer is a document that
exists), `CountOK` (a count is at most the number of those who inserted, and the rivals of a
create are among them) and `CrowdOK` (each failed attempt has met a rival of its own, and so
has the one under way if the number it counted is taken by now: it was free when counted).
It gives `CreatesAnsweredOnce` and `CreatesFailOnlyCrowded`; the sets that are counted are
finite (`FiniteSetTheorems`).

`ColumnsAreKept` needs `ImportInv`: `ImportsOK` (where an import of each kind can be;
`FreshIds`: ids it has yet to give are unused), `RecordsOK` (ids are unique per kind),
`Solitary` (an import that is alone is the only one running), `Copies` (the maps of a lone
import that renamed nothing hold the records as they are stored, and the quote it read is
the stored one) and `UniqueNumbers` (the unique index). A row then overwrites only what it
copied.

**What stays with TLC.**

- Liveness: `EveryRequestAnswered` (`stock_endpoints` and `quote_race`), `QueryResultsAge`,
  `DueCaseReminded`. ENABLED and fairness are beyond the prover.
- `LoneImportComplete`, a statement about all rows of a file at its end. Proving it needs
  what each row passed so far has left in the maps and the records, for both of an import
  and the one before it, and assumptions about the offered files that the run does not need
  (at least one row; rows that can be told apart by the key their kind is looked up with).
- `SettledStaysSettled`, which is false (section 5).

## 5. Finding

**A settled quote can be reopened** (`quotes.service.ts:1726`, run
`quote_settled_reopened`, whose counterexample shows it). "Approved or rejected quotes
cannot be edited" (`:1505`) is checked on a read outside the transaction; an update that
began before an approval puts the approved quote back to an open status after its stock was
sold.

## 6. Known gaps: divergences that no run shows

Met while modelling, with the place where they bite. Where a module contains the behaviour,
the properties are stated around it and say so in their comments.

*Stock and quotes.*
- A quote's sale writes an absolute quantity from an earlier read, in READ COMMITTED
  (`stock-items.service.ts:544`); a stock request that commits in between is overwritten,
  and the row no longer equals the sum of the ledger that `schema.prisma:2050` describes.
  Hence `UnsoldRowsReconcile`.
- The holding-cost job multiplies an `avgCost` read before its loop
  (`apply-stock-holding-cost.processor.ts:95`) and may overwrite an increase;
  `schema.prisma:1213` says only INCREASE changes it.
- The average of a purchase divides by a total that sales may have driven below zero
  (`stock-items.service.ts:455`); `IncreaseAddsItsCost` is checked and proved without sales.
- An update that brings items and APPROVED sells the items it replaced
  (`quotes.service.ts:1677`).
- `reject` writes status and history in two statements (`:1829`); a death between them
  leaves a rejection without its reason. Hence the exception in `StatusRecorded`.
- `revisionCount` is the value read plus one (`:1592`): overlapping revisions count once.
- Survey jobs that an approval queues lack what the processor requires (`:1747`, `:1816`,
  `sales-orders.service.ts:448`), so each of them fails.

*Creation.*
- After a purchase order is removed, creates of that day fail
  (`purchase-orders.service.ts:297`): the count hides removed rows, the unique index does
  not; `quotes.service.ts:1297` explains why it must not.
- The number retries of a purchase order run inside the transaction that the first unique
  violation has aborted (`purchase-orders.service.ts:290-325`), so a retry cannot succeed.
- Two clicks with one `clientRequestId` that also count the same number: if the database
  names the index of numbers first, the loser is answered with an error instead of the
  winner's order (`purchase-orders.service.ts:245`).
- An imported quote may bring a number of today ahead of the count; when the count gets
  there, every create of a quote fails (`quotes.service.ts:1377`).
- A sales order made by hand commits before its post-sale case (`sales-orders.service.ts:437`).
- A registration makes a tenant without the default warehouse that the platform's own way
  adds (`auth.service.ts:92`, `tenants.service.ts:315`).

*Imports.*
- A record that a file renames stays under its old name in the maps of that import
  (`imports.service.ts:294`): a later row with the old name changes it again.
- Two imports, or an import beside a form, open one new firm twice (`:461`); a record
  removed after the maps were read is updated and reported as imported (`:331`).
- Imports of interactions clear the lists of firms and interactions but not of contacts
  (`interaction-imports.service.ts:621`), imports of quotes neither firms nor contacts
  (`quote-imports.service.ts:290`).

*Caches.*
- A fill may store, without expiry, rows read before a write whose invalidation has already
  run (`quotes-cache.service.ts:38`): stale until the next write. Hence the name
  `OnlyFillsGoStale`.
- The public survey answer, the links between projects and quotes, and an account created
  with a contact clear too few lists (`Forgetful` in `ListCache`).
- Joined rows (an account's name in a quote list) go stale; properties speak of a list's own
  rows (`Own`). The clear button (`cache.controller.ts:48`) misses contacts, sales orders
  and query results.

*Post-sale.*
- Two submissions that both found the link unanswered are both stored
  (`public-surveys.service.ts:119`, `:155`), against the refusal at `:125`.
- A submission or mark that was late, after a resend, closes the fresh link; a submission
  overwrites the date of earlier feedback.

*Orders.*
- The synchronised status is written from a read (`sales-orders.service.ts:651`,
  `purchase-orders.service.ts:556`): two overlapping changes can leave a status that does not
  fit the items, and a change that overlaps a cancellation can reopen the order.
- Two replacements of a purchase order's items that do not lock its row first may leave both
  lists. `OrderHasItems` says only that one is left.
- A request that combines items and a status, which the code's comment at
  `purchase-orders.service.ts:474` rules out for its callers, is not modelled.
- The items of a sales order with a quote belong to the quote and may be replaced by it.

*Lists.*
- Two overlapping requests for the default leave two (`warehouses.service.ts:95` and the
  other services with a flag); the next request that runs alone repairs it.
- A removed default leaves a list without one; `ProductLists` and `Warehouses` count and
  then delete, so that a product can be put on a list that is removed in between.
- An upload deletes the object that the row names, a removal of an image or a template too,
  before the row is written (`quote-templates.service.ts:219`, `:250`, `:273`, and the logo
  and avatar likewise): a death, or a statement that fails in between, leaves a row that
  names a deleted object; so may two requests for one image that cross. The next lone upload
  or removal repairs it. Hence the exceptions of `ImagesStored`.
- Two changes of a list push what they read in either order: the older list may stay on the
  screens.

*Access.*
- Two removals of a user's two roles leave him without any (`roles.service.ts:245`).
- A page's modules are deleted and inserted by two statements
  (`page-modules.service.ts:66`): between them, and for good after a crash, it is open.
- Two resets by two links write their marks in either order after they commit
  (`password-reset.service.ts:161`): the older one may replace the newer, and an access token
  from between them is then good for the rest of its life.
- A demoted administrator may act on his old token for one life of it, and so be the end of
  the last one.

- The registry offers the approval of quotes as a permission of a role
  (`page-registry.ts:82`), and approve and reject ask for it (`quotes.controller.ts:214`,
  `:224`), but the schema of a role does not know the action (`role.dto.ts:3`): saving it is
  refused, so that approving stays with the firm's administrators. Hence `QuoteApproval` in
  `EveryNeedGrantable`.

*Agenda.*
- Those in copy of a meeting's report get the message (`messages.service.ts:712`) but no
  notice (`:759`). `EveryoneTold` speaks of those it is addressed to.
- The reminder of each attendee who accepted goes in copy to all the others
  (`send-interaction-reminders.processor.ts:90`): each gets one mail per such attendee.
  `RemindedOnce` counts per seat.
- A mail whose stamp fails is sent again by the next run of that day's reminders
  (`:114`), and an alert that fails for one user has reached others, who get it again on the
  next day (`check-contact-inactivity.processor.ts:94`).
- An alert or stamp that fails ends the run for the tenant (`:34`, `:70`): the contacts after
  it wait for the next day. Hence the exception in `StaleContactsAlerted`.
- Overlapping updates of one event's attendees or of one calendar's viewers add up, or the
  later one fails on the unique index; an older interaction can overwrite a newer date of the
  last contact (`interactions.service.ts:598`).
- A reminder whose event is moved to a later day after its mail is never mailed again
  (`send-interaction-reminders.processor.ts:118`, nothing clears the stamp).
- An event created for today notifies its creator without looking
  (`calendar-events.service.ts:140`), so that digest and creation can tell him twice.
- Two changes of a note that write nothing but its reminder can leave two reminders.

*Everywhere.* A soft deletion inside a transaction is sent through the base client and
commits on its own (`tenant-scoped.extension.ts:162`). It is met by the notes: a crash
between the removal of a note and of its reminder leaves the reminder.

## 7. Not modelled

- **Datasets, data sources, queries, reports, dashboards, alerts**: compilation of filters
  and formulas to SQL, parsing of uploaded files, and pages of settings; what they keep is
  read and written by one statement each. Ingest beside an edit of its columns is the one
  part with a race worth a module (section 8). The cached results are in `ListCache`.
- **Seeds and scripts** (`src/scripts`): data.
- **Tenants**: provisioning of a tenant's default lists, and switching on a module also
  provisioning what it needs (`SetModule` is the switch alone); modules that are always on;
  uniqueness of e-mails over tenants. The deletion of a user's data.
- **Post-sale**: a salesperson who becomes active again; in the model leaving is for good, so
  that one who comes back is reminded of his cases is not shown.
- **Messages**: attachments, starred messages as a box of their own, cached pages. The
  participants of interactions, the texts of notes and surveys.
- **Imports**: previews, the users and type options that an import creates, senders and
  contacts of imported quotes, the log of prices.
- **Projects**: progress and the links to quotes; **opportunities** and the forms of the
  master data: single statements that decide nothing.
- **Drawings, chat bot, exports, files, mail, PDF, exchange rates**: conversions and calls of
  outside services. **Filters, pipes, audit**: nothing that is stored decides by them.

## 8. Plan

Done, in this order: stock, quotes, document numbers, list caches, post-sale, order
fulfilment, option lists, access, agenda and messages, imports; proofs of every safety
property of the runs but one.

Next:

1. Datasets: ingest beside column edits and queries; scheduled reports and alerts.
2. Tenants: provisioning in one transaction, modules that provision on being switched on.
3. Projects and their links to quotes and purchase orders.
4. Compositions: quote approval with `Stock` (one transaction instead of the two views of
   it), imports with `ListCache`, warehouses with `Stock`'s rows.

Proof to add: `LoneImportComplete` (end of section 4).
