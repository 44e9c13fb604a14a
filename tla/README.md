# Verification of loja-automoveis

TLA+ models of `loja-automoveis` (a NestJS server over Prisma and PostgreSQL, and a React site),
the TLC configurations that check them on small instances, and TLAPS proofs of the properties
that matter most. Paths in the text are those of the repository this directory stands beside,
without the prefix `src/`; server modules are below `src/modules/`, the site below
`site-coser-frontend/src/`.

The server keeps its state in one database. A request is an `async` handler that reads and writes
it in several separate calls; a few places wrap some of those calls in a `$transaction`, none
locks a row, and hardly an update is conditional on what was read before. A handler may therefore
be overtaken at every `await`, and dies half-way when a call rejects. The site keeps tokens, a
query cache and a reader's role that the server may change at any time. These are the things that
are hard to test here and that the models are about.

## 1. Inventory

| Component | State | Operations | Hard behaviour | What makes it correct |
|---|---|---|---|---|
| Vehicle stock (`vehicles/stock.service.ts`) | `Vehicle.status`, `soldAt`, `VehicleStockMovement` | `changeStatus`, the status request, `archive` | the row is checked outside the transaction that writes it, and `soldAt` copied from it | movements follow the table, log and status agree, a sold vehicle is dated |
| Vehicles (`vehicles/vehicles.service.ts`) | slug, media, technical sheet with the source of each field | create, update, media and their order, `applySpecs`, `upsertSpec` | slug looked up before it is used; main medium chosen in two calls | one vehicle per slug, one main medium, honest labels |
| Reservations (`commercial/reservations.service.ts`) | `VehicleReservation` | create, cancel | the row is written before the vehicle moves, and the vehicle read again before it is freed | active reservations stand on reserved vehicles, no vehicle is reserved for nobody |
| Sales (`commercial/sales.service.ts`) | `VehicleSale`, `soldPrice` | create, update, updateStatus, complete, markDelivered | `complete` makes six writes and may be asked for twice | a completed sale is booked to the end; books never run ahead of what they rest on |
| Commissions (`commissions/`) | `Commission` (unique per sale), rules and tiers | generateForSale, approve, pay, cancel, adjust | find, then create; a rule on the profit needs the DRE first | backed by a posting, never recomputed, a share of the current profit |
| Acquisitions (`commercial/acquisitions.service.ts`) | `VehicleAcquisition`, `purchasePrice` | create (upsert) | the row, the price and two postings in four calls | the cost of a vehicle is booked as documented |
| Financial entries and DRE (`financial/`) | `FinancialEntry`, `VehicleDre` | automatic and manual entries, removal, `recalculate` | three reads before an upsert that overwrites | the DRE follows from entries, price and commissions |
| Parts and suppliers (`parts/`) | `Part.quantity`, `PartMovement` | create, move, edit, consume, give back | quantities checked or computed from rows read before the transaction | the log explains the stock; nothing leaves that is not there |
| Maintenance (`maintenance/`) | `Maintenance`, `MaintenancePart` | create, add and remove parts, complete, cancel, `recomputeCosts` | `reversed` is set two calls after the stock is given back | costs and books follow the items; no item without a consumption |
| Authentication and sessions (`auth/`, `jobs/`) | `User`, `RefreshToken`, `PasswordResetToken` | register, login, refresh, logout, logout-all, forgotten, reset and changed password, clean-up | read, slow hash, write; revoke and issue apart | a session has one live token; the lock follows the counter |
| Users and RBAC (`users/`, `rbac/`) | status and role | block, activate, roles | block, then revoke | a blocked user has no session |
| Scheduled jobs (`jobs/jobs.service.ts`) | none of their own | e-mail, reservations, documents, dashboards, tokens, deletions, reminders | batches read once, runs that die or overlap | every row that is due is handled in the end |
| Documents (`documents/`) | `Document`, `DocumentVersion` | create, upload, validate, expiry | the version number is counted before it is used | the latest file is served; what is overdue expires |
| Leads (`leads/`) | `Lead`, interactions | specialistContact, updateStatus | the seller is picked by rows read before the insert | leads are shared out and followed up |
| Privacy, consents, favorites (`privacy/`) | consents, preferences, favorites, views, deletion requests | toggle, view, answer, track, request | three writers of one snapshot; lookups before inserts | counters agree, the last answer counts, erased data stay erased |
| Notifications and e-mail (`notifications/`, `mail/`) | `Notification`, `EmailQueue` | notify, enqueue, read, send | PROCESSING, send, SENT are three calls | an e-mail is sent, and once |
| Customers (`customers/`) | customer row, addresses | edits by customer and staff | an edit admitted before the erasure writes after it | as under privacy |
| Employees (`employees/`) | role and status | create, update | the role changes below open sessions, tabs and sockets | nothing shows what the role no longer may see |
| Requests: guards, validation, routes (`common/`, controllers, DTOs) | none | every route | global guards and the whitelist decide what arrives | nothing a page sends is refused or dropped |
| Realtime (`src/realtime/`, `src/redis/`) | sockets in rooms, streams | emit, connect, filter | two rules for one audience, roles that change | an event reaches whom it is for |
| Dashboard and cache (`dashboard/`, `src/redis/`) | cached figures | overview, the five-minute job | an old value cached after it was dropped | an open dashboard catches up |
| Frontend (`site-coser-frontend/`) | tokens, user, query cache, drawers, banner | routes, menus, pages, forms | refresh per call; a mutation names the keys to load again | pages fit the user, forms are accepted, own work shows |
| Reports; store and public catalogue | settings | reads, exports | who may see what | as under requests |
| Audit log; vehicle specifications provider; storage; error format and configuration; seeds | rows, constants, files | append, look up, store | | not modelled (section 7) |

Interaction. Sales and reservations call `StockService.changeStatus` and read the vehicle
themselves before or after it. `SalesService.complete` calls the financial, commission and DRE
services; acquisitions, maintenances and commissions post entries and recalculate the DRE;
maintenances take parts out of the stock. Leads notify, and notifications queue e-mails. The jobs
write the rows of other services by calls of their own. All of it meets in the database. Events
leave the server for sockets and streams, and the site answers them by asking again.

## 2. Modules

| Module | Models | Builds on |
|---|---|---|
| `VehicleStatus` | the status enum and the table `TRANSITIONS` | |
| `Lifecycle` | *abstract*: a vehicle, its status and its date, and nobody at work | `VehicleStatus` |
| `Stock` | `changeStatus`, the status request, `archive` | `VehicleStatus`; implements `Lifecycle` |
| `Reservations` | create, cancel, the hourly `expireReservations` | `Stock` |
| `Sales` | `SalesService`, the revenue it posts, the commission and its status | `Stock` |
| `Commercial` | reservations, sales, requests and the job over one stock | `Reservations`, `Sales` |
| `Handlers` | workers, their place and locals, death at an await | |
| `Ledger` | entries, acquisitions, the DRE, commissions with rules and tiers | `Handlers` |
| `Shelf` | *abstract*: parts on the shelf and parts on vehicles | |
| `Workshop` | stock room and maintenances, posting to the ledger | `Ledger`; implements `Shelf` |
| `Books` | ledger and workshop under three schedules | `Workshop` |
| `Rotation` | *abstract*: sessions, the tokens they serve by, and exchanges | |
| `Sessions` | `AuthService`, the status of the account, clean-up | `Handlers`; implements `Rotation` |
| `Browser` | the tab's tokens (`api.ts`, `tokenStore.ts`, `AuthProvider.tsx`) against `Sessions` | `Sessions` |
| `Outbox` | *abstract*: e-mails that wait, are in hand, have left, are settled | |
| `Mailbox` | notifications, the e-mail queue and the job that drains it | `Handlers`; implements `Outbox` |
| `Leads` | contacts, the choice of a seller, changes of status | `Mailbox` |
| `Documents` | documents, versions, the nightly expiry | `Handlers` |
| `Visitors` | favorites, views and their counters | `Handlers` |
| `Consents` | consents, marketing preference, location, the banner of the site | `Handlers` |
| `Erasure` | personal data, edits, deletion requests and the nightly job | `Handlers` |
| `Showroom` | slugs, media, the technical sheet | `Handlers` |
| `Office` | the seven modules before, one part at a time, under two schedules | all of them |
| `Forms` | DTOs, required and known fields, the whitelist | |
| `Access` | every route with its guards, its effect on data, its body | `Forms` |
| `Pages` | every page and drawer: loads, acts, forms, keys loaded again | `Access` |
| `Site` | the routes of the application, `ProtectedRoute`, menus | `Pages` |
| `Tab` | a tab whose reader's role may change, one load and one act at a time | `Site` |
| `Realtime` | rooms, the dispatch of events, the filter of the stream | |
| `Overview` | the cached dashboard, the job, the page | `Handlers` |
| `Portal` | tab, events and dashboards | `Tab`, `Realtime`, `Overview` |
| `MCStock`, `MCCommercial`, `MCBooks`, `MCBrowser`, `MCOffice`, `MCPortal` | constants for TLC | |
| `Commercial_proofs`, `Books_proofs`, `Workshop_proofs`, `Ledger_proofs`, `Browser_proofs`, `Office_proofs`, `Services_proofs`, `Portal_proofs` | theorems (section 4) | |

### How state and actions correspond to the code

* A **worker** is a handler in progress, or a slot for one. `pc[w]` names the Prisma call it makes
  next, `ctx[w]` the locals the code still uses. Several workers are overlapping requests, runs of
  a job, or instances of the server. The modules above `Stock` carry two more locals: `call[w]`,
  the arguments of a pending `changeStatus`, and `seen[w]`, a vehicle row used after an await. In
  the ledger the frame of `recalculate` is `calc[w]`, and its handler resumes at `calc[w].next`.
* **One step per await.** A Prisma call or a `$transaction` is one action, with what the code does
  until the next one. The first call of a handler, when it only looks a row up, belongs to the
  action that starts the handler. Single-call requests are one action.
* `Fail` and `Die` are an await that rejects, or the process dying there: what was written stays.
  `RejectTransition` is the exception of `changeStatus`, which no caller catches.
* Rows keep the columns that some handler reads again. Money, dates and figures are small numbers
  or what a guard asks of them: `overdue` is "the date has passed", `attempts` is counted up to
  the limit, a token is the row of its hash, a file the order in which it was stored, the figures
  of a dashboard a version number, what a page shows "from before or after the act under way".
* `entries` is a bag, because equal rows are rows of their own; a part's movements are kept as
  their sums; the history of a lead as the order of its changes.
* In `Access` and `Pages` controllers, DTOs and pages are constant records written down from the
  decorators and hooks of the source. What happens is in `Tab`: a load or an act leaves the tab
  with the role the tab believes in, and the guards decide with the role on file.
* Audit rows and log lines change no row a handler reads and are left out. Events and cache keys
  are modelled where somebody answers them (`Realtime`, `Overview`).
* `Office`, `Books` and `Portal` compose parts that share no state, or share it only under one of
  their schedules; a behaviour has one part at work (a variable that never changes says which),
  because interleaving independent parts would only multiply states.

Forms named *Mutant* in comments are wrong versions of the definition below them; no behaviour of
the specifications contains them. `PROJECT.json` pairs each with the property that notices it.

## 3. Runs

| Run | Instance | Properties | What they show |
|---|---|---|---|
| `stock_interleaved` | 1 vehicle, 2 handlers, every status asked for, 1 failure | `MovementLegal`, `MovementMatches` | whatever commits over a stale row, the log is legal and ends where the vehicle is |
| `commercial_serial` | 1 handler, 2 reservations, 1 sale, 1 price | `CompletedIsBooked`, `ReservedIsBacked`, `KeepsLifecycle`, `FreesOnlyReserved` | one handler at a time: the refinement of `Lifecycle`, sales booked to the end, nothing reserved for nobody |
| `commercial_reservations` | 2 handlers, 2 reservations, 1 failure, fairness | `ExpiredWasDue`, `OverdueCloses` | only what is due is expired, and everything due is closed in the end |
| `commercial_sales` | 2 handlers, 1 sale, 2 prices, 1 failure | `TypeOK`, `SoldDated`, `CommissionBacked`, `RevenueIsPriced`, `CommissionKept` | completions, cancelations and deliveries that overlap and die leave the books in order |
| `books` | 1 vehicle, 1 sale, 1 part, 1 maintenance, 2 items, 2 handlers, 1 failure | `BooksBalance`, `MaintenanceStockIsLogged`, `ItemsAreAccounted`, `LedgerSavedByFormula`, `ProfitShareIsCurrent`, `KeepsShelf` | DRE, costs and stock follow entries, items and log; the workshop implements `Shelf` |
| `sessions` | 1 account, 1 tab with 1 call, 3 tokens, 2 handlers, 1 failure | `ParentRevoked`, `LockPaired`, `SessionsAgree`, `LocksHold`, `KeepsSession` | rotation, lock, blocking and the token the tab stores |
| `office_services` | 2 handlers, 1 failure, for each part the rows listed below | `MailIsKept`, `LeadsAreShared`, `LeadsAreFollowed`, `FilesFollowVersions`, `FavoritesAreCounted`, `AnswersCount`, `ShowroomIsClear`, `StaysErased`, `JobsComplete`, `MailSettles` | what each service keeps while requests overlap and die, what it keeps one at a time, and what its job completes |
| `portal_pages` | every page and route, 2 changes of role; 3 members; 3 readers of dashboards, 2 handlers | `PagesFitUser`, `FilledFieldsAreKept`, `OwnWorkShows`, `EventsReachTheAudience`, `OtherOffersAreAccepted`, `DashboardCatchesUp` | pages against guards, DTOs and routes; events against their audience; dashboards against their cache |
| `stock_jump`, `commercial_reserve`, `sessions_logout`, `portal_offers` | the smallest that shows it | one each | a sentence of a document or comment that the code does not keep (section 5) |

### Properties that hold only on a schedule

Much of this code is right as long as requests do not overlap, and some of it is right however they
do. Both are worth knowing, and the models say which is which. Where a property says "one at a
time", the schedule is a variable chosen at the start: `alone` (or `ledger`, `workshop`) lets a
request start only when no handler is at work, `overlap` lets everything overlap and die. In
`Browser` one call of the tab at a time is made in both schedules; under `alone`, requests from
elsewhere arrive only while no handler is at work.

| Whatever overlaps and dies | One at a time |
|---|---|
| movements legal, log and status agree (`Stock`) | the guard of `changeStatus` means something (`KeepsLifecycle`, `FreesOnlyReserved`) |
| sold vehicles dated, revenue priced, commissions backed and kept | completed sales booked, reservations backed |
| log explains stock; items accounted (without deaths for the first) | DRE and costs follow rows (the DRE that is saved: also after deaths) |
| a parent token is revoked, the lock follows the counter | one live token per session, blocked accounts without any, locks that last |
| favorites counted, latest file served, notices follow leads, slugs differ, labels honest, retries bounded | versions without a gap, turns taken, one main medium, last answer counts, erased data stay erased, each e-mail once |

### Bounds

Bounds are constants of the modules; each is named where it is declared.

* Two handlers give every overlap of two requests. A third could only add another interferer;
  what is claimed of any number of workers is proved where section 4 says so.
* One vehicle is enough for stock and books: no handler relates two. Two reservations on it let one
  be closed while the other is active and give the job a batch. Two positive prices let completions
  disagree; `MaxPostings` is the number of times a sale is completed again.
* `MaxFailures = 1` lets a handler die at every place; what it leaves is met by every later request.
* `books`: `MaxEntries = 2` bounds what a request may find, so that a purchase, a revenue and a
  manual entry meet; two tiers and a rule on the profit; two items let one part be taken, given
  back and taken again; `MaxStock = 3` is more than both can take. Overlapping maintenances take
  one unit each, because the second unit only repeats what the first does.
* `sessions`: three tokens are a session, its successor and one of another login; `MaxAttempts = 2`
  is the limit instead of 5, so that a counter below, at and after the limit occurs; `MaxCounter`
  stops counting where nothing new can happen.
* `office_services`: two e-mails with two attempts and a batch of two; two sellers and both
  strategies; two changes of a lead; one document with three files (an upload, a replacement, one
  more that overlaps); two customers and one vehicle; two answers per customer; two deletion
  requests of one client; three cars, so that a slug and both of its numbered forms are taken; two
  media; two fields and three edits of a sheet. Overlapping runs of the mail job have one e-mail
  to fight for (`Mailed`).
* `portal_pages`: all pages, drawers, menus and routes, so that nothing is sampled; two changes of
  the role of the account, which is away and back; two of the members' roles; three versions of
  the figures.

Workers are permuted symmetrically in safety runs only. Deadlock is checked in the runs of stock,
commercial and portal, which never stop; `books`, `sessions` and `office_services` may run out of
rows, tokens or answers, and then rightly stop (`CHECK_DEADLOCK FALSE`).

### Fairness

* `FairSpec` of `Commercial`: WF of each worker's next step (the event loop resumes a handler when
  its await settles) and SF of the cron, which fires every hour whatever is running but needs, in
  the model, a worker that requests may take and give back for ever.
* `OfficeFairSpec`: WF of the handlers' steps, SF of the jobs of e-mail and deletions for the same
  reason, WF of the expiry of documents, which is one call.
* `PortalFairSpec`: WF of the dashboards' handlers, of delivery to a reader that waits or has been
  told, and of the five-minute job in its two calls.

Nothing is assumed of users and of the network beyond that: no request has to arrive, failures are
finite, and `MailSettles` and `DashboardCatchesUp` name what they need (no crash of the mail job; a
socket that stays connected).

## 4. Proofs

All theorems hold for every number of workers, rows and failures, and are checked to the last leaf.

| Theorem | States | Inductive argument |
|---|---|---|
| `Commercial_proofs`: `TypeCorrect` | `TypeOK` | `HandlerOK`: a handler inside a service holds locals of that service, and the rows they name exist. `Position` looks through a pending `changeStatus` to the place it returns to |
| `LogFollowsStatus`, `StockRowsTyped` | `MovementMatches`, types | status and log are written by one transaction from one call; `archive` is the exception the property names |
| `MovementsAreLegal` | `MovementLegal` | `Accepted`: a pending commit follows a transition the guard accepted, for the row it holds |
| `SoldVehiclesAreDated` | `SoldDated` | `Accepted` and `DateRead`: `changeStatus` does erase dates, but never of a vehicle that ends up SOLD or DELIVERED |
| `CommissionsAreBacked`, `CommissionsAreKept` | `CommissionBacked`, `CommissionKept` | `PostedFirst`: a completion at its commission has posted its own price; the unique key does the rest |
| `ExpiredReservationsWereDue` | `ExpiredWasDue` | `BatchDue`: what the job holds was due when read, and due does not go away |
| `RevenueHasAPrice` | `RevenueIsPriced` | the price is a local across six awaits; a sale never changes vehicle, and every writer of `soldPrice` carries a price that is not zero |
| `OnlyReservedAreFreed` | `FreesOnlyReserved`, assuming `Alone` | `Current`: what a handler that is alone has read is what there is |
| `StockImplementsLifecycle` | `KeepsLifecycle`, assuming `Alone` | the refinement: every step of `Commercial` is one of `Lifecycle` or stutters |
| `CompletedSalesAreBooked` | `CompletedIsBooked`, assuming `Alone`, while `failures = 0` | `BookedInv`: a completed sale has each of its books, or its handler stands before the call that writes it; `complete` asks the guard of `changeStatus` first, so that the call cannot throw in between |
| `ReservedVehiclesAreBacked` | `ReservedIsBacked`, assuming `Alone` and that nobody sets RESERVED by hand, while `failures = 0` | `ReservedInv`: who calls `changeStatus` to reserve holds an open reservation of that vehicle, who closes one goes on to free it |
| `Books_proofs`: `StockIsExplained` | `MaintenanceStockIsLogged` | by how much stock and log differ while a part is being registered, that no two requests register the same part, and that the rows a handler takes from or gives back to exist, wherever it has waited (`WorkOK`; `Place` looks through `recalculate`) |
| `EveryItemAccounted` | `ItemsAreAccounted` | `AccountsInv`: what the items of a part record, and what the handlers hold that have taken it and recorded nothing yet, is together at most what the log says was applied; what is marked or about to be, at most what it says came back |
| `Workshop_proofs`: `WorkshopKeepsShelf` | `KeepsShelf`, assuming there is a part | the refinement: `SerialInv`, what a handler alone has looked at is still so when it acts on it (`Fresh`), and nothing has come back but what items give up (`Exact`), so that what an item gives back is on a vehicle |
| `Ledger_proofs`: `DreSavedByFormula` | `LedgerSavedByFormula` | `LedgerInv`: `Current` says what `recalculate` has read so far is still so, at each of its calls; `SumIsTotal` that the sums of the code are those of the formula |
| `ProfitIsShared` | `ProfitShareIsCurrent` | `LedgerInv`: a rule on the profit stands before the commission with the frame of the `recalculate` it has just awaited, for the vehicle of its sale |
| `BooksStayBalanced` | `BooksBalance`, in both schedules with one handler at a time | `BalanceInv` and `WorkInv`: see below |
| `Browser_proofs`: `BrowserTypeCorrect` | `BrowserTypeOK` | locals of the handlers and of the tab's calls, and that tokens exist only with an account |
| `RotationRevokesFirst`, `LockMatchesCounter` | `ParentRevoked`, `LockPaired` | what a refresh holds between revoking and issuing is revoked; a login writes counter and lock together |
| `SessionsStayTrue` | `SessionsAgree` | `AloneInv`: `WorkOK` says which two handlers can still meet (one exchanges the token of the tab, the other began before the tab asked), `TokensAgree` that the one live token is stored, held by the first, or on its way in a reply, `AccountAgrees` what the other has read of the account |
| `TabKeepsSession`, `LockIsKept` | `KeepsSession`, `LocksHold` | `AloneInv`: an error goes to a tab whose token is dead; a login alone writes back the counter it has read |
| `SessionsRotate` | `KeepsRotation`, the refinement of `Rotation` under `alone` | `AloneInv` again: one handler at most exchanges a token, and its session has none that serves when the next one is written |
| `SessionsStayOver` | `OverStaysOver` | a session that is over is in no exchange (`Rotation` says so of itself), and nothing else gives a token to a session that has begun |
| `Office_proofs`: `CounterMatchesFavorites` | `FavoritesAreCounted` | cardinalities: the transaction changes the set and the counter together, and fails when the row was written or deleted since it was looked for |
| `DocumentsServeLatest` | `FilesFollowVersions` | an upload holds a file no version has, and a number that is at most one more than the versions there are by now; alone, exactly one more |
| `Services_proofs`: `LastAnswersCount` | `AnswersCount` | `AnswersOK`: who has logged an answer and not yet the snapshot holds the last one given; the banner's post carries what the browser has stored |
| `ShowroomStaysClear` | `ShowroomIsClear` | `ShowroomInv`: one main medium, or none and a handler about to make one; values a handler carries as the user's were typed |
| `ErasedStaysAway` | `StaysErased` | `ErasureInv`: what let a request in is still so when it writes |
| `MailStaysKept` | `MailIsKept` | `DrainInv`, `MailInv`: every send is a row claimed once; alone, the run of the job that has sent an e-mail is the one that marks it, and the batch it holds is still pending |
| `MailIsSentOnce` | `KeepsOutbox`, the refinement of `Outbox` by one run at a time | `OutboxInv`: `HandOK` says that an e-mail in PROCESSING is the one the run is at, so that none is in hand when it takes the next, and that no e-mail of its batch has used up its tries |
| `LeadsStayFollowed` | `LeadsAreFollowed` | `LeadsInv` of `ContactsInv` and `FollowUpInv`: cardinalities for the counter of contacts, the lead as it was read for its first contact |
| `LeadsStayShared` | `LeadsAreShared` | `ShareInv`: see below |
| `Portal_proofs`: `EventsArrive` | `EventsReachTheAudience` | types of rooms and streams; the events by audience. What is emitted and what the document names are compared for any number of members |
| `PagesStayFit` | `PagesFitUser` | `TabInv`: every way to a page goes through `ProtectedRoute`, but for drawers, and `Layers` says what they lie over |
| `FieldsAreKept`, `OffersPass` | `FilledFieldsAreKept`, `OtherOffersAreAccepted` | `PageInv`: the act under way is one of the page, and what is looked at one of its loads. `PagesServe` goes through the pages one by one and compares what each loads and sends with roles and DTO of the routes |
| `WorkShows` | `OwnWorkShows` | `ActInv`: data from before an act are data it has changed; `PagesServe` says that these are invalidated, left behind, or the one load that is never given |
| `PortalTypeCorrect` | | shape of tab, sockets and dashboards: `PageInv` for the load that is looked at, `RealtimeTypeOK`, `OverviewInv` |
| `DashboardsAreServed` | `AwaitedAtWork`, which no run checks by itself | `OverviewInv`: the locals of a handler name the reader it answers, and every reader who waits for a handler is the one in its locals |

`KeepsRotation`, `OverStaysOver` and `KeepsOutbox` are proved and are in no run of section 3; TLC
checks them when they are added to `MCBrowser_sessions.cfg` and `MCOffice_services.cfg`. The shape of
the rows is proved for `Commercial`, `Stock`, `Browser` and the portal; `BooksTypeOK` and
`OfficeTypeOK` hold on the instances of `MCBooks_balances.cfg` and `MCOffice_services.cfg`, and
are proved only as far as the theorems above need them (`TablesOK`, `MailTyped` and others).

The fair share of leads is the one claim whose bound is not in the code. `LoadsOK` says it in a form
that a step preserves: for every load `m` that somebody who is there carries at most, what a seller
has and the requests that will give him another lead having seen no more than `m` are together at
most `m` and the number of handlers. A lead that is made moves one from the second to the first; a
request that begins to rank has seen the seller it chooses with at most `m`. At the end of it, the
loads of two sellers who are there differ by no more than the handlers, and by one when there is
one at a time.

The books balance only between handlers, while nobody has died. In between, `FollowInv` says that
the DRE of a vehicle follows its books, or that the handler at work is one whose `recalculate` of
that vehicle is still to come; what it has summed up is current by `LedgerInv`. `WorkInv` says the
same of a maintenance: an item has one expense exactly when it is on a vehicle and not one of the
`Pending`, which the handler at work has recorded without posting, or withdrawn without marking; and
the costs of a maintenance are those of its items, or that handler is `Settling` them. `Serves` and
`Fresh` say that what it holds is still the row there is, `Exact` that an item is given back once.

Sums over rows need no induction over data. A table of the sums of all subsets (`SumTable`) gives the
same number for a set whatever order it is added up in; that there is one for every finite set, that
two of them agree, and that the fold of the library computes one, is shown each time on a smallest
subset for which it would fail, which a well-founded order on the naturals provides. The same way
`RowsAdd` shows that the code, which weighs an entry by its number of copies, and the formula, which
counts single rows, add up to the same.

None of these properties is inductive on its own: each speaks of tables, and what keeps it is what
a handler that is about to write already knows. The proofs settle first who writes a table, then
how a handler comes to stand where the strengthening speaks, and look at those actions only.

They rest on the assumptions the modules declare: bounds are naturals, there are finitely many
handlers, open statuses hold neither COMPLETED nor CANCELED, 0 is a price (`StockAssumption`,
`SalesAssumption`, `SessionsAssumption`, `HandlersAssumption`, `DocumentsAssumption`,
`MailboxAssumption`, `LeadsAssumption`), items are numbered in the order of their creation and
quantities are positive (`WorkshopAssumption`), requests that overlap ask for nothing else
(`BooksAssumption`), commission rules are of the four types of the schema and their numbers integers
(`RulesAssumption`), and the value that stands for "no row" is no row, no number, no author and no
truth value (`NoCommissionAssumption`, `NullAssumption` of `Commercial` and of `Sessions`,
`NoRowAssumption`, `AbsenceAssumption`, `MailboxNull`, `LeadsNull`, `AuthorsAssumption`,
`ConsentsAssumption`, `UnknownAssumption`), nor is the reply of a refusal (`ErrorAssumption`); the
name of a handler is none of the states of a request (`OverviewAssumption`). TLC evaluates all of
them. Where a theorem assumes more, the table says so: `Alone` is the schedule of
`commercial_serial`, and `failures = 0` means that no handler has died yet.

The three claims about pages speak of constant tables: 41 pages, 169 routes and 34 DTOs. `Routes`
finds the controller a route belongs to (no name is used twice, `OneController`), and one lemma for
each page (`HomePageServes` to `AuditPageServes`) says that it `Serves` every role it is for. Two
facts that the run does not show came up in these proofs: the choice of parts shows quantities that
`addPart` changes and does not invalidate, which goes unseen only because the server never gives
them away (run 4 of section 5); and only an administrator may reach the drawer of movements, which
lies over a page that sellers see without the buttons that open it.

**Only model-checked.** Liveness (`OverdueCloses`, `JobsComplete`, `MailSettles`,
`DashboardCatchesUp`), which the prover does not do.

## 5. Where documents and code disagree

With a run:

1. `stock_jump`: the comment of the table says it "blocks nonsensical jumps (e.g. ARCHIVED -> SOLD)"
   (`vehicles/stock.service.ts:12-13`), yet two handlers that read the same row make one. The log
   shows a legal transition that did not happen.
2. `commercial_reserve`: a reservation that is refused stays ACTIVE
   (`commercial/reservations.service.ts:44`).
3. `sessions_logout`: signing out of the site sends no token, the server refuses the call, and the
   refresh token stays live (`features/auth/AuthProvider.tsx:81`, `docs/AUTHENTICATION.md:88`).
4. `portal_offers`: the form of a maintenance asks for 200 parts, and the server refuses more than
   100 (`features/internal/shared.tsx:25`).

Met while modelling and not given a run of their own:

* Commercial. Cancelling checks RESERVED before `changeStatus` reads the row again, and may free a
  vehicle that was sold meanwhile (`reservations.service.ts:79`); cancelling a reservation that is
  still being created leaves its vehicle RESERVED (`:76`); a completion that overlaps is booked
  although its vehicle cannot be sold; a stale commit erases the date of a sale; a commission is
  never replaced (`commissions.service.ts:117`). `archive` writes no movement
  (`docs/BUSINESS_RULES.md:15`), a completed sale can be reopened (`:76`), a pending commission be
  paid (`:70`), and completing a sale again posts its revenue again.
* Workshop. Two maintenances can take the last part, and the stock goes below zero
  (`docs/BUSINESS_RULES.md:22-23`); a part removed twice at once comes back twice.
* Sessions. Changing the password revokes no token (`docs/AUTHENTICATION.md:88`); two exchanges of
  one token that overlap both succeed. An exchange that is under way outlives what ends its session
  meanwhile, a reset password too: it revokes its token by id, without another look at it
  (`auth.service.ts:251-275`, against the comment at `:355` and `docs/AUTHENTICATION.md:88`). So
  `Rotation` calls a session over only when nothing of it is being exchanged.
* Consents. The banner promises another try after a failed post and never makes one
  (`components/CookieConsent.tsx:109-110`), and what a customer who is signed in chooses there is
  never attached to him. A location is kept after its consent was withdrawn
  (`docs/BUSINESS_RULES.md:106-107`, `privacy.service.ts:122-129`): `LocationNeedsConsent` of
  `Consents` states the rule and does not hold. Views of customers who are signed in are recorded
  without them (`docs/ROLES_AND_PERMISSIONS.md:29`, `jwt-auth.guard.ts:16-25`): nor does
  `HistoryShowsViews` of `Visitors`. Both can be added to `MCOffice_services.cfg` to see a behaviour.
* Portal. The form of a supplier sends a contact and a city the DTO does not know
  (`Inventory.tsx:132`). The site listens for `part.low_stock` and `notification.created`, which no
  code emits (`services/realtime.ts:11`, `:13`). The query cache is not cleared when a reader signs
  out. The stream keeps events about a seller from that seller, whom the catalogue of events names.
  Sockets stay in the rooms of a role that has changed. What is published to Redis has no
  subscriber.

`FilledFieldsAreKept`, `OwnWorkShows` and `OtherOffersAreAccepted` name the exceptions they make
(the supplier's two fields; three loads that an act leaves behind; the load of run 4), so that any
further one is a violation.

Known and without a property, because one call is enough to see it: a negative quantity passes
`maintenance.dto.ts:74`; confirming an acquisition again posts it again (`acquisitions.service.ts:70`);
completing a canceled maintenance posts its labour (`maintenance.service.ts:238`); `PATCH /parts`
changes a quantity without a movement (`parts.service.ts:127`); `validate` approves whatever file
the document has by then (`documents.service.ts:213`); a reset token can be used twice at once
(`auth.service.ts:344`).

## 6. Plan

Done: every component whose operations interact, with the abstract specifications `Lifecycle`,
`Shelf`, `Rotation` and `Outbox` and their refinements, and the theorems of section 4. Left, in
this order:

1. `Ledger` and `Commercial` over one sale: `complete` posts in both, and the two models take the
   other's part of it as it comes.
2. What is partly modelled: low stock and reminders, average prices, the export of personal data,
   the CRUD of commission rules.

## 7. Not modelled

* **Audit log**: appends a row and swallows its own errors, so that it changes no handler's control.
* **Vehicle specifications provider**: a mock of an external catalogue, constant data and a search in
  it. `Showroom` takes any answer, and none.
* **Storage**: file I/O behind one interface. `Documents` numbers the files it is given; that a file
  is left behind when the rows fail is part of that model.
* **Error format, logging, configuration**: no state.
* **Seeds and migrations**: fill an empty database once.
* **Reads** (reports, lists, the public catalogue, comparisons): sums and serializers. `Access` and
  `Pages` say who may ask for them and which acts make them stale.
* **Presentation** in the site: layout, formats, icons, animations.
* External: PostgreSQL (a `$transaction` is atomic, unique keys refuse duplicates), the event loop,
  SMTP (`send` succeeds or fails), bcrypt and JWT (they work), Redis as a cache, React Query as far
  as its keys, and the browser's storage. They are modelled from how the code uses them.
