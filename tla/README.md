# Verification of the Biota Geom backend

TLA+ models of the backend's core logic, checked with TLC on small instances and
proved with TLAPS where a theorem for every size is worth having. The backend is
a NestJS server over PostgreSQL (Prisma) that keeps, for the environmental
consultancies that use it, their customers, the customers' environmental
licenses with their conditions, a document library and ESG indicators.

Paths below are relative to the repository (`src/modules/...`).

## 1. Inventory

Every request is handled by a use case that awaits: between two awaits any other
request may run, in this process or in another one. State lives in PostgreSQL
and in a file storage (local disk or S3); the server keeps nothing between
requests. There are no queues, no background jobs and no retries of its own.

| Component | State | Operations | What is hard | What makes it correct |
|---|---|---|---|---|
| License lifecycle (`licenses`) | `licenses` (status, `previous_license_id`, document), `license_condition` | register, renew, append / edit / delete a condition, save fulfillment | a renewal checks, uploads, then writes four tables' rows in a serializable transaction while other requests write at READ COMMITTED | archived iff renewed; chains well founded; no lost update; files accounted for; recorded fulfillment kept |
| Condition order (`license-condition-position.ts`, details DTO) | `license_condition.position` | append, move to another descriptor, copy on renewal, number on read | read-max-then-insert without a lock | batches keep their order, appended last, moved last, numbers without gaps |
| License history | none (reads) | walk the chain both ways | two reads with renewals in between, a license renewed twice | a whole line of versions, stable, only the requested one may be out of date |
| Read views (panel, risk list, compliance, dashboard, PDF report, customer list) | none (reads), the clock | derive status and risk from dates, aggregate | day rounding; several queries per answer; different views of one figure | views agree; status only worsens with time |
| License extraction | none | call a language model, parse its answer | timer against answer; entries in any order, repeated, incomplete | one answer, always; one suggestion per printed number, with its context |
| Customers | `customers`, `customer_addresses` | create, update, soft delete, find, list | check against constraint, a transaction of two statements, soft-deleted rows, several tenants | each owner sees a store of its own; removed stays removed; no mixture of two updates |
| ESG indicators and metrics | `esg_metric`, `customer_esg_metrics` | create in catalog, link, replace links | several transactions per request; delete and re-create at READ COMMITTED | replaced list gone; refusals and duplicates only by overlap |
| ESG monthly records | `esg_indicator_record` | save a month, list it, summary | rows locked in the order of the request; answers of up to four queries | deadlocks are broken; a save leaves what it lists; an undisturbed page is exact |
| Documents | `document`, `document_folder`, files | upload, folder, soft delete, list, URL | check then insert, an index that does not cover everything the check does, the upload between them | files kept, folders of one customer, duplicates only by overlap, what was removed is out of reach |
| Accounts and sessions | `users`, stateless tokens | register, login, refresh, the guard, current user | check then insert; tokens cannot be revoked | sessions end; a deactivated account is shut out in bounded time |
| Reference lists, HTTP, configuration, rendering, seed | none that changes | list, validate, throttle | nothing concurrent | not modelled |

Interactions: every use case checks the customer's owner first
(`CustomerRepository.findOne`) and reports what belongs to somebody else as
missing. Licenses, documents and indicators hang off a customer. Registration,
renewal and document upload call the file storage before their database write.
The dashboard and the PDF report call the license and indicator use cases.

The hazards, each at its line, are listed in `PROJECT.json`.

### What PostgreSQL is assumed to do

- A SERIALIZABLE transaction reads one snapshot. It aborts if it would write a
  row another transaction has written and committed since the snapshot, whatever
  that transaction's isolation, and if it closes a read/write cycle with
  *serializable* transactions.
- Two renewals of one license both update its row. An edit or deletion of a
  condition (serializable) reads the license row through its filter, which a
  renewal writes, and writes a condition row, which the renewal has read: a
  cycle. So the first to commit makes the others abort.
- Appending conditions and saving fulfillment run at READ COMMITTED. An append
  conflicts with nothing. A save conflicts with an open renewal only through a
  row both write.
- A transaction is a single step at its commit, unless another commit between
  its read and its write can be seen in the result. The statements of a
  fulfillment save are one step: a row it has written stays locked until it
  commits, and each row is affected by its own filter only.
- At READ COMMITTED each statement sees what had been committed when it began. A
  row an open transaction has written is locked until it ends; an UPDATE or an
  upsert waits for it, and so does an INSERT for a unique key an open
  transaction has written. A DELETE only waits for rows it sees: one inserted
  and not yet committed it passes by.
- Transactions that wait for each other in a circle are detected, and one of
  them is rolled back.

## 2. Modules

| Module | Role |
|---|---|
| `LicenseLineage` | abstract specification: versions of a license, registered and renewed in one indivisible step |
| `LicenseRenewal` | registration, renewal and the conditions, at the grain of awaits and transactions; implements `LicenseLineage` |
| `LicenseRenewalProofs` | theorems about `LicenseRenewal`, `LicenseLineage` and `LicenseHistory` |
| `ConditionOrder` | positions, read order and item numbers |
| `ConditionOrderProofs` | theorems about `ConditionOrder` and `LicenseExtraction` |
| `LicenseHistory` | the history request, reading what `LicenseLineage` writes (`Ancestry!Register`, `Ancestry!Renew`) |
| `ComplianceViews` | the clock and every figure derived from dates: status, risk, compliance, panel, dashboard, card, monitor |
| `ComplianceViewsProofs` | theorems about `ComplianceViews` |
| `LicenseExtraction` | the extraction request with its timer, and the parser of the model's answer |
| `OwnPortfolio` | abstract specification: the companies of one owner, as if there were no other owner |
| `CustomerPortfolio` | all companies of all owners, statement by statement; implements `OwnPortfolio` for each owner |
| `CustomerPortfolioProofs` | theorems about `CustomerPortfolio` |
| `IndicatorCatalog` | the catalog of indicators and each customer's list |
| `IndicatorCatalogProofs` | theorems about `IndicatorCatalog` |
| `MonthlyRecords` | saving a month row by row, and the two reads of a month |
| `MonthlyRecordsProofs` | theorems about `MonthlyRecords` |
| `DocumentLibrary` | folders, documents and their files, beside the removal of a customer |
| `DocumentLibraryProofs` | theorems about `DocumentLibrary` |
| `AuthSessions` | accounts, tokens and time |
| `AuthSessionsProofs` | theorems about `AuthSessions` |
| `MC*` | TLC instances: symmetry sets, model values and, for `LicenseRenewal`, a start one registration in |

### LicenseRenewal and the code

| Model | Code |
|---|---|
| `status`, `previous`, `documentUrl` | `licenses`; `CURRENT` stands for REGULAR, ATTENTION and EXPIRED, which no write distinguishes |
| `condLicense`, `condStatus`, `completion` | `license_condition`; `UNUSED` ids have not been inserted, `DELETED` ones were |
| `stored` | the document storage; a file is named by a fresh UUID, so by the request that uploads it |
| `pc[r]`: idle, checked, uploaded, inTx, done / rejected / failed | where `CreateLicenseUseCase` or `RenewLicenseUseCase` is waiting |
| `job[r]` | the decisions of a renewal request |
| `tx[r]` | the rows its transaction will rewrite, fixed by its snapshot, and whether a commit since then makes it abort |
| `CheckRenewal`, `Upload`, `BeginRenewal`, `CommitRenewal` | the stretches of `RenewLicenseUseCase.execute` and `PrismaLicenseRepository.renew` between two awaits that matter |
| `Reject`, `RejectOutdated`, `Fail` | the domain errors before the upload, the outdated list inside the transaction, and an await that rejects or a process that stops |
| `AppendConditions`, `EditCondition`, `DeleteCondition`, `SaveFulfillment` | the condition routes, at their commit; `Edits` is what the edit form may set, `Savable` what a fulfillment form may list |

Left out: owners and customers (a request that fails those checks is a
rejection), dates other than the completion date, and descriptive fields. The
check of a request is one step although it may read the customer and the license
in two queries: customers are never handed over and the second query decides.

### ConditionOrder and the code

`rows` is the table in insertion order. `BeginAppend` / `InsertAppend` are the
two statements of `withNextPositions` and the insert (READ COMMITTED);
`BeginMove` / `CommitMove` the two of a descriptor change (SERIALIZABLE).
`CopyToRenewal` is the insert of a renewal, `Readings` the orders a query may
return, `Numbered` the item numbers of the details page.

### LicenseHistory and the code

The writes are those of `LicenseLineage`, instantiated as `Ancestry` with
`Versions` for the ids; names differ from `LicenseRenewal`'s (`Versions`, `Nil`,
`HistorySpec`) so that one module can prove things about both. `ReadRequested` is `findByIdForOwner`, `AnswerHistory` is `findAllByCustomerId`
and the synchronous walk. `Renewal` and `Previous` are the maps
`renewalByPreviousId` and `byId`; `AddNewer` and `AddOlder` one pass of each
loop. `LicenseHistory` trusts `created_at` to order two renewals of one license:
the database lets only one of two concurrent ones commit.

### ComplianceViews and the code

`now` is the clock in ticks, `DayLength` ticks a day, so that the rounding of
`Math.ceil` is not lost. `Panel`, `Dashboard`, `Card` and `Monitor` are the
answers of the four use cases as functions of the tables and the clock, each with
the filters of its own query (`CardLicenses` and `CardConditions` for the card);
`First` is a sort followed by `slice(0, 3)`, any order among ties. `BeginBlock`,
`ReadList`, `ReadCompliance` and `Answer` are
`GetCustomerDashboardConditionsUseCase`, whose two queries run under
`Promise.all`; the report runs the same block. `quiet` remembers whether a write
committed since the block began. Writes are single steps here, and a renewal
names only licenses that are not archived. The literals 30, 7, 30 and 3 are the
constants `AttentionWindow`, `RiskDays`, `RegularDays` and `Shown`.

### LicenseExtraction and the code

| Model | Code |
|---|---|
| `timer`: off, running, fired | the `setTimeout` of `read` and the `AbortController` it aborts |
| `stage`: received, reading, read, done | before `getClient`, inside `finalMessage`, after it, answered |
| `answer` | the message of the model, or `None` for a refusal and for text without JSON |
| `FinalMessage`, `ReadFails` | the promise of `finalMessage` is resolved, or rejected and turned by `toDomainError` into 422, 503 or 504 |
| `HasClient`, `HasJson` | what may end a read early: no client configured, a refusal, a text without JSON |
| `ParsedItem`, `Section`, `Message`, `AnswersAssumption` | what the schemas leave of a message: sections of items with a number, a text and the fields that validated |
| `Flatten` | `flattenSections`: merges the sections, drops entries without a description and repeated numbers |
| `Parse` | the rest of `parseLicenseExtraction`: `WithParentContext` hands texts down, `Suggestion` settles type and periodicity and cuts, `MaxConditions` limits the list |

A text is a sequence of words, one per item, so that what is prefixed, lost or
cut can be told. Left out: the fields of the license itself, which `data` stands
for, and the clean-up of single strings (white space, calendar dates).

### CustomerPortfolio, OwnPortfolio and the code

A row of `customers` has an owner, a document with its type, `removed`
(`is_deleted`) and, for all other fields of the two tables, who wrote them last:
`contact` and `address`. `WriteAddress`, `WriteCompany` and `Commit` are the
statements of the transaction in `PrismaCustomerRepository.update`; `addressed`
and `written` say what it holds locked. `Insert` and `MarkRemoved` are single
statements, each after a first query (`CheckSector`, `FindForRemove`).
`FindForUpdate` uses `findById`, which does not look at `isDeleted`.

`OwnPortfolio` is what the comment on `CustomerRepository` ("Multi-tenant
boundary") promises: to one owner, its companies `mine` and the answers `told`
are all there is. `Isolation` maps `mine` to the rows of the watched owner and
`told` to the answers given to it, and leaves out everything of the others; it
says that every answer is one the owner's own companies explain: found, not
found, list, conflict, and the internal error of an update to a document that
another of its companies holds (`Duplicate`). Only a failed await or an unknown
sector, which have nothing to do with any company, need no explanation
(`Refused`). `Satisfies` compares a document with its type and leaves out the
check digits.

### IndicatorCatalog and the code

`catalog` is `esg_metric` in the order of `created_at`, `links` is
`customer_esg_metrics`. `CheckDuplicate`, `SearchCatalog`, `Link` and
`CreateAndLink` are the queries of `CreateCustomerIndicatorUseCase`;
`CheckMetricName` and `InsertMetric` those of `CreateCustomEsgMetricUseCase`;
`CheckMetrics`, `StartDelete`, `FinishDelete` and `InsertLinks` those of a
replacement, whose `deleteMany` does not see what is committed after it began
(`doomed`, `added`). A name is a word in some case: `sameName` and `mode:
'insensitive'` compare words, the unique index compares names.

### MonthlyRecords and the code

`ReceiveSave` begins the transaction of `saveMonth`, `ApplyChange` is one pass of
its loop, `CommitSave` the commit together with the answer. `writes` and
`inserted` are what an open transaction has written and the rows of others its
removals have passed by. `WaitsFor` and `Deadlocked` are the database's. A read
is `FindActive`, `FindMonth`, `FindCurrent` and `FindPrevious` in any order the
`Promise.all`s allow (`FirstQueries`), then `Answer`; `quiet` says that nothing
was committed meanwhile. Replacing the customer's indicators is the single step
`ReplaceLinks`, as `IndicatorCatalog` refines it.

### DocumentLibrary and the code

`folders` and `documents` are the two tables, `files` the storage. Each request
runs `Receive` (its first query, scoped to owner and customer), then
`CheckParent`, `CheckName`, `Upload` as its use case has it, then one statement:
`InsertFolder`, `InsertDocument`, `SoftDelete`, or `Answer` for the two reads.
`FolderRefused` is the unique index, which compares letters and case and, as
`parent_id` may be NULL, nothing at the top. `RemoveCustomer` is the removal in
`CustomerPortfolio`.

### AuthSessions and the code

A token is stateless: `left[u][type]` is how long the last-living token of the
account and type lives. `Register` / `Insert`, `Login` / `PasswordMatches`,
`IssueSession`, `Refresh` / `FindForRefresh` / `IssueAccess` and `Admit` /
`Serve` are the use cases and the guard at their awaits. `Tick` is the clock;
deactivation, reactivation and deletion of an account are done on the table, as
no route does them. Passwords, the throttler and `last_login_at` are left out:
nothing is decided by the last, and whether a password matches is either way.

## 3. Runs

| Run | Instance | What it shows |
|---|---|---|
| `renewal` | 3 requests, 3 licenses, 1 condition, 2 dates | every interleaving of three registrations and renewals with every condition request, so double renewals, a renewal of a renewal, and failures at each step; files, lineage, serializability, refinement, recorded fulfillment |
| `undecided_at_commit` | expected violation | a condition appended during the renewal transaction is archived undecided |
| `condition_order` | 2 requests, 2 licenses, 2 descriptors, 4 rows, up to 2 older than the column | every overlap of two appends or moves with deletions and a copy to the renewed license |
| `history` | 5 licenses, 2 customers | all lineages of five versions, branched ones included, and every request over them |
| `views` | 2 licenses, 3 conditions, 2 dates, 6 ticks of half a day, 1 block, 1 item shown | every state of the tables at every half day, each threshold crossed both ways between the two dates, and a block read across ticks and writes |
| `extraction` | answers of three entries of 11 shapes and a fourth, cap of 3 suggestions and 2 words | the timer races the answer and every failure; one suggestion per number, context, cut and cap |
| `ancestors_skipped` | expected violation | an introductory item hands nothing down past a missing or ordinary level |
| `customers` | 2 requests, 2 owners, 2 companies, 2 documents | every pair of requests, from every portfolio the index allows, with locks and failures; one owner's view is a store of its own |
| `indicators` | 3 requests, 2 customers, 1 word in 2 cases, 3 catalog rows | creation, custom metrics and replacement overlapping in every way |
| `monthly` | 2 requests, 2 indicators, December and January, 2 changes each, 1 record at first | two saves, or a save and a read, row by row; deadlock and its end; a read across the new year |
| `documents` | 2 requests, 2 users with a customer each, 3 folders, 2 documents, 2 names of the same letters | checks, uploads and inserts overlapping, with failures and the removal of a customer |
| `auth` | 2 requests, 2 accounts, one address typed in two ways and one of another domain; lifetimes 2 and 3 ticks | two requests and the clock against deactivation, reactivation and deletion at any moment |

Bounds. Requests, ids and rows are finite sets of interchangeable values; every
bound is a constant named in its module (`MaxRows`, `MaxLegacy`, `MaxCatalog`,
`MaxChanges`, `MaxTime`, `MaxWords`, `MaxConditions`, `MaxDelay`, `Removable`).
Each property involves at most two concurrent requests on the same rows, so two
requests reach every conflict; where a third matters it is there: `renewal` adds
a renewal of the result, `indicators` a creation beside two replacements. Two
changes are the least with which two saves can lock in opposite orders; three
folders the least with a root and two that collide in it; two documents the least
with which two uploads overlap; four printed entries
exceed a cap of three. In `auth` a refresh token outlives an access token, and
`MaxDelay` (a request takes no longer than one tick) is an assumption: the
server sets no limit. Runs switch deadlock checking off where requests simply
run out (`CHECK_DEADLOCK FALSE`); `LicenseRenewal` keeps it on, with `Quiescent`
for the state in which every request was answered, and so do `auth` and
`extraction`, in which there is always something to do.

Fairness, where a property needs it:

- `MonthlyRecords`: weak fairness of `Working(s)`. The server awaits one
  statement after the other and PostgreSQL executes what is not blocked; a
  deadlock is broken after `deadlock_timeout`. Under it `SavesEnd`: every
  transaction ends, whoever waits for whom.
- `LicenseExtraction`: weak fairness of `Start`, `Finish`, `TimerFires` (a
  `setTimeout` that is not cleared fires) and of the rejection of a stream that
  was aborted. That the model ever answers is *not* assumed: `AlwaysAnswered`
  rests on the timer.
- `AuthSessions`: weak fairness of `Tick` (time passes) and of each request's
  `Proceed`, and the bound `MaxDelay`. Under it `ShutOutForGood`: an account
  that stays inactive ends up without any living token.

The other modules state no liveness: their requests wait for nothing but single
statements.

Each `*Proofs` module proves a type invariant, as the first part of its inductive
invariant; `TypeOK` of `LicenseRenewal` is a property of its run as well.

Each property of a passing run has a mutant (`Mutant...` operators, listed in
`PROJECT.json`): a plausible bug in one definition that breaks it.

## 4. Theorems

Each theorem holds for every value of the constants: any number of requests,
rows, owners and dates, any order of steps. What is assumed of the constants is
stated beside them and evaluated by TLC on every run: that `None` and the other
markers are not rows or ids (`IdsAssumption`, `NamesAssumption`,
`OwnershipAssumption`, `ValuesAssumption`, `VersionsAssumption`), that lifetimes
and bounds are numbers (`TtlAssumption`, `ClockAssumption`, `WindowsAssumption`,
`BoundsAssumption`), that conditions and months are finitely many
(`RowsAssumption`, `ValuesAssumption`), and that a message of the model has the
shape the schemas give it (`AnswersAssumption`). The theorems about
`LicenseHistory` add that the versions are finitely many, as the rows of a table
are; without it a walk need not end.

Every proof is built the same way: an inductive invariant `IInv` of named parts
(in `ComplianceViewsProofs`, `TypeOK` and `QuietInv`), a lemma that `Init` makes
it hold, one step per action that every action keeps it, and the properties from
it. An action property needs a last lemma, that only one action can take the step
in question.

### License lifecycle (`LicenseRenewalProofs`)

| Theorem | What it establishes |
|---|---|
| `RenewalTypeCorrect` | typing |
| `RenewalFiles` | `FilesAccountedFor` |
| `RenewalNoLostUpdate` | `NoLostUpdate` |
| `RenewalKeepsRecords` | `RecordedFulfillmentKept` |
| `RenewalImplementsLineage` | every behaviour is one of `LicenseLineage` |
| `LineageArchived`, `LineageWellFounded` | the two promises of `LicenseLineage`, from its own invariant |
| `RenewalArchived`, `RenewalWellFounded` | the same two for the concurrent specification, through the refinement |

`IInv` has five parts: `TypeOK`; `RowsInv`, a license row exists exactly when it
has a document, and condition rows hang off licenses that exist; `JobsInv`, a
renewal under way names a license that exists and decisions it checked;
`FilesInv`, which request stored which file and which license took it, the
strengthening `FilesAccountedFor` needs to be inductive; `TxInv`, while nothing
has made an open renewal stale, the rows it read and will rewrite are still as
its snapshot saw them. `TxInv` is the heart of `RenewalNoLostUpdate` and
`RenewalKeepsRecords`: each committing action either leaves those rows alone or
marks the renewal stale. The refinement maps `InsertLicense` to `Register`,
`CommitRenewal` to `Renew` and everything else to a stutter. The invariant of
`LicenseLineage` is typing, `ArchivedIffRenewed` and "an absent license renews
nothing"; the last is what makes a fresh version free of successors, so that a
set of licenses closed under `predecessor` after a renewal was closed before it.

### License history (`LicenseRenewalProofs`)

| Theorem | What it establishes |
|---|---|
| `EveryHistoryIsWhole` | `HistoryIsWholeLine`: nothing of the line is missing, nothing else is in it |
| `OnlyRequestedIsStale` | `OnlyRequestedMayBeStale` |
| `HistoriesOnlyGrow` | `HistoryOnlyGrows`: a later answer continues an earlier one |
| `SameHistoryForEveryVersion` | `SameHistoryForAll` |

The inductive invariant is `HistoryInv`: the invariant of `LicenseLineage`
(`Ancestry!Inv`); `StampInv`, creation stamps name versions; `RenewalInv`, a
renewal belongs to the same customer and is younger than what it renews;
`ReadingInv`, what the open request has loaded is at most as archived as the row.
That says nothing of the two loops. They are functions on sequences, unfolded a
number of times, and what they compute is shown apart from any behaviour
(`WholeLine`): a line through the requested license that goes on at neither end,
above it each version the oldest renewal of the next one down, below it each the
license the one above renews. It is reached because stamps fall along the line,
so no version comes twice, and a line without repetition is no longer than the
number of versions; the loops have enough passes for that. There is only one
whole line through a license (`OneLine`), and without a double renewal it is
whole for each of its members: `SameHistoryForEveryVersion`. A registration or
renewal adds to a whole line at its newer end or not at all, as a second renewal
of a version is younger than the first: `HistoriesOnlyGrow`.

### Condition order (`ConditionOrderProofs`)

`AppendsStayInOrder` (`AppendsInOrder`), `MovedBehindAll` (`MovedLast`) and
`CopiesStayInOrder` (`CopiesKeepOrder`). The part of `IInv` that matters is
`JobInv`: the position an open request has computed is past every row of the
license it saw, though others write meanwhile. For an append that is true of rows
that have not been moved; for a move it is true of all, because another move of
the license that commits first makes it fail. `InsertInv` (the rows of an insert
carry a batch below their own place) tells the rows of different inserts apart,
and `BoundInv` says that a highest position exists. Appends and copies are
instances of one lemma about inserting rows, moves and deletions of one about
rewriting a row.

`NoGapInTheNumbers` (`NumberedWithoutGaps`) is about the numbering of the details
page, a fold of `Join` over the rows as read. `FoldExists` gives the fold as a
function on the rows passed so far; `JoinGroups` shows that one more row keeps
the groups whole (`Grouped`: every row passed is in a group, the rows of a group
share a descriptor and stand as read, groups differ in descriptor and stand by
their first row); `Flattened` that listing the groups one after the other repeats
and loses nothing.

### License extraction (`ConditionOrderProofs`)

`OneSuggestionForEachNumber` (`OneSuggestionPerNumber`) and `ContextIsHandedDown`
(`ContextHandedDown`), for any messages, depths of numbering and caps. The
invariant on behaviours, `AnswerInv`, only says that a successful answer is
`Parse` of a message; the work is in what `Parse` computes. `FlattenKeeps`: after
any number of entries, what is kept is as long as the accepted entries are many
and no two of its numbers are equal. The first entry of each number is accepted
and no other, so accepted and numbered entries match the printed numbers one to
one (`OnePerNumber`). `FullContext`: by induction over the list, an item whose
levels are all introductory gets the full text of its parent, and that is the
texts of all the levels above it (`ParentHandsDown`), because parent and item have
the same levels above the parent.

### Read views (`ComplianceViewsProofs`)

For every day length, window, number of items shown and finite set of conditions:
`ThresholdsForAnyDay` (`ThresholdsMet`: the comparison of rounded days is that of
the dates, but that a license may be `EXPIRED` up to a day late, a day of which
nothing is claimed), `NeverImproves`, `MostUrgentForAnyWindow`
(`MostUrgentFirst`), `ViewsAgreeWithoutRenewal` (`ViewsAgreeUntilRenewal`) and
`BlockAgreesForAnySize`, the last for fewer than 200 conditions, which is where
the rounding of the percentage begins to hide a pending one. They rest on
`DivReaches` (a quotient reaches `q` when the dividend reaches `q * d`), on
`RankFollowsDate` (an earlier date is at least as critical), on `TypeOK`, whose
conditions hang off stored licenses, and, for the block, on `QuietInv`: as long as
no write disturbed it, what it has read is what its queries would return now at
the block's own time.

### Customers (`CustomerPortfolioProofs`)

`CustomersIsolated` (`Isolation`): to each owner the store is a store of its own
companies, the refinement of `OwnPortfolio` for any watched owner.
`CustomersNotMixed` (`NoMixture`) and `CustomersStayRemoved`
(`RemovedStaysRemoved`). `IndexInv` is the unique index on owner and document;
`KeyInv` extends it to the documents that open updates are about to set, without
which a commit would break it; `WriterInv` (only a request that is over has left
its mark on a company) is what `NoMixture` needs, and `JobInv` keeps what a
request has found true until it uses it. In the refinement each answer is the
image of the step that gives it: a conflict, for one, is answered only when a
company of the same owner explains it, and so is the internal error of an update.

### Indicators (`IndicatorCatalogProofs`)

`OldListGone` (`ReplacedListGone`), `RefusalNeedsOverlap`
(`RefusedOnlyByOverlap`), `DuplicateIndicatorsOverlap`
(`DuplicatesOnlyByOverlap`). `DeletingInv` says that while a replacement deletes,
every link of the customer is one it will take or one that came across it;
`SearchInv` that a match for an indicator about to be created is younger than the
search; typing includes that no link points past the catalog.

### Monthly records (`MonthlyRecordsProofs`)

`SavesApplied` (`SaveApplied`), `DeadlocksNeedOppositeOrders`
(`DeadlockNeedsOppositeOrders`), `QuietPagesAreExact` (`QuietPageIsExact`).
`SaveInv` ties what a transaction has written to the changes it has applied:
both theorems about saves follow, since who waits for a row waits for a change
its holder has passed. `QuietInv` is the state of an undisturbed page. The exact
page also needs that the latest month exists and that `PreviousMonth` comes right
before a month: `LastMonthExists`, `PreviousMonthCounts`.

### Documents (`DocumentLibraryProofs`)

`DocumentsHaveTheirFiles` (`FilesKept`), `FoldersKeepToTheirCustomer`
(`InOwnFolders`), `DuplicateFoldersOverlap` (`DuplicatesOnlyByOverlap`),
`RemovedIsOutOfReach` (`RemovedOutOfReach`). `PlaceInv` strengthens `InOwnFolders`
with the folders' own parents; `RequestInv` says that the place a request checked
is still there when it inserts; `NameInv`, that a folder of the same letters found
now was inserted after the check; `ReachInv`, what was out of reach when a request
came in; `StoredInv`, that no two uploads will insert the same file.

### Accounts and sessions (`AuthSessionsProofs`)

`InactiveAccountShutOut` (`ShutOut`) and `SessionsEnd` (`SessionEnds`), for any
lifetimes and any bound on the duration of a request. `TokenInv` bounds the life
left to a token by the time the account has been inactive and by the time since
its login; `RequestInv` bounds the same for a request that is about to issue one,
by the age of the request. Each tick of the clock moves both sides of each
inequality by one.

### Only model-checked

`SavesEnd`, `AlwaysAnswered` and `ShutOutForGood`: liveness under fairness, out
of the prover's reach, as is `ENABLED`. The library's induction theorems are too;
the proofs about loops and recursive functions use an induction over the numbers
up to a bound instead (`Upwards`, from the well-foundedness of `<`), first to show
that the function exists (`PassesExist`, `FoldExists`, `ContextEquation`).

## 5. Findings

Each with a run that shows it:

1. A condition appended while its license is being renewed escapes the
   decisions (`renew-license.use-case.ts:52-54`; `undecided_at_commit`).
2. An item inherits nothing from an introductory ancestor if a level between
   them is missing or not introductory, although the comment promises every
   ancestor (`license-extraction.schema.ts:202-203`; `ancestors_skipped`).

The models also allow the following, and the properties are stated so as to hold
beside them:

- A license archived while a second renewal uploads its file is renewed again
  (`renew-license.use-case.ts:43`); archived still means renewed.
- A fulfillment form that lists an overdue condition both ways reopens it
  (`prisma-license.repository.ts:329-330`); `RecordedFulfillmentKept` excepts it.
- Two concurrent appends share a position (`license-condition-position.ts:5-6`);
  `AppendsInOrder` holds all the same.
- A license past its date by less than a day is still in `ATTENTION`, as the days
  left are rounded up (`license-status.calculator.ts:24-28`), although the comment
  above says "expirationDate in the past -> EXPIRED" (line 14). `ThresholdsMet`
  claims nothing of that day; no run is spent on showing it.
- With 200 conditions or more the compliance percentage may be rounded to 100
  while one of them is pending (`license-conditions-compliance.calculator.ts:37`);
  `BlockAgreesForAnySize` stops there.
- After a renewal the company card counts conditions of the archived license and
  the monitor does not (`prisma-customer.repository.ts:67`);
  `ViewsAgreeUntilRenewal` says until when they agree.
- The dashboard counts and lists archived licenses as attention or expired
  (`list-customer-dashboard-licenses.use-case.ts:44`).
- A removed company keeps its document: registering it again is a conflict with
  a company nobody can see. An update to a taken document, and the loser of two
  equal folder creations, are internal errors where a creation checked first
  gets a conflict.
- An update that names a document without its type, or the reverse, may leave the
  two in disagreement.
- The second of two deletions of a document overwrites who deleted it; the
  documents of a removed customer can still be opened by their id.
- A refresh or login under way when an account is deactivated still issues its
  tokens; reactivation makes refresh tokens valid that had been refused.

## 6. Not modelled

- Details and document URL of a license, reference lists: single scoped reads
  without state; there is no order of steps to get wrong.
- HTTP wiring, validation of single fields, throttling, configuration, logging,
  rendering of the PDF report, the storage drivers: formatting, I/O and library
  code. What their users rely on is in the models (a stored file keeps its name
  and stays; what a validator lets in is what a request may ask).
- The variation of an indicator between two months: a formula over the two
  values `MonthlyRecords` reads, shown in one place.
- The language model and PostgreSQL themselves, beyond the assumptions above.
- `prisma/seed.ts`: fills a development database.

## 7. Plan

The models cover every component that keeps state, and every safety property
that a run checks is proved. What could still be added:

1. `ComplianceViews`: bounds on the percentages for any number of conditions, the
   200 of `BlockAgreesForAnySize` replaced by what rounding can hide.
2. The two divergences of section 5 as abstract specifications of what the
   comments promise, so that a fix can be checked against them.
