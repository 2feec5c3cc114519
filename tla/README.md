# Penge: formal models

TLA+ models of Penge, a self-hosted personal finance platform: how its
analytics are kept fresh, how statements are imported and loaded, how bank
consents become syncs, how documents are filed, how household decisions and
rules hold together, and what its tax, return, report and retirement programs
compute. TLC checks small instances of the models; TLAPS proves, for every value
of the constants, what matters most about the refresh protocol, the four
concurrent services, the programs around tax, and the price, manual, import-row,
backup and merchant-index programs.

Paths below are relative to `src/` of the repository; `penge/` stands for
`src/src/penge/`. `PROJECT.json` maps each definition to the lines it models.

## 1. Inventory

| Component | State | Operations | Interacts with | What makes it correct |
|---|---|---|---|---|
| Guarded refresh (`penge/ops/net_worth_refresh.py`, `api/routes.py`) | lock file, `pending` marker, shadow and live schemas | write intents, scheduled worker, `POST /meta/refresh`, dbt build and promotion | every writer of raw tables; bank connections; dbt | no change is forgotten; readers see one consistent snapshot; changes get shown |
| Import sessions (`penge/api/imports`) | session row, staged rows, stored upload | upload, patch, suggest, commit, discard, lazy expiry | loaders; refresh lock | only what was reviewed is loaded, completely; closed sessions stay closed |
| Import rows (`api/imports/detect.py`, `staging.py`) | flags and ids of staged rows | detect, validate, flag duplicates, correct, commit | import sessions; raw tables | flags are true when shown; only valid rows are loaded |
| Bank connections (`penge/api/connections`) | connection row; the bank's consent and session | link, authorize, sync, error records | Enable Banking; refresh worker; loaders | a granted session is stored at its own row; the status tells what a sync needs; sync is all accounts |
| Document vault (`penge/vault`) | inbox, vault tree, hash index in memory and on disk | watch, scan, OCR, file, dedupe, roll back | synced devices; file system | no document is lost or kept twice; the inbox drains |
| Household rules (`penge/household`) | classifications, rules, previews, revisions, audit | classify, learn, preview, apply, undo, bank-sync invalidation | loaders; refresh marker | no decision is overwritten unseen; previews apply only if still true; active rules agree with what they were learned from |
| Household report (`analytics/household.py`, `api/household_reporting.py`) | fact table, category tree | dbt run, report for a window, drill-down | household rules; bank movements | trend, tree and list add up to the totals |
| Returns (`analytics/returns.py`, `mart_returns_daily`) | ECB rates, daily marts | load rates, build, summarize | loaders; marts | flows are no return; windows chain |
| Merchant reference (`penge/api/merchant_reference`) | generations, refresh state row | refresh, activate, search | npm registry | one active generation; failed refreshes keep the old one; a search reads one |
| Depot loaders (`ingest/nordnet`, `ingest/growney`) | instruments, transactions, holding snapshots | load files in any order | imports, CLI | the newest file says what is held; a reload changes nothing |
| PFA loader (`ingest/pfa`) | transactions, fund snapshots per scheme | parse a broken-up PDF, load | imports, CLI | what is stored adds up to the closing balance |
| Enable Banking, PayPal loaders, account metadata | raw tables, household revisions | map, upsert in one transaction, announce; correct owner or kind | connections; household rules | a reload changes nothing; corrections stand; the movements add up to the balance |
| Prices (`ingest/prices`) | price rows | list, fetch, cross-check, store | Yahoo; instruments | a row is of one answer; a later run's close stands |
| Manual balances (`penge/manual`) | persons, accounts, items, snapshots | record balance, record property value | imports, CLI | idempotent per item and date; accounts are personal |
| Tax (`penge/tax`) | lot book, yearly input file, ABIS list, treatments | lots, lager, ASK, PAL, Vorabpauschale, reports, list import, override | reports | cost is conserved; losses are netted once; overrides survive imports |
| Simulation (`penge/sim`) | none that is kept | depots, bridges, drawdown, pensions, plan, scenarios, Monte Carlo | API, CLI | money is conserved and counted once; searches find the threshold they look for |
| Dashboards, web app, MCP server, monthly report | none that others read | queries | marts | read-only |
| Backup scripts (`scripts/`) | artefacts, sidecars, scratch directories | dump, snapshot, prune, restore | file system, each other | retention keeps its quotas; no torn artefact is restored |

Hard behaviours: FastAPI runs handlers in threads, so requests interleave at
every database call; three kinds of processes (API, worker, CLIs) share the
lock and the marker; anything may be killed between two commits; dbt, Enable
Banking, the file system and the database fail; synced folders lose events and
replace files. In the sequential programs the hard part is arithmetic: rounding
at every step, searches that trust a curve to be monotone, files loaded out of
order, years and households handed from one program to the next. The hazards in
`PROJECT.json` name each place.

## 2. Plan

1. `Freshness`, `NetWorthRefresh` with its proofs: the promise all writers
   share, so it came first.
2. `ImportSession`, `VaultWatcher`, `BankConnection`: the concurrent services.
3. `HouseholdRules`: decisions, rules, previews, undo and bank syncs.
4. The programs of one person at a time, on one run (`MCPrograms`): tax,
   simulation, loaders, merchant index, report, returns, backups.
5. The proofs (section 5): first the refresh protocol, then every safety
   property of the services, then the tax programs and the programs that run
   beside one another.
6. Left: refinements of the services by abstract promises of their own, as
   `Freshness` is for the refresh.

`NetWorthRefresh` is where the components meet: a sync, an import commit and a
household session are its writers, and the worker's loop over connections is
its `SyncConnection`. `BankConnection`, `ImportSession` and `HouseholdRules`
open up what happens inside one such writer; `StagedRows`, `DepotLoads`,
`PfaStatements` and `ManualEntries` what an import stages and loads;
`BankLoads` what a sync stores and announces, which `HouseholdRules` receives;
`HouseholdReport`, `ReturnSeries` what is read from the marts. `BridgeCapital`
runs `BridgePayout` as the search inside its own. The abstract specification is
`Freshness`, which `NetWorthRefresh` implements.

## 3. Modules

### NetWorthRefresh (`Freshness`, `MCNetWorthRefresh`, `NetWorthRefreshProofs`)

State: `lock` and `marker` are the files `refresh.lock` and `pending`; `raw`
counts committed raw changes; a mart in `shadow` or `live` holds the version it
was built from; `pc` and `ctx` are each process and its `_WriteTracker`.
Actions follow the code: `WriterEnter`, `Commit`, `ReportCommit`, `WriterExit`
are one `refresh_write_intent`; `WorkerEnter`, `SyncConnection`,
`EndConnection`, `StartDbt` or `SkipDbt` are `run_refresh`; `DropShadow` to
`Cleanup` are `DbtRunner.refresh`; `TriggerEnter` is `POST /meta/refresh`. Household
sessions report before they commit (`ReportEarly`), all others after.
`LoseReport` is a commit whose answer is lost; the history variable
`unreported` remembers that the tracker missed a commit or a standing marker.

A lock that is held changes nothing (HTTP 503), so only its success is a step.
Staging models are views and marts are tables, hence only marts carry a
version. The reconciliation of `outcome.writes` with the tracker never does
anything with the observer `service.sync` is given. A killed worker takes its dbt
child with it (one container).

### ImportSession (`MCImportSession`, `ImportSessionProofs`)

One session (others are independent of it), read by each handler once:
`GetSession` and `ExpireIfStale` are `_load_session`, `Accepted` is what each
handler checks on the record it read. `GetRows`, `TakeLock`, `LoadRecords` or
`RecordBalance`, `MarkCommitted` are the commit; `MarkDiscarded` and
`RemoveFile` the discard. A row's payload is its version; `raw` holds what was
last loaded under the row's natural key. The three sources stand for the three
ways a commit writes: one transaction, one per manual entry, and an empty
holdings snapshot that is revalidated from the stored file. `GiveUp` stands for
every 409, 503 and database error. Staging ends in one of three ways: stored
(`StageRows`), not stored and its directory removed (`StagingFails`), or stored but
answered with an error, so that the directory of a stored session is removed
(`StagingUnanswered`). History: `raced` (two requests in flight together), `late`
(overdue when the request came), `unanswered` (the last of the three).

### VaultWatcher (`MCVaultWatcher`, `VaultWatcherProofs`)

`inbox`, `vault`, `text` are files (a sidecar is whose text it holds), `mem` and
`disk` the two copies of the hash index, `seen` and `sha` what the worker read, `queue`
the work queue (as a set: handling a path twice in a row is handling a missing file). The worker's stages follow `_handle_path` and
`file_document`; a move is a rename, or across file systems a copy and an
unlink, each of which can fail. `Sync` is a device, `Scan` the ticker,
`LoseIndex` an unreadable `.index.json`, `Restart` a death or stop at any
point. A content stands for its hash; files are dropped whole, which is what
`_wait_until_stable` is for; there is one watcher process. History: `dropped`,
`undone` (rolled back), `misread` (came between OCR and hash), `swapped`
(replaced between hash and removal).

### BankConnection (`MCBankConnection`, `BankConnectionProofs`)

`row` is `bank_connection`, `consent` what Enable Banking knows. A consent, its
code, state and session share the name of the connection that asked. Links and
callbacks run without the lock; syncs hold it: `SyncStart` is the route,
`WorkerStart`, `WorkerNext`, `WorkerEnd` the scheduled loop over connections
that were listed once. `SetStatus` is an update by id, whatever the row is by
then. An exchange is answered with a session (`Exchange`), with an error status that
is recorded on the row (`ExchangeRefused`, `RecordFailedExchange`), or not at all:
an exception of the HTTP client is not an `EnableBankingError`, so nothing is
recorded and the row stays `linking` (`ExchangeUnanswered`). In the last two the bank
may have granted the session all the same (`NoAnswer`), and with a session in hand the
database may still fail (`AuthorizeBreaks`). History: `lost` holds the consents whose
session was granted and then lost, `blind` the codes that came without their state,
`raced` that requests overlapped. All connections are to one bank, the case
where codes can be confused; a callback that brings a state brings the matching
code or a stale one.

### HouseholdRules (`MCHouseholdRules`, `HouseholdRulesProofs`)

Every write takes the household advisory lock for its whole transaction, so a
write is one action; what races is what was read before it. An editor opens a
movement and saves later against the revision it saw (`CheckRevision`), a
preview is computed and applied later (`StillCandidate`), and a bank sync
changes movements under both (`Invalidate`, `ClassifyNew`). Rules are learned
from the audit trail (`NewRule`), as the code does, not from the current rows.
Categories, merchants and amounts are small sets; a split is a function to
parts. `MaxWrites` bounds the writes of a behaviour. `Rows`, `Rules`, `Evidences`
and `Books` are the tables' columns as sets, and `TypeOK` says that the state is
made of them; a movement without a row is `None`, which is no row
(`NoRowAssumption`).

### The programs (`OneProgram`, `TaxPrograms`, `ServicePrograms`, `MCPrograms`)

Twenty programs that share no state are checked on one run: `program`
(`OneProgram`) says which one a behaviour is about, the variables of the others
are `Off`. `TaxPrograms` composes `TaxLots`, `TaxYear` and `AbisListing`,
`ServicePrograms` the price, manual, import-row, backup, merchant and bank programs;
each has a specification of its own (`TaxSpec`, `ServiceSpec`), about which
`TaxProofs` and `ServiceProofs` prove their theorems. `MCPrograms` extends both,
instantiates the others and conjoins all initial predicates and next-state
relations, so its `Spec` implies both. `DecimalMath` holds the roundings of Python's `Decimal` that they share.

- `TaxLots` is the lot book of `tax/lots.py`: buys, sales, splits, merges and
  refused events; quantities count millionths, costs the last digit the context
  keeps. `TaxYear` is `penge-tax-year`: a file grows by a year, and each year's
  run prints a Danish and a German report from which the next year's loss is
  copied. `AbisListing` is the import of the Skat list, a transaction of three
  statements, with manual overrides committing in between.
- `LiquidDepot` is `project_liquid` year by year, the comparison of strategies
  and the three contribution routers. `BridgePayout` is `compute_bridge_pmt`,
  one bisection step an action over the monthly simulation `Flows`;
  `BridgeCapital` is the search around it. `DrawdownOrder` is
  `evaluate_drawdown_strategy`, one account a step.
- `PensionPath` is `cashflow.project` with the tax overlay, the payout, the
  Folkepension and the Topskat warning. `BalanceSheet` is `project_household`
  and the balance, tax timeline, risk and readiness reports read from it;
  depots, bridges and pensions arrive as yearly figures, which the modules
  above compute. `ScenarioPresets` rewrites plans as `model_copy` does, without
  validation, in any order.
- `DepotLoads` is the Nordnet and growney loaders on shared tables with the
  mart that carries a snapshot forward; `PfaStatements` puts statements that
  break over pages together again: a break falls anywhere in a scheme's summary or
  in its fund list (once per scheme and statement), the optional "Udbetaling" row is printed and passed over, and
  `whole` remembers which parts of which year a loaded statement showed without a
  break that costs rows; `StagedRows` is what an import session says of its
  rows; `ManualEntries` is two writers creating the same person or item,
  statement by statement; `PriceHistory` is overlapping price runs beside
  restated closes and changed listings.
- `BankLoads` is one account at a bank or at PayPal: the bank books, restates and
  renames, a new consent changes the uid, a person corrects owner or kind, and
  syncs fetch, map and store in one transaction or fail on the way. Entries have
  an id of their own, share one, get a new one with every request, or none.
- `Backups` is `backup.sh`, `snapshot.sh` and `prune.sh` beside one another,
  each failing, interrupted or cut off at any step, and the check `restore.sh`
  makes first. Time is a calendar of few seconds with their day, week and month.
- `MerchantReference` is a refresh that fails or is killed at any step, with a
  search reading in several statements beside it. `HouseholdReport` is the fact
  table of a dbt run and the report computed from it and the live category tree.
  `ReturnSeries` is the ECB rates, the daily return mart and the chain-linked
  and money-weighted returns of every window.

Rates are ratios of small numbers, a month's net rate is a value of the
configuration (the code derives it in floating point), and values in euro are
not rounded in `ReturnSeries`.

## 4. Runs

| Run | Instance | Shows |
|---|---|---|
| `NetWorthRefresh` | writer, household session, 2 workers, trigger, 2 connections, 2 marts, 3 raw changes, 2 crashes | `NoLostRefresh`, `LiveIsOneSnapshot`, `PromotionIsCurrent`, and the refinement `Promise` of `Freshness` |
| `NetWorthRefreshLive` | 1 worker, 1 connection, 2 raw changes, 1 crash | `ChangesGetShown` under `FairSpec` |
| `NetWorthRefreshDoc` | as the first | the comment of `household.py:66` without its exception: violated |
| `ImportSession` | 2 request slots, 2 rows, 1 correction, 1 restart, every source | staged sessions have their file unless their staging went unanswered, only reviewed rows are loaded, nothing overdue is loaded; without overlap a committed session is complete and final |
| `ImportSessionAudit` | the same | `CommittedIsFinal` with overlapping requests: violated |
| `VaultWatcher` | 2 names, 2 documents, 3 drops, 1 restart, 1 lost index | documents survive, the index tells the truth, no second copy |
| `VaultWatcherLive` | 2 names, 1 document, 2 drops, 1 restart | `InboxDrains` under `FairSpec` |
| `VaultWatcherRetry` | as the first | the rollback comment: violated, the only copy is unlinked |
| `BankConnection` | 2 links, 2 request slots, 2 accounts, 2 windows, 1 restart | sessions and statuses agree, a session that was granted is stored unless it was lost on one of the named ways, ok means every account |
| `HouseholdRules` | 2 movements (one not yet synced), 1 label, 2 merchants, 2 categories, 1 editor, 4 writes | decisions, previews, rules and splits hold together |
| `Programs` | one small instance of each program | the properties below |
| `BankConnectionState` | the same | `RightConnection` for codes without their state: violated |

Why these bounds are enough. Every lock protocol here has one holder at a
time, so two competitors and a crashed holder give all orders of two intents
around one refresh; a third raw change lets one be shown, one be pending and one
arrive meanwhile, and a second crash strikes the recovery from the first. Two
marts are what it takes to disagree. Two requests are what the stale reads need
(one reads, the other writes), two rows what a half-done loop needs. Two names
and two documents give the same content under two names and two contents under
one name, and three drops a replacement after a filing. Two links to one bank
are the ambiguity the state exists for. TLC explores each instance completely;
the counters `MaxRaw`, `MaxCrashes`, `MaxEdits`, `MaxDrops`, `MaxLosses` bound
what the environment does and never what the code may do.

`HouseholdRules` has one movement the household knows and one a sync brings, so
that a rule learned from the first meets the second; two categories are what it
takes to disagree and to split; four writes are a decision, a rule or preview, a
bank sync or undo in between, and the write that was prepared before it. Merchants
and categories are symmetric.

`Programs` bounds each program on its own (`Programs.cfg`, `MCPrograms`): an event stream of four
events for the lot book, three tax years, horizons of four years with four
months each, three loads of any files in any order, two entries, two days
and two syncs of a bank account with one change between them, two catalog
versions and four generations, three days of returns, four backups, snapshots,
prunes and power cuts. The figures are
small on purpose: they put every bracket, quota, rounding and sign change inside
the instance. `BankLoads` (8.8 million states) and `Backups` (five
events, three months) were also explored on larger instances of their own.

Deadlock is checked except in the vault's runs and in `Programs`: when every file is dealt with
and the environment's bounds are used up, the watcher waits for the next file, and each program
ends when its stream, file or horizon is worked off.

What the twelve properties of `Programs` say:

| Property | Programs | Says |
|---|---|---|
| `SaleKeepsAverage` | `TaxLots` | a sale leaves the average cost of the remaining shares, up to its own rounding |
| `TaxesAreNetted` | `TaxLots`, `TaxYear` | no event loses or makes cost; a loss is netted once and before anything is taxed; the savings account taxes only above its high-water mark; the Vorabpauschale stays within the growth |
| `OverrideSurvivesImports` | `AbisListing` | the newest listing decides, a person's choice outlives it, also one made during an import |
| `GainTaxedOnce` | `LiquidDepot` | money is conserved, every gain is taxed once, a better return never ranks lower, the routers agree |
| `PmtIsTheThreshold` | `BridgePayout`, `BridgeCapital` | every payment up to the one found leaves money and every larger one does not; the capital found supports the spending and one unit less does not |
| `UnfundedOnlyWhenEmpty` | `DrawdownOrder`, `PensionPath` | nobody goes without while an account holds money; pension flows, payout and means test are consistent |
| `CountedOnce` | `BalanceSheet` | each krone is in one place, debts and bridge taxes are not lost, ready means funded |
| `PresetsCompose` | `ScenarioPresets` | two presets in any order leave salaries without gap or overlap and share extra savings once |
| `CompleteSnapshotHolds` | `DepotLoads`, `PfaStatements`, `ManualEntries` | what is stored is what the newest source said, whatever was loaded or repeated before; PFA transactions add up to the change of the balance before payouts and funds stay with their scheme, except for rows lost at a page break |
| `StoredIsWhole` | `PriceHistory`, `ManualEntries`, `StagedRows`, `Backups`, `BankLoads` | what overlapping, failing or killed processes leave is whole: each price row one run's, each account one person's, each flag true, no torn backup restored or left behind, and the newest backup of every day, week and month within the quotas survives every prune; a repeated bank sync writes nothing and undoes no correction, the household hears of each movement as new once, and movements add up to the balance |
| `SearchReadsOneCatalog` | `MerchantReference` | a search reads one whole catalog; "unique" is unique; a failed refresh keeps the catalog and never calls it current |
| `ReportAddsUp` | `HouseholdReport`, `ReturnSeries` | trend, tree, drill-down and facts agree; returns are growth, never flows, and windows chain |

Each is the conjunction of properties that the program's own module states and comments.

Each property has a mutant: a variant of one action with a plausible bug
("Faulty variant" in the modules, never part of `Next`) under which TLC must find the property violated.

### Fairness

`NetWorthRefresh`: a process that is not killed goes on (weak fairness). The
worker's entry is strongly fair: the systemd timer is persistent and starts it
again and again, and the lock is free again and again because every holder
leaves. dbt's steps and the marker inspection are strongly fair, that is, they
may fail any number of times but not for ever; if dbt is broken for good
nothing can be promised. Writers, the trigger and crashes have no fairness
of arrival.

`VaultWatcher`: the ticker and the worker thread are weakly fair; taking a path
from the FIFO queue, OCR, hashing and the final removal from the inbox are
strongly fair for each path, again failing only finitely often.

### Findings

- A commit whose answer is lost takes the marker back on the error path, so
  analytics are stale with nothing pending until the next write (`NetWorthRefreshDoc`).
- A request that read a session before its commit overwrites `committed`
  (`ImportSessionAudit`).
- A failed sidecar or index write deletes the only copy of a document
  (`VaultWatcherRetry`).
- A code without its state can be bound to another link once its own link has
  failed (`BankConnectionState`).

### Divergences without a run

Met while modelling, and not checked by a run of their own: the models follow the
code, and where a property would fail for this reason it says so as an exception.

Bank and broker data
- A re-consent can rotate the account uid (`docs/connectors/paypal.md:53`), on which
  `enablebanking/loader.py:87` keys the account: it then exists twice and counts twice.
  PayPal details use the identification hash instead. `LedgerMatchesBalance` excepts it.
- A shared `entry_reference` collapses entries; an entry identified by its volatile
  `transaction_id` is stored again by every sync; a currency change leaves the snapshot of the old currency.
- PayPal's `_source_fields` contain the transaction id that `mapping.py:129-131` calls
  mutable, so a repeated sync may write a revision although `paypal/loader.py:106`
  promises "no false refresh".
- Nordnet: a holdings file older than what is loaded can bring positions no file ends;
  repeating a load that renamed a security is refused, though `docs/connectors/nordnet.md`
  says it only touches `updated_at`. Rows of one value date are ordered by their ids as
  strings (`parser.py:436-444`), where "10" comes before "9", so the cash balance of the
  day may be that before its last row; and an export loaded again that ends earlier puts
  the older balance of a value date back. `CashIsTheLastSaldo` excepts both.
- growney never writes a zero for sold securities or spent cash; PFA never for a
  dropped fund.
- PFA (`ingest/pfa/parser.py`): an "Udbetaling" row is passed over (356-357, as
  `docs/connectors/pfa.md:54-56` says), so the transactions of a year with a payout differ
  from the change of the balance by the payout. A page break loses rows wherever the table after
  it does not start with one of `_CONTINUATION_PREFIXES` (656-694): before "Egen
  indbetaling" the rest of the summary, before "Udbetaling" the closing balance (which is
  not stored), and anywhere in an "Investeringsprofil" the funds after it.
  `StoredReconciles` and `FundsStayWithTheirScheme` except what was lost so.
- A corrected growney row gets a new content-hash id and is inserted beside the original.
- `manual/service.py` looks persons and instruments up before inserting them without a
  unique key, so two entries at once can create both twice.
- Two overlapping price runs may leave the older close.
- `routes.py` says a series that cannot be chain-linked reports an error, but a household day
  on which one currency has no rate is summed without it (`mart_returns_daily.sql:72`).

Simulation
- Two bridge templates may name one account; a template that is skipped still removes
  its account from the balance sheet (`balance.py:106`), while `tax_timeline.py` still taxes it.
- `real_estate`: a mortgage that starts no later than the base year never gets its debt.
- The home purchase preset books the cost twice and the down payment not at all; the
  part-time preset cuts the contribution and the salary it is a share of.
- `RetireInYear` accepts the year of the public pension, which the member's validator refuses.
- A tiny bridge target makes the inner search raise; the last doubling of the capital is
  assessed but not used. A lump-sum payout can be off by a cent.
- Risk findings are unique by code and year, so a second member's is dropped.
- The ranking of strategies ignores tax that is paid from outside the depot.

Scripts and services
- Dumps and snapshots share prune's buckets: a snapshot later in the day costs the dump.
- A power cut leaves a truncated artefact without sidecar, which prune counts as the
  newest of its bucket and keeps in place of a whole one; `RetentionCovers` excepts it.
- prune sweeps the scratch directory of a snapshot that is running, and sweeps nothing
  when there is no artefact at all.
- The `INT`/`TERM` trap of `backup.sh` does not exit: a signal while the checksum is written
  removes the artefact, and the script goes on to report success.
- `create_import` removes the upload directory on any exception (`routes.py:233-235`), also
  when the COMMIT of `create_session` took place and only its answer was lost: the session
  is staged without its file, and an empty snapshot can no longer be revalidated.
- `authorize` records only what Enable Banking answers with an error. A transport error, or
  a database error in `mark_authorized` after the code was spent, records nothing: the row
  stays `linking`, and the code cannot be used again.
- A PATCH between the commit's reading of the rows and its lock is answered with success and
  not loaded (`routes.py:416-430`).
- A crash after `mkdir` and before the session row leaves an upload directory nobody removes
  (`api/imports/routes.py:190`); two watchers on one vault overwrite each other's index (`dedupe.py:97`).

## 5. Proofs

Every theorem holds for every value of the constants that the named assumptions
allow. The assumptions are `ASSUME`s of the modules, which TLC evaluates in the
runs; `TaxAssumption` and `ServiceAssumption` conjoin what the instantiated
modules state of their own constants. Each module proves `Spec => []IInv` for an
inductive invariant `IInv`, and its properties from that.

| Module | Theorems (property) | Assumptions |
|---|---|---|
| `NetWorthRefreshProofs` | `TypeCorrect` (`TypeOK`), `RefreshIsNeverLost` (`NoLostRefresh`), `OneSnapshot` (`LiveIsOneSnapshot`), `PromotionsAreCurrent` (`PromotionIsCurrent`), `Refinement` (`Promise`) | `RefreshConstants`: process kinds are disjoint, `NoProc` is none of them, there is a mart |
| `ImportSessionProofs` | `TypeCorrect` (`TypeOK`), `KeepsUpload` (`UploadIsKept`), `LoadsOnlyReviewed` (`OnlyReviewedRowsLoaded`), `NeverLoadsOverdue` (`OverdueIsNeverLoaded`), `CommitLoadsAll` (`CommittedIsLoadedAlone`), `CommitIsFinal` (`CommittedIsFinalAlone`) | `ImportConstants`, `NoRowAssumption`: rows are finitely many numbers, `NoRow` is no row, `Free` no request |
| `BankConnectionProofs` | `TypeCorrect` (`TypeOK`), `AuthorizedIsSyncable` (`AuthorizedHasSession`), `SpentIsStored` (`SpentConsentIsStored`), `StatusIsTruthful` (`StatusTellsSessionAlone`), `SyncIsComplete` (`SyncCoversAllAccounts`) | `ConnectionConstants`: `None` and `BadCode` name no connection, there is a window |
| `VaultWatcherProofs` | `TypeCorrect` (`TypeOK`), `NoDocumentLost` (`DocumentsSurvive`), `IndexTellsTheTruth` (`IndexedIsComplete`), `FiledOnce` (`NoSecondCopy`) | `VaultConstants`: `Nothing` and `Torn` are no documents |
| `HouseholdRulesProofs` | `TypeCorrect` (`TypeOK`), `NobodyDisagrees` (`ActiveIsUnanimous`), `RuleWorkStands` (`RuleWorkIsCurrent`), `SplitsAddUp` (`ConservesSource`), `DecisionsStand` (`DecisionsAreSeen`), `PreviewsApplyAsListed` (`AppliedAsPreviewed`) | `HouseholdConstants`, `NoRowAssumption`: finitely many categories, no amount of zero, `None` is nothing else |
| `TaxProofs` | `CostStays`, `YearsAreNetted`, `TaxesStayNetted` (`TaxesAreNetted`), `SalesKeepAverage` (`SaleKeepsAverage`), `OverridesSurvive` (`OverrideSurvivesImports`) | `TaxAssumption`: finitely many instruments, quantities not negative, ratios positive (`LotConstants`; prices and fees may be negative); finitely many funds, amounts are whole, exempt parts at most the whole (`TaxConstants`); finitely many years of the ABIS list (`AbisConstants`) |
| `ServiceProofs` | `PricesStayWhole`, `AccountsStayPersonal`, `FlagsStayTrue`, `BackupsStayWhole`, `RetentionStaysCovered`, `SyncsStayTrue`, `StoredStaysWhole` (`StoredIsWhole`), `OneActive`, `FailureHidesNothing`, `SearchIsConsistent` (`SearchReadsOneCatalog`) | `ServiceAssumption`: the rows of an upload are a sequence (`RowConstants`); catalogs are finite, a search asks for at least one reference (`ReferenceConstants`); timestamps, days, weeks and months are whole numbers, quotas natural ones (`BackupConstants`), which `prune.sh` refuses to run without; amounts are whole numbers of the smallest unit, and `None` is no person (`BankConstants`) |

The properties of the last two modules are those of the run `Programs`: its `Spec`
implies `TaxSpec` and `ServiceSpec`.

### The inductive invariants

*NetWorthRefresh.* `NoLostRefresh` is not inductive: it says nothing of a writer
that is about to remove the marker. `IInv` adds the missing parts: the process
that is not idle holds the lock, so there is at most one; while it writes, the
marker is there; what its tracker has not seen is either shown, was pending
before, or is remembered in `unreported`; while dbt runs, `raw` stands still and
every mart built so far has that version; a tracker that says `ok` stands for live
marts that are current. From `IInv` each property follows in one step, and the
refinement maps `Commit` to `Write`, `Promote` to `Publish`, a removed marker to
`Settle`, a created one to `Owe`, and all else to stuttering.

*ImportSession.* What a request may do rests on what it read some steps ago, so
`IInv` says how far that memory can be from the session. Two parts hold whatever
overlaps: a loader only writes rows of its snapshot that the snapshot includes
(`TodoIsIncluded`), and a request that came too late no longer believes in "staged"
once it acts (`LateIsRefused`). The rest needs requests that do not overlap
(`AloneUnlessRaced`): then what a request saw is what the session still is, and
what a commit has not left to do is loaded. `ImportSessionAudit` shows that
without this condition `CommittedIsFinal` is false.

*BankConnection.* Updates by id are safe for the session because a row that was
seen with one never loses it (`RowInHand`), which no property states by itself.
`CodeInHand` says for whom the code in a callback's hands was issued, and that
without its state (`blind`) it may be for another link; a session that was granted and
is in nobody's hands is stored or in `lost`, which each way of losing one fills; `LoadedInOneWindow` that a
sync which shrank its window has loaded every account again.

*VaultWatcher.* A file is deleted as a duplicate because the index in memory knows
its hash, so it is that index, not the file read back after a restart, of which
completeness must be known (`KnownIsComplete`, `DiskInMem`); and nothing may touch
the vault's copy of a hash it knows, which is what `KnownInHand` says of the worker
between its steps. `FileInHand` says that the file in hand is still the one that was
hashed, unless a device replaced it in between (`swapped`).

*HouseholdRules.* A write is a composition of rewrites of the book (the row, the
audit, then up to two rules that learn), and between them the properties do not
hold. `Sound(b)` is stated of a book and not of the state: rules are numbered,
an active rule's category is in the evidence (`Backed`), unreviewed work of a rule
says what the active rule says (`RuleWork`). Each rewrite is a lemma about books,
and each action follows from those it calls. `Balanced` says of every row, drifted
or not, that its split adds up to the amount it was saved for; `ConservesSource` is
then that the amount is still the bank's. `DraftsAge` gives `DecisionsAreSeen`: an
open form holds its row or one with a smaller revision, so an equal revision means
an equal row.

*Tax (`LotInv`, `TaxInv`, `AbisInv`).* `CostIsConserved` is inductive once lots are
known to be whole numbers of the smallest unit. `OpenCost` folds over the
instruments, so the step is: a book that differs in one lot differs in its total by
that lot's cost (`TotalChanged`); a merge is two such changes. `SaleKeepsAverage` rests
on `HalfEvenBounds`: a ratio rounds to a whole number at most half a unit of the divisor
away, whatever the rounding of ties. `TaxesHighWaterMark` says that what the savings
account was taxed on so far, less the loss it carries, is what it gained so far.
Years are added to a file and never changed, so a year's report is the same
whenever it is printed (`Carried`), and what a run prints is that report (`Told`);
the sums over accounts go through `SumFacts`. Of a listing, the treatment follows its
newest year (`SomeLatest`); between the statements of an import `AbisTxn` says which of
the three it has done, and which choices a person made meanwhile.

*Prices (`PriceInv`).* A fetched row is on offer (`offered`) from the moment it is
fetched, and a stored row is one that was (`PriceRow`). That the newer close stands needs
more: unless runs overlapped, one at a time is active and has fetched after
everything that is stored (`OneAtATime`).

*Manual balances (`ManualInv`).* What a writer has looked up is what the table says of
that id, because tables only grow (`Grown`); so an account goes to the person its
entry names, though two writers may both have found nobody.

*Import rows (`RowInv`).* A flag is computed from a probe of the raw tables at some
commit and shown after others. `Truthful` dates it: a row that was not there when it was
probed and is there now was loaded by a later commit.

*Backups (`BackupInv`).* Names carry their kind, so a dump and a snapshot never write
one another's file (`JobsApart`); a job that says "written" has a whole file unless
prune removed it (`WrittenIsWhole`), and every file that is torn is in some job's hands
until the power fails (`NothingTornStays`).

*Retention (`RetentionInv`).* Every bucket within its quota, counted over what was ever
listed, has a file that nothing listed of it is newer than (`Covers`). A prune that lists
adds what is there, and the newest of that and of what covered covers again
(`ListCovers`); a prune that removes works from an index taken earlier, but its index
is part of what was listed, so with fewer buckets above, what covers a bucket is picked
(`RemoveCovers`). `PruneIsStable` is a fact of the operator: what is picked of a set is
picked of every part of it that holds it, because the buckets within the quota all keep an
artefact (`PickedStay`). No order of the calendar is used: days, weeks and months may
number timestamps in any way.

*Bank syncs (`BankInv`).* The properties speak of what was loaded, so the invariant says
what a load in the making knows. While it is still `whole`, nothing has happened at the
bank since its first request: it has the account's uid and name, every entry as
booked (`AsBooked`), and a balance that is the sum of the entries up to its day
(`BalancedInv`). A whole load therefore leaves all entries stored (`AllLoaded`) and, newest
of all, that balance (`LastSnapshot`); a balance dated later could hide it, so no
balance is dated later than this bank dates them (`TableInv`). With entries that all
have their own reference, nothing is stored but entries (`StockInv`), and the sum of
the stored is the sum of the booked under another name (`SumOfRenamed`).
`StoredInv` says of the load stored last that its rows are still there, its account but for
the owner a person chose since: repeating it then changes nothing (`KeptIsNoWrite`),
whatever two entries with one reference or an entry with none left out.

*Merchant index (`IndexInv`).* A search keeps the number of a generation, not its
records. `Pinned` is what makes its second statement safe: the generation chosen is the
active one, or the one a promotion superseded, and a promotion deletes only what an
earlier one superseded (`TwoAtMost`, `NewestIsActive`).

### Sums

`SumFacts` proves what the sum of a function over a finite set is: a member and the
rest, in any order, nothing for zeroes, changed by one term by as much. The
community modules define such folds by recursion over the set, and the library's
induction theorems take an operator as a parameter, which the provers cannot
instantiate. The lemmas go round that: among the subsets of a finite set for which
a fact fails there is a smallest one (`Smallest`), and the recursion is unfolded
there once. The same argument shows that a sum and a count survive an injective
renaming (`SumRenamed`), which is how stored movements are compared with booked
entries.

### Only model-checked

- `ChangesGetShown` and `InboxDrains`: liveness and fairness are out of the prover's reach.
- The four violated statements of section 4, which are false.
- `GainTaxedOnce`, `CountedOnce`, `ReportAddsUp`: each compares what two recursions over
  accounts, years, days or categories compute, which induction over data would have to show.
- `UnfundedOnlyWhenEmpty`: a sale nets enough by a bisection of so many steps, and a
  pension's flows are folds over its rules; besides, `NoOverselling` depends on there
  being enough steps for the balance, which no constant states.
- `PmtIsTheThreshold`: that a bisection finds the threshold rests on a simulation
  being monotone in the payment with every month rounded, again by induction over months.
- `PresetsCompose`: its instances are plans of a few rules; a proof would be one case
  split per preset and pair, over sequences that are filtered and mapped.
- `CompleteSnapshotHolds`: loaders fold files of any length into tables, by recursion
  over data.

## 6. Not modelled

- The command lines of Nordnet, growney, PFA, manual, prices and FX as writers of the
  refresh protocol: they take neither lock nor marker, so it promises them nothing. What
  they load is modelled.
- Mapping suggestions of an import (`api/imports/mcp_bridge.py`): an outside service's
  proposals, row metadata that no other part reads; a patch by a person is modelled.
- The vault classifier (keywords to a folder) and its health endpoint; several watchers on
  one vault; several banks, and bank products beyond accounts and payment details.
- Monte Carlo, the parameter registry, planning surfaces, snapshots of a run, goals and
  stress tables, and the sim command line: random sampling, views, or loops over the
  projections that are modelled. No state is kept between calls.
- Heartbeat, error reporting and the monthly report; the Streamlit dashboards, the React
  web application and the MCP server: readers of the marts and callers of the API.
- dbt models other than the daily positions, returns and household facts: joins and
  renamings without a decision of their own.
- Migrations and deployment; keys, labels and options of the backup scripts, and what
  `pg_dump`, `psql`, `tar` and DuckDB do with the data.
- Parsing of dates, numbers and names, and the wording of messages, everywhere.
