-------------------------- MODULE ServicePrograms --------------------------
(* The programs that may run beside one another, or beside a person at      *)
(* work: price runs, entries by hand, import sessions in review, the backup *)
(* scripts, the merchant index with its refreshes, and the syncs of a bank  *)
(* account.  The constants are those of their modules, which say what they  *)
(* mean; a name two of them declare, or a common one, has the program in    *)
(* front.                                                                   *)
EXTENDS OneProgram

CONSTANTS
  PriceIds, Suffixes, PriceDays, Closes, PriceOpening, PriceCurrencies, DefaultCurrency,
  Runs, Reference, PriceThreshold, PriceCatalog, PriceMaxChanges,        \* PriceHistory
  ManualFiles, Writers, ManualHorizon, MaxStarts,                        \* ManualEntries
  Uploads, Payloads, Sessions, MaxPatches,                               \* StagedRows
  BackupDay, BackupWeek, BackupMonth, Daily, Weekly, Monthly,
  BackupMaxEvents,                                                       \* Backups
  IndexCatalog, Queries, Contains, Limits, MaxGenerations,               \* MerchantReference
  BankOwners, BankPeople, BankProfiles, BankAmounts, BankRestated,
  BankIdentities, BankLastDay, BankMaxEntries, BankMaxChanges,
  BankMaxRequests                                                        \* BankLoads

VARIABLES
  listedIn, yahoo, prices, run, clock, offered, overlapped,              \* PriceHistory
  people, accounts, items, snapshots, writer, entered, raced,            \* ManualEntries
  imported, session, commits, patches,                                   \* StagedRows
  now, files, sidecars, jobs, scratch, prune, events, killed, listed,
  blurred,                                                               \* Backups
  state, gens, records, refresh, aged, upstream, search, passed,         \* MerchantReference
  provider, bankDay, entries, dating, uid, profile, raw, sync, answered,
  told, fresh, changes, requests                                         \* BankLoads

PriceRuns == INSTANCE PriceHistory WITH
  Ids <- PriceIds, Days <- PriceDays,
  Opening <- PriceOpening, Currencies <- PriceCurrencies, Threshold <- PriceThreshold,
  Catalog <- PriceCatalog, MaxChanges <- PriceMaxChanges, currency <- listedIn

Manual == INSTANCE ManualEntries WITH Files <- ManualFiles, Horizon <- ManualHorizon

Rows == INSTANCE StagedRows WITH loaded <- imported

Artefacts == INSTANCE Backups WITH
  Day <- BackupDay, Week <- BackupWeek, Month <- BackupMonth, MaxEvents <- BackupMaxEvents

Index == INSTANCE MerchantReference WITH Catalog <- IndexCatalog

Bank == INSTANCE BankLoads WITH
  Owners <- BankOwners, Known <- BankPeople, Profiles <- BankProfiles, Amounts <- BankAmounts,
  Restated <- BankRestated, Identities <- BankIdentities, LastDay <- BankLastDay,
  MaxEntries <- BankMaxEntries, MaxChanges <- BankMaxChanges, MaxRequests <- BankMaxRequests,
  day <- bankDay, booked <- entries, db <- raw, last <- answered

\* What the modules ask of their constants.
ASSUME ServiceAssumption ==
  /\ Rows!RowConstants /\ Index!ReferenceConstants
  /\ Artefacts!BackupConstants /\ Bank!BankConstants
-----------------------------------------------------------------------------
PricesOff ==
  /\ listedIn = Off /\ yahoo = Off /\ prices = Off /\ run = Off /\ clock = Off
  /\ offered = Off /\ overlapped = Off

ManualOff ==
  /\ people = Off /\ accounts = Off /\ items = Off /\ snapshots = Off
  /\ writer = Off /\ entered = Off /\ raced = Off

RowsOff == imported = Off /\ session = Off /\ commits = Off /\ patches = Off

ArtefactsOff ==
  /\ now = Off /\ files = Off /\ sidecars = Off /\ jobs = Off /\ scratch = Off
  /\ prune = Off /\ events = Off /\ killed = Off /\ listed = Off /\ blurred = Off

IndexOff ==
  /\ state = Off /\ gens = Off /\ records = Off /\ refresh = Off /\ aged = Off
  /\ upstream = Off /\ search = Off /\ passed = Off

BankOff ==
  /\ provider = Off /\ bankDay = Off /\ entries = Off /\ dating = Off /\ uid = Off
  /\ profile = Off /\ raw = Off /\ sync = Off /\ answered = Off /\ told = Off
  /\ fresh = Off /\ changes = Off /\ requests = Off

ServiceInit ==
  /\ Starts("prices", PriceRuns!Init, PricesOff)
  /\ Starts("manual", Manual!Init, ManualOff)
  /\ Starts("staging", Rows!Init, RowsOff)
  /\ Starts("backups", Artefacts!Init, ArtefactsOff)
  /\ Starts("index", Index!Init, IndexOff)
  /\ Starts("bank", Bank!Init, BankOff)

\* A step is one of the program's; what the others own stays as it is.
ServiceNext ==
  /\ UNCHANGED program
  /\ program # "prices" => UNCHANGED <<listedIn, yahoo, prices, run, clock, offered,
                                       overlapped>>
  /\ program # "manual" => UNCHANGED <<people, accounts, items, snapshots, writer, entered,
                                       raced>>
  /\ program # "staging" => UNCHANGED <<imported, session, commits, patches>>
  /\ program # "backups" => UNCHANGED <<now, files, sidecars, jobs, scratch, prune, events,
                                        killed, listed, blurred>>
  /\ program # "index" => UNCHANGED <<state, gens, records, refresh, aged, upstream, search,
                                      passed>>
  /\ program # "bank" => UNCHANGED <<provider, bankDay, entries, dating, uid, profile, raw,
                                     sync, answered, told, fresh, changes, requests>>
  /\ program = "prices" => PriceRuns!Next
  /\ program = "manual" => Manual!Next
  /\ program = "staging" => Rows!Next
  /\ program = "backups" => Artefacts!Next
  /\ program = "index" => Index!Next
  /\ program = "bank" => Bank!Next

serviceVars ==
  <<program,
    listedIn, yahoo, prices, run, clock, offered, overlapped,
    people, accounts, items, snapshots, writer, entered, raced,
    imported, session, commits, patches,
    now, files, sidecars, jobs, scratch, prune, events, killed, listed, blurred,
    state, gens, records, refresh, aged, upstream, search, passed,
    provider, bankDay, entries, dating, uid, profile, raw, sync, answered, told, fresh, changes,
    requests>>

ServiceSpec == ServiceInit /\ [][ServiceNext]_serviceVars
-----------------------------------------------------------------------------
(* Properties: what each program promises, stated in its own module.        *)

\* A merchant search reads one whole catalog while refreshes fail, crash and promote
\* around it (api/merchant_reference).
SearchReadsOneCatalog ==
  program = "index" => /\ Index!ActiveIsWhole
                       /\ Index!SearchReadsOneCatalog
                       /\ Index!UniqueIsUnique
                       /\ Index!FailureKeepsCatalog

\* What is left by processes that overlap, fail or are killed is whole: of overlapping
\* price runs every row is one run's, and of two runs in turn the newer close stands
\* (ingest/prices); an account entered by hand is one person's (manual/service.py); what
\* a reviewed import flags is true and what it loads is valid (api/imports/staging.py);
\* no torn backup is restored, or outlives the script that wrote it, and of those taken
\* the newest of every day, week and month within the quotas survives every prune
\* (scripts/); a repeated bank sync writes nothing, keeps what a person corrected, tells
\* the household of every movement once, and leaves movements that add up to the balance
\* (ingest/enablebanking, ingest/paypal, api/account_metadata.py).
StoredIsWhole ==
  /\ program = "prices" => PriceRuns!RowsAreWhole /\ PriceRuns!NewestFetchStands
  /\ program = "manual" => Manual!AccountsArePersonal
  /\ program = "staging" => Rows!FlagsAreTrue /\ Rows!OnlyValidRowsLoaded
  /\ program = "backups" => /\ Artefacts!RestoreIsWhole /\ Artefacts!NothingTornStays
                            /\ Artefacts!RetentionCovers /\ Artefacts!PruneIsStable
  /\ program = "bank" => /\ Bank!RepeatIsNoWrite
                         /\ Bank!CorrectionsStand
                         /\ Bank!HouseholdWasTold
                         /\ Bank!LedgerMatchesBalance
                         /\ Bank!DetailsKeepIdentity
=============================================================================
