SPECIFICATION Spec
CONSTANTS
  LotIsins = {"i1", "i2"}
  LotCurrencies = {"DKK", "EUR"}
  Quantities = {0, 1, 3}
  Prices = {2}
  Fees = {0, 1}
  Ratios <- MCRatios
  LotMaxEvents = 4
  TaxIsins = {"i1"}
  AskIsins = {"a1", "a2"}
  Pension = "p"
  Values = {0, 9}
  Months = {7}
  LastYear = 3
  TaxFlows <- MCFlows
  Quote <- MCQuote
  Basiszins <- MCBasiszins
  TaxAsked = {{"DK", "DE"}, {"DK"}}
  Rates <- MCRates
  AbisIsins = {"i1", "i2"}
  AbisYears = {1, 2}
  Lists <- MCLists
  MaxImports = 2
  MaxManual = 2
  PriceIds = {"f1", "c"}
  Suffixes <- MCSuffixes
  PriceDays = {1, 2}
  Closes = {105}
  PriceOpening = 100
  PriceCurrencies = {"DKK", "USD"}
  DefaultCurrency = "DKK"
  Runs = {"full", "last30"}
  Reference <- MCReference
  PriceThreshold <- MCPriceThreshold
  PriceCatalog <- MCPriceCatalog
  PriceMaxChanges = 2
  BackupDay <- MCDay
  BackupWeek <- MCWeek
  BackupMonth <- MCMonth
  Daily = 1
  Weekly = 2
  Monthly = 2
  BackupMaxEvents = 4
  ManualFiles <- MCManualFiles
  Writers = {"cli", "api"}
  ManualHorizon = 2
  MaxStarts = 2
  Uploads <- MCUploads
  Sessions = {"s1", "s2"}
  MaxPatches = 2
  Payloads <- MCPayloads
  IndexCatalog <- MCIndexCatalog
  Queries = {"aldi", "rema", "l"}
  Contains <- MCContains
  Limits = {1, 2}
  MaxGenerations = 4
  BankOwners = {"ann"}
  BankPeople = {"bo"}
  BankProfiles <- MCBankProfiles
  BankAmounts = {3}
  BankRestated = {5}
  BankIdentities = {"own", "shared", "volatile"}
  BankLastDay = 2
  BankMaxEntries = 2
  BankMaxChanges = 1
  BankMaxRequests = 2
INVARIANTS
  TaxesAreNetted
  OverrideSurvivesImports
  GainTaxedOnce
  PmtIsTheThreshold
  UnfundedOnlyWhenEmpty
  CountedOnce
  PresetsCompose
  CompleteSnapshotHolds
  StoredIsWhole
  SearchReadsOneCatalog
  ReportAddsUp
PROPERTIES
  SaleKeepsAverage
\* Every program ends: a stream of events, a file or a horizon is worked off.
CHECK_DEADLOCK FALSE
