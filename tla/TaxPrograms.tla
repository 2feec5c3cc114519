---------------------------- MODULE TaxPrograms ----------------------------
(* The programs around Danish and German tax (tax/): the lot book of an     *)
(* account, the report of a tax year, and the import of the ABIS list.      *)
(* The constants are those of their modules, which say what they mean; a    *)
(* name two of them declare has the program in front.                       *)
EXTENDS OneProgram

CONSTANTS
  LotIsins, LotCurrencies, Quantities, Prices, Fees, Ratios, LotMaxEvents, \* TaxLots
  TaxIsins, AskIsins, Values, TaxFlows, Pension, Quote, Months, Basiszins,
  TaxAsked, Rates, LastYear,                                             \* TaxYear
  AbisIsins, AbisYears, Lists, MaxImports, MaxManual                     \* AbisListing

VARIABLES
  lots, realised, paid, dust, applied, refused,                          \* TaxLots
  filed, file, prior, printed, taxed,                                    \* TaxYear
  listing, treatment, source, txn, imports, manuals, chosen, reopened    \* AbisListing

Lots == INSTANCE TaxLots WITH
  Isins <- LotIsins, Currencies <- LotCurrencies, MaxEvents <- LotMaxEvents

TaxYears == INSTANCE TaxYear WITH
  Isins <- TaxIsins, Flows <- TaxFlows, Asked <- TaxAsked, year <- filed, report <- printed

Abis == INSTANCE AbisListing WITH Isins <- AbisIsins, Years <- AbisYears

\* What the modules ask of their constants.
ASSUME TaxAssumption ==
  Lots!LotConstants /\ TaxYears!TaxConstants /\ Abis!AbisConstants
-----------------------------------------------------------------------------
LotsOff ==
  /\ lots = Off /\ realised = Off /\ paid = Off /\ dust = Off /\ applied = Off
  /\ refused = Off

TaxYearsOff == filed = Off /\ file = Off /\ prior = Off /\ printed = Off /\ taxed = Off

AbisOff ==
  /\ listing = Off /\ treatment = Off /\ source = Off /\ txn = Off
  /\ imports = Off /\ manuals = Off /\ chosen = Off /\ reopened = Off

TaxInit ==
  /\ Starts("tax lots", Lots!Init, LotsOff)
  /\ Starts("tax report", TaxYears!Init, TaxYearsOff)
  /\ Starts("abis", Abis!Init, AbisOff)

\* A step is one of the program's; what the others own stays as it is.
TaxNext ==
  /\ UNCHANGED program
  /\ program # "tax lots" => UNCHANGED <<lots, realised, paid, dust, applied, refused>>
  /\ program # "tax report" => UNCHANGED <<filed, file, prior, printed, taxed>>
  /\ program # "abis" => UNCHANGED <<listing, treatment, source, txn, imports, manuals, chosen,
                                     reopened>>
  /\ program = "tax lots" => Lots!Next
  /\ program = "tax report" => TaxYears!Next
  /\ program = "abis" => Abis!Next

taxProgramVars ==
  <<program,
    lots, realised, paid, dust, applied, refused,
    filed, file, prior, printed, taxed,
    listing, treatment, source, txn, imports, manuals, chosen, reopened>>

TaxSpec == TaxInit /\ [][TaxNext]_taxProgramVars
-----------------------------------------------------------------------------
(* Properties: what each program promises, stated in its own module.        *)

\* A sale keeps the average cost of the shares that remain, up to its rounding
\* (tax/lots.py).
SaleKeepsAverage == [][program = "tax lots" => Lots!KeepsAverage]_taxProgramVars

\* Cost is conserved by every event of a lot book, and the taxes of a run of years
\* net what the rules net: losses are carried forward and used once, a savings or
\* pension account that lost money pays nothing, and the German lump sum stays
\* within the fund's growth (tax/lots.py, tax/report_dk.py, tax/de_vorab.py).
TaxesAreNetted ==
  /\ program = "tax lots" => Lots!TypeOK /\ Lots!CostIsConserved
  /\ program = "tax report" => /\ TaxYears!TaxesHighWaterMark
                              /\ TaxYears!NettedBeforeTaxed
                              /\ TaxYears!VorabWithinGrowth

\* An instrument's tax treatment is the one its newest listing gives, unless a person
\* chose another, which no import takes back (tax/abis/loader.py).
OverrideSurvivesImports ==
  program = "abis" => /\ Abis!TypeOK
                      /\ Abis!TreatmentFollowsListing
                      /\ Abis!OverrideSurvivesImports
=============================================================================
