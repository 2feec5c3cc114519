----------------------------- MODULE MCPrograms -----------------------------
(* Every program one person runs at a time, on small instances, in one run: *)
(* those of TaxPrograms and ServicePrograms, whose constants Programs.cfg   *)
(* sets, and the others, which are instantiated here.  The reachable states *)
(* are the sum of theirs.                                                   *)
EXTENDS TaxPrograms, ServicePrograms, Integers, TLC

VARIABLES
  config, depot, month,                                                  \* LiquidDepot
  bridge, phase, low, high, steps,                                       \* BridgePayout
  order, spending, drawn, need, balance, basis, queue, gross, tax,
  depletion, start,                                                      \* DrawdownOrder
  member, projected, flow, earned, payout, public,                       \* PensionPath
  household, balanced, homes, cash, sheet, drag, found, report, past,    \* BalanceSheet
  base, scenario, presets,                                               \* ScenarioPresets
  db, loads, last, newest,                                               \* DepotLoads
  policy, stored, funds, loaded, whole, read,                             \* PfaStatements
  ledger, parent, facts, edits,                                          \* HouseholdReport
  assessed, searching, least, most, turns, given, target, stage, tooLittle,
  enough, probes,                                                        \* BridgeCapital
  today, worth, booked, published, rates, mart, grown                    \* ReturnSeries
-----------------------------------------------------------------------------
(* Tax. *)
MCRatios == {<<2, 1>>, <<1, 2>>, <<2, 5>>}

EurRate == <<"DKK", "EUR">> :> <<1, 7>>

MCFlows == {[in |-> 7, out |-> 3, dist |-> 2]}
MCQuote == "i1" :> 6
MCBasiszins == 1 :> -1 @@ 2 :> 20 @@ 3 :> 30
MCRates == {<<>>, EurRate}

\* A row's two year sets are disjoint; two share classes of one ISIN may disagree.
AbisRows ==
  {row \in [isin : {"i1", "i2"}, registered : SUBSET {1, 2}, unregistered : SUBSET {1, 2}] :
     row.registered \cap row.unregistered = {}}

MCLists == {{row, other} : row, other \in AbisRows}
-----------------------------------------------------------------------------
(* Depots and pensions. *)
DepotConfigs ==
  [type : {"ask", "frie_midler"}, regime : {"lager", "realisation"}, balance : {0, 90},
   basis : {0, 60, 120}, deposits : {0, 13}, contribution : {0, 7},
   netRate : {<<1, 10>>, <<11, 100>>, <<-3, 10>>}, dividendYield : {<<0, 1>>, <<1, 30>>},
   threshold : {5, 50}, taxSource : {"external", "depot"}]

Liquid == INSTANCE LiquidDepot WITH
  Configs <- DepotConfigs, Caps <- (1 :> 20 @@ 2 :> 20 @@ 3 :> 30), BaseYear <- 1,
  Horizon <- 4, MonthsInYear <- 4

BridgeConfigs ==
  [type : {"ask", "frie_midler"}, regime : {"lager", "realisation"}, balance : {3, 997},
   basis : {0, 600, 997}, months : {5, 14}, rate : {<<1, 100>>, <<1, 10>>, <<-1, 20>>},
   dividendYield : {<<0, 1>>, <<1, 20>>}, threshold : {15, 150}]

BridgeSearch == INSTANCE BridgePayout WITH
  Configs <- BridgeConfigs, Doublings <- 20, Bisections <- 10

CapitalConfigs ==
  [type : {"ask", "frie_midler"}, regime : {"lager"}, balance : {31}, basis : {31}, months : {12},
   rate : {<<1, 10>>, <<-1, 20>>}, dividendYield : {<<0, 1>>}, threshold : {4}]
  \cup
  [type : {"frie_midler"}, regime : {"realisation"}, balance : {31}, basis : {0, 20},
   months : {5, 12}, rate : {<<1, 10>>, <<-1, 20>>}, dividendYield : {<<0, 1>>, <<1, 20>>},
   threshold : {4}]

CapitalSearch == INSTANCE BridgeCapital WITH
  Configs <- CapitalConfigs, Targets <- {1, 12}, Doublings <- 20, Bisections <- 9,
  Iterations <- 10, bridge <- assessed, phase <- searching, low <- least, high <- most,
  steps <- turns

DrawAccount(kind, regime, threshold, from) ==
  [kind |-> kind, regime |-> regime, threshold |-> threshold, from |-> from]

DrawAccounts ==
  <<DrawAccount("cash", "none", 0, 1), DrawAccount("ask", "lager", 0, 1),
    DrawAccount("frie_midler", "realisation", 4, 1), DrawAccount("pension", "none", 0, 2)>>

Draw == INSTANCE DrawdownOrder WITH
  Accounts <- DrawAccounts, Openings <- {<<0, 0>>, <<17, 17>>, <<23, 9>>, <<40, 10>>},
  Orders <- {<<"cash", "frie_midler", "ask", "pension">>,
             <<"cash", "ask", "frie_midler", "pension">>},
  Spending <- {5, 19, 31}, Horizon <- 3, SubOre <- 8, Halvings <- 10,
  AskRate <- <<17, 100>>, PensionRate <- <<37, 100>>, LowRate <- <<27, 100>>,
  HighRate <- <<42, 100>>, year <- drawn

Rule(kind, e, amount, from, until) ==
  [kind |-> kind, entity |-> e, currency |-> "EUR", amount |-> amount, growth |-> 0,
   indexed |-> TRUE, from |-> from, until |-> until]

RuleSets ==
  {<<[Rule("salary", "a", 70, 0, 2) EXCEPT !.growth = 10, !.currency = "DKK"],
     Rule("dc_fraction", "a", 21, 0, 0),
     [Rule("contribution", "b", 9, 2, 0) EXCEPT !.indexed = FALSE]>>,
   <<Rule("salary", "a", 50, 0, 0), Rule("salary", "a", 31, 2, 0),
     Rule("dc_fraction", "a", 50, 2, 3), Rule("annual_eur", "a", 7, 0, 0)>>,
   <<Rule("dc_fraction", "a", 50, 2, 0),
     [Rule("annual_eur", "b", 5, 0, 0) EXCEPT !.indexed = FALSE],
     Rule("contribution", "a", 9, 0, 2)>>,
   <<Rule("dc_fraction", "a", 50, 0, 0)>>,
   <<Rule("salary", "a", 50, 3, 2)>>}

Template(e, livrente, ratepension, months, rate) ==
  [entity |-> e, retirementYear |-> 3, age |-> 67, livrente |-> livrente,
   ratepension |-> ratepension, months |-> months, annuityFactor |-> 5, monthlyRate |-> rate]

PensionPlans ==
  {[rules |-> rules, inflation |-> inflation, eurPerDkk |-> <<1, 7>>, marketRate |-> rate,
    palRate |-> pal, opening |-> opening, taxEnabled |-> taxed1, template |-> template,
    regimes |-> [x \in {"a"} |-> [salary |-> 42, accrual |-> 15, drawdown |-> 37]]] :
     rules \in RuleSets, inflation \in {0, 2, -3}, rate \in {-100, -30, 5}, pal \in {0, 15},
     opening \in {<<>>, "a" :> 3, "a" :> 40 @@ "b" :> 40}, taxed1 \in BOOLEAN,
     template \in {Template("a", 50, 50, 3, <<0, 1>>), Template("b", 30, 40, 4, <<1, 10>>),
                   Template("c", 30, 40, 4, <<1, 10>>), Template("a", 70, 40, 4, <<1, 10>>),
                   Template("a", 0, 90, 4, <<-1, 10>>)}}

Pensions == INSTANCE PensionPath WITH
  Plans <- PensionPlans, BaseYear <- 0, Horizon <- 3, PensionYears <- {1, 3, 5},
  AgeSchedule <- (2 :> 67 @@ 4 :> 68), Grundbeloeb <- 17,
  Tillaeg <- ("single" :> 40 @@ "married" :> 19), Modregning <- 309, Threshold <- 50,
  TopskatThreshold <- 300,
  Incomes <- {0, 49, 51, 60, 130, 300, 301, 395, 600, 601, 900},
  plan <- member, year <- projected
-----------------------------------------------------------------------------
(* The household plan. *)
SheetYears == 1 .. 4

SheetDepot(yearly, due, overflows) ==
  [closing |-> [y \in SheetYears |-> yearly * y], tax |-> [y \in SheetYears |-> due],
   overflow |-> [y \in SheetYears |-> IF overflows > 0 /\ y >= overflows THEN 1 ELSE 0]]

Bridge(e, a, from, months, valid) ==
  [entity |-> e, account |-> a, start |-> from, months |-> months, valid |-> valid, tax |-> 2]

Member(retire, pension, country, salary, reduced) ==
  [retire |-> retire, public |-> pension, country |-> country, reduced |-> reduced,
   salary |-> [y \in SheetYears |-> IF y <= retire THEN salary ELSE 0]]

Home(from, sale, growth) ==
  [start |-> from, value |-> 100, growth |-> growth, costs |-> 3, purchase |-> 7,
   sale |-> sale, saleCost |-> 10]

Loan(from, until) ==
  [start |-> from, principal |-> 90, rate |-> 10, amortization |-> 30, until |-> until]

Spends(currency, amount, ph, from, until, since) ==
  [currency |-> currency, amount |-> amount, phase |-> ph, from |-> from, until |-> until,
   inflation |-> 20, base |-> since]

HomesAndLoans ==
  {<<<<>>, <<>>>>} \cup
  {<<"h" :> Home(from, sale, growth), IF loan = 0 THEN <<>> ELSE "h" :> Loan(loan, until)>> :
     from \in {1, 2}, sale \in {0, 2, 3}, growth \in {0, -40}, loan \in {0, 1, 2}, until \in {0, 3}}

SheetPlans ==
  {[members |-> m, depots |-> "x" :> SheetDepot(c, 4, 0) @@ "y" :> SheetDepot(7, 1, 3),
    bridges |-> b, homes |-> h[1], loans |-> h[2], spending |-> s, eurPerDkk |-> <<1, 7>>,
    pension |-> [y \in SheetYears |-> y], growth |-> [y \in SheetYears |-> 3], pal |-> 15] :
     m \in {"a" :> Member(2, 4, "DK", 9, "no"),
            "a" :> Member(1, 0, "DK", 2, "no") @@ "b" :> Member(3, 5, "DE", 9, "all")},
     c \in {0, 10},
     b \in {<<>>, <<Bridge("a", "x", 1, 3, TRUE)>>, <<Bridge("a", "x", 2, 5, TRUE)>>,
            <<Bridge("a", "x", 0, 2, TRUE)>>, <<Bridge("a", "x", 2, 2, FALSE)>>,
            <<Bridge("a", "x", 1, 3, TRUE), Bridge("b", "x", 2, 3, TRUE)>>,
            <<Bridge("a", "x", 1, 1, TRUE), Bridge("b", "y", 3, 2, TRUE)>>},
     h \in HomesAndLoans,
     s \in {<<>>, <<Spends("DKK", 20, "any", 0, 0, 0)>>,
            <<Spends("EUR", 5, "bridge", 2, 0, 0), Spends("DKK", 9, "accumulation", 0, 3, 0),
              Spends("DKK", 9, "any", 3, 0, 2)>>}}

Sheets == INSTANCE BalanceSheet WITH
  Plans <- SheetPlans, Horizon <- 4, MonthsInYear <- 2, TopskatLimit <- 50, MaterialChange <- 4,
  plan <- household, year <- balanced

Pay(e, amount, from, until) == [entity |-> e, amount |-> amount, from |-> from, until |-> until]

BasePlan ==
  [retire |-> ("a" :> 2 @@ "b" :> 2), public |-> ("a" :> 4 @@ "b" :> 0), bridgeStart |-> 2,
   payoutYear |-> 2, salaries |-> <<Pay("a", 101, 0, 0), Pay("a", 33, 2, 3), Pay("b", 50, 0, 2)>>,
   dcRules |-> <<Pay("a", 21, 0, 0)>>,
   contributions |-> <<[entity |-> "a", currency |-> "DKK", annual |-> 10],
                       [entity |-> "b", currency |-> "EUR", annual |-> 3]>>,
   depots |-> <<[account |-> "x", currency |-> "DKK", annual |-> 11],
                [account |-> "y", currency |-> "DKK", annual |-> 0]>>,
   eurPerDkk |-> <<1, 7>>, pensionRate |-> 5, depotRate |-> 7, bridgeRate |-> 6,
   inflation |-> 2, ruleInflation |-> 2, spending |-> 100, oneOffs |-> <<>>, homes |-> <<>>,
   loans |-> <<>>]

Scenarios == INSTANCE ScenarioPresets WITH
  Plans <- {BasePlan}, Members <- {"a", "b"}, Accounts <- {"x", "y"}, Homes <- {"h"},
  Years <- {2, 3, 4}, Fractions <- {50, 75}, MonthlyDelta <- 3, MaxPresets <- 2, plan <- scenario
-----------------------------------------------------------------------------
(* Statements and exports. *)
Booking(day, value, text, isin, name, saldo) ==
  [date |-> day, value |-> value, text |-> text, isin |-> isin, name |-> name, saldo |-> saldo]

\* The ids grow from one digit to two with the second row, and one security is booked
\* a day before its value date.
Bookings ==
  <<Booking(1, 1, 5, "i1", "a", 9), Booking(1, 1, 1, "i2", "b", 7),
    Booking(2, 2, 2, "no isin", "no name", -1), Booking(2, 3, 3, "i1", "c", 8),
    Booking(3, 3, 4, "i2", "b", 5)>>

HoldingsFiles ==
  {[asOf |-> 1, held |-> "a" :> 1 @@ "b" :> 2], [asOf |-> 2, held |-> "c" :> 1],
   [asOf |-> 3, held |-> "b" :> 1], [asOf |-> 3, held |-> <<>>], [asOf |-> 2, held |-> "d" :> 1]}

GrowneyStatements ==
  {[asOf |-> 2, held |-> "i2" :> 4 @@ "i3" :> 1, names |-> "i2" :> "b2" @@ "i3" :> "d",
    cash |-> 3, rows |-> {[date |-> 1, isin |-> "i2", amount |-> 4],
                          [date |-> 2, isin |-> "i3", amount |-> 1]}],
   [asOf |-> 3, held |-> "i3" :> 1, names |-> "i3" :> "d", cash |-> 0,
    rows |-> {[date |-> 2, isin |-> "i3", amount |-> 1],
              [date |-> 3, isin |-> "i2", amount |-> -4]}]}

Depots == INSTANCE DepotLoads WITH
  Isins <- {"i1", "i2", "i3"}, Booked <- Bookings, Files <- HoldingsFiles,
  Statements <- GrowneyStatements, MaxLoads <- 3

SchemeYear(employer, private, own, result, fees, pal, out, held) ==
  [employer |-> employer, private |-> private, own |-> own, result |-> result, fees |-> fees,
   pal |-> pal, payout |-> out, funds |-> held]

PfaPolicies ==
  {<<[kind |-> "rate", opening |-> r,
      years |-> <<SchemeYear(5, p, o, result, 2, 1, 0, <<"a">>),
                  SchemeYear(5, 0, 1, -3, 1, 0, 4, <<>>)>>],
     [kind |-> k, opening |-> 0,
      years |-> <<SchemeYear(0, 4, 0, 2, 0, 1, 3, <<"b">>),
                  SchemeYear(0, 3, 0, 1, 1, 1, 0, <<"b", "a">>)>>]>> :
     r \in {0, 10}, p \in {0, 3}, o \in {0, 2}, result \in {-4, 0, 6}, k \in {"rate", "life"}}

Pfa == INSTANCE PfaStatements WITH
  Policies <- PfaPolicies, MaxLoads <- 3, loads <- read

\* A bank account whose profile may change its currency, and a PayPal account.
MCBankProfiles == {[name |-> "p", currency |-> c] : c \in {"DKK", "EUR"}}
-----------------------------------------------------------------------------
(* Services. *)

\* Prices: one fund with a ticker at a venue on file, and cash, which has no quote.
MCSuffixes == "XCSE" :> ".CO" @@ "XNYS" :> ""
MCReference == <<<<"a", 100>>, <<"b", -1>>>>
MCPriceThreshold == <<1, 100>>
MCPriceCatalog ==
  "f1" :> [name |-> "a", kind |-> "security", ticker |-> "A", dotted |-> FALSE, mic |-> "XCSE"]
  @@ "c" :> [name |-> "c", kind |-> "cash", ticker |-> "CASH", dotted |-> FALSE, mic |-> "none"]

Balance(e, account, date, amount) ==
  [person |-> e, account |-> account, property |-> "none", kind |-> "cash", currency |-> "DKK",
   day |-> date, value |-> amount]

Property(e, account, date, amount) ==
  [Balance(e, account, date, amount) EXCEPT !.kind = "real_estate", !.property = "home"]

MCManualFiles ==
  {<<Balance("ann", "savings", 1, 3), Balance("bo", "savings", 2, 5)>>,
   <<Balance("ann", "savings", 2, 0)>>, <<Property("bo", "home", 1, 7)>>}

\* Four artefacts' time: two in the first week, of which the first falls in the month
\* before, and two on the next day but one.
MCDay == <<1, 2, 3, 3>>
MCWeek == <<1, 1, 2, 2>>
MCMonth == <<1, 2, 2, 2>>

ImportRow(account, id, amount, valid) ==
  [account |-> account, id |-> id, amount |-> amount, valid |-> valid]

Upload(format, magic, marks, number, rows) ==
  [format |-> format, magic |-> magic, marks |-> marks, depot |-> number, rows |-> rows]

MCUploads ==
  {Upload("growney", "pdf", {"sutor", "pfa"}, "d1",
          <<ImportRow("d1", "k1", 5, TRUE), ImportRow("d1", "k2", 5, TRUE)>>),
   Upload("growney", "pdf", {"growney"}, "d2", <<ImportRow("d2", "k1", 5, TRUE)>>),
   Upload("pfa", "pdf", {"growney", "pfa"}, "none", <<ImportRow("p", "k1", 5, TRUE)>>),
   Upload("nordnet_transactions", "utf16", {"id first", "booking day"}, "none",
          <<ImportRow("n", "k1", 5, TRUE), ImportRow("n", "k2", 5, TRUE)>>),
   Upload("nordnet_transactions", "utf16", {"id first", "booking day"}, "none",
          <<ImportRow("n", "k1", 5, FALSE)>>),
   Upload("manual_balances", "text", {"decodes", "brace", "balances"}, "none",
          <<ImportRow("m", "k1", 5, TRUE), ImportRow("m", "k2", 5, FALSE)>>)}

MCPayloads ==
  {ImportRow("n", "k1", 5, TRUE), ImportRow("n", "k2", 7, TRUE), ImportRow("n", "k2", 5, FALSE)}

Entry(e, aliases) == [entity |-> e, aliases |-> aliases]

MCIndexCatalog ==
  [v1 |-> {Entry("aldi", {"aldi"}), Entry("aldi2", {"aldi"}), Entry("rema", {"rema 1000", "rema"})},
   v2 |-> {Entry("aldi", {"aldi"}), Entry("lidl", {"lidl"}), Entry("rema", {"rema 1000"}),
           Entry("lidl2", {"lidl x"})}]

MCContains == {<<"aldi", "l">>, <<"lidl", "l">>, <<"lidl x", "l">>, <<"rema 1000", "rema">>}
-----------------------------------------------------------------------------
(* The household report and the returns. *)
Reports == INSTANCE HouseholdReport WITH
  Transactions <- {"t1", "t2"}, CurrencyOf <- ("t1" :> "EUR" @@ "t2" :> "DKK"), LastDay <- 3,
  DaysInMonth <- 2, DaysInYear <- 4, Amounts <- {-8, 4}, Parts <- {-8, -4, 4},
  Windows <- {<<1, 2>>}, Categories <- {"food", "bread", "wage"},
  IncomeCats <- {"wage"}, Root <- "none",
  Forests <- {"food" :> "none" @@ "wage" :> "none" @@ "bread" :> p : p \in {"food", "none"}},
  RateOn <- (0 :> 0 @@ 1 :> 2 @@ 2 :> 4 @@ 3 :> 4), MaxEdits <- 4

\* A day of the market: growth, external flow and transfer of the euro and of the
\* krone account, and the ECB's rate.
Market(growth, flows, transfer, eurRate) ==
  [growth |-> "e" :> growth[1] @@ "d" :> growth[2], flow |-> "e" :> flows[1] @@ "d" :> flows[2],
   transfer |-> "e" :> transfer[1] @@ "d" :> transfer[2], rate |-> eurRate]

Still == <<1, 1>>

Returns == INSTANCE ReturnSeries WITH
  Accounts <- ("e" :> "EUR" @@ "d" :> "DKK"), Opening <- ("e" :> 4 @@ "d" :> 16), Horizon <- 3,
  FeedDays <- 2, Scale <- 8, LowRate <- -7, HighRate <- 57, RateScale <- 8, Iterations <- 6,
  FirstRate <- 4, day <- today, value <- worth,
  Markets <- {Market(<<Still, Still>>, <<0, 0>>, <<0, 0>>, 4),
              Market(<<<<2, 1>>, Still>>, <<2, 0>>, <<0, 0>>, 4),
              Market(<<Still, <<1, 2>>>>, <<0, 4>>, <<0, 0>>, 4),
              Market(<<Still, Still>>, <<0, 0>>, <<-2, 8>>, 4),
              Market(<<Still, Still>>, <<0, -8>>, <<0, 0>>, 4),
              Market(<<<<1, 2>>, <<3, 2>>>>, <<0, 0>>, <<0, 0>>, 8),
              Market(<<Still, Still>>, <<0, -8>>, <<1, -8>>, 8)}
-----------------------------------------------------------------------------
(* One program at a time. *)
Init ==
  /\ program \in {"tax lots", "tax report", "abis", "depot", "bridge", "drawdown",
                  "pension", "household", "presets", "loads", "pfa",
                  "index", "report", "capital", "prices", "manual", "staging", "returns", "bank",
                  "backups"}
  /\ TaxInit /\ ServiceInit
  /\ Starts("depot", Liquid!Init,
            config = Off /\ depot = Off /\ month = Off)
  /\ Starts("bridge", BridgeSearch!Init,
            bridge = Off /\ phase = Off /\ low = Off /\ high = Off /\ steps = Off)
  /\ Starts("drawdown", Draw!Init,
            order = Off /\ spending = Off /\ drawn = Off /\ need = Off /\ balance = Off
            /\ basis = Off /\ queue = Off /\ gross = Off /\ tax = Off /\ depletion = Off /\ start = Off)
  /\ Starts("pension", Pensions!Init,
            member = Off /\ projected = Off /\ flow = Off /\ earned = Off /\ payout = Off
            /\ public = Off)
  /\ Starts("household", Sheets!Init,
            household = Off /\ balanced = Off /\ homes = Off /\ cash = Off /\ sheet = Off
            /\ drag = Off /\ found = Off /\ report = Off /\ past = Off)
  /\ Starts("presets", Scenarios!Init,
            base = Off /\ scenario = Off /\ presets = Off)
  /\ Starts("loads", Depots!Init,
            db = Off /\ loads = Off /\ last = Off /\ newest = Off)
  /\ Starts("pfa", Pfa!Init,
            policy = Off /\ stored = Off /\ funds = Off /\ loaded = Off /\ whole = Off
            /\ read = Off)
  /\ Starts("report", Reports!Init,
            ledger = Off /\ parent = Off /\ facts = Off /\ edits = Off)
  /\ Starts("capital", CapitalSearch!Init,
            assessed = Off /\ searching = Off /\ least = Off /\ most = Off /\ turns = Off
            /\ given = Off /\ target = Off /\ stage = Off /\ tooLittle = Off /\ enough = Off
            /\ probes = Off)
  /\ Starts("returns", Returns!Init,
            today = Off /\ worth = Off /\ booked = Off /\ published = Off /\ rates = Off
            /\ mart = Off /\ grown = Off)

\* What the others own stays as it is.
OthersStay ==
  /\ program # "depot" => UNCHANGED <<config, depot, month>>
  /\ program # "bridge" => UNCHANGED <<bridge, phase, low, high, steps>>
  /\ program # "drawdown" => UNCHANGED <<order, spending, drawn, need, balance, basis, queue,
                                         gross, tax, depletion, start>>
  /\ program # "pension" => UNCHANGED <<member, projected, flow, earned, payout, public>>
  /\ program # "household" => UNCHANGED <<household, balanced, homes, cash, sheet, drag, found,
                                          report, past>>
  /\ program # "presets" => UNCHANGED <<base, scenario, presets>>
  /\ program # "loads" => UNCHANGED <<db, loads, last, newest>>
  /\ program # "pfa" => UNCHANGED <<policy, stored, funds, loaded, whole, read>>
  /\ program # "report" => UNCHANGED <<ledger, parent, facts, edits>>
  /\ program # "capital" => UNCHANGED <<assessed, searching, least, most, turns, given, target,
                                        stage, tooLittle, enough, probes>>
  /\ program # "returns" => UNCHANGED <<today, worth, booked, published, rates, mart, grown>>

Next ==
  /\ TaxNext /\ ServiceNext
  /\ OthersStay
  /\ program = "depot" => Liquid!Next
  /\ program = "bridge" => BridgeSearch!Next
  /\ program = "drawdown" => Draw!Next
  /\ program = "pension" => Pensions!Next
  /\ program = "household" => Sheets!Next
  /\ program = "presets" => Scenarios!Next
  /\ program = "loads" => Depots!Next
  /\ program = "pfa" => Pfa!Next
  /\ program = "report" => Reports!Next
  /\ program = "capital" => CapitalSearch!Next
  /\ program = "returns" => Returns!Next

vars ==
  <<taxProgramVars, serviceVars,
    config, depot, month,
    bridge, phase, low, high, steps,
    order, spending, drawn, need, balance, basis, queue, gross, tax, depletion, start,
    member, projected, flow, earned, payout, public,
    household, balanced, homes, cash, sheet, drag, found, report, past,
    base, scenario, presets,
    db, loads, last, newest,
    policy, stored, funds, loaded, read,
    ledger, parent, facts, edits,
    assessed, searching, least, most, turns, given, target, stage, tooLittle, enough, probes,
    today, worth, booked, published, rates, mart, grown>>

Spec == Init /\ [][Next]_vars
-----------------------------------------------------------------------------
(* Properties: what each program promises, stated in its own module.        *)

\* A depot's balance is what its flows left, no gain is taxed twice or never, a better
\* return never ranks lower, and the three contribution routers agree (sim/liquid.py,
\* sim/routing.py).
GainTaxedOnce ==
  program = "depot" => /\ Liquid!DepotConserves
                       /\ Liquid!GainTaxedOnce
                       /\ Liquid!RankingFollowsReturn
                       /\ Liquid!RoutingAgrees

\* The payment the bridge search returns is the highest that leaves nothing unpaid,
\* and with every payment it asks about the depot's money is all accounted for
\* (sim/liquid.py); the capital the search around it returns is the least that pays for
\* a spending (sim/bridge_spending.py).
PmtIsTheThreshold ==
  /\ program = "bridge" => BridgeSearch!BridgeConserves /\ BridgeSearch!PmtIsTheThreshold
  /\ program = "capital" => CapitalSearch!RequiredIsLeast

\* A retired household goes without only when every account is empty, no account is
\* oversold, a pension's balance is what its flows left, its payout divides it, and
\* one krone more of private income never costs the household money (sim/drawdown.py,
\* sim/cashflow.py, sim/payout.py, sim/folkepension.py).
UnfundedOnlyWhenEmpty ==
  /\ program = "drawdown" => Draw!UnfundedOnlyWhenEmpty /\ Draw!NoOverselling
  /\ program = "pension" => /\ Pensions!BalanceIsItsFlows
                           /\ Pensions!PayoutDividesBalance
                           /\ Pensions!NoPensionCliff

\* The household's balance sheet counts every krone once across depots, bridges and
\* homes, and calls a plan ready only when it is funded (sim/plan.py, sim/balance.py,
\* sim/readiness.py).
CountedOnce ==
  program = "household" => /\ Sheets!CountedOnce
                           /\ Sheets!DebtIsAccountedFor
                           /\ Sheets!NoBridgeTaxIsLost
                           /\ Sheets!ReadyMeansFunded

\* Presets applied one after another, in any order, cut salaries without gap or
\* overlap, share extra savings once, and keep pensions after work
\* (sim/household_scenarios.py).
PresetsCompose ==
  program = "presets" => /\ Scenarios!ReductionsTile
                         /\ Scenarios!SavingsAreShared
                         /\ Scenarios!PensionAfterWork

\* The newest holdings file decides what is held, whatever was loaded before it and
\* however often (ingest/nordnet/loader.py, ingest/growney/loader.py); what is stored of
\* a PFA statement adds up to its closing balance before payouts, whichever sign
\* deductions are printed with, and the funds stay with their scheme, except for the
\* rows the parser loses at a page break (ingest/pfa); a balance entered by hand counts
\* once (manual/service.py).
CompleteSnapshotHolds ==
  /\ program = "loads" => /\ Depots!CompleteSnapshotHolds
                          /\ Depots!ReloadIsNoop
                          /\ Depots!HeldWasTraded
                          /\ Depots!BookedOnce
                          /\ Depots!CashIsTheLastSaldo
  /\ program = "pfa" => Pfa!StoredReconciles /\ Pfa!FundsStayWithTheirScheme
  /\ program = "manual" => Manual!EnteredCountsOnce

\* The household report's trend, category tree and drill-down add up to its summary,
\* and its facts to what the bank booked (api/household_reporting.py,
\* analytics/household.py); a reported return is the growth of the days it covers,
\* whatever was paid in, out or between accounts (analytics/returns.py).
ReportAddsUp ==
  /\ program = "report" => /\ Reports!TrendAddsUp
                           /\ Reports!RollupsAgree
                           /\ Reports!DrillDownAddsUp
                           /\ Reports!FactsConserve
  /\ program = "returns" => /\ Returns!TwrIsGrowth
                            /\ Returns!IdleHouseholdEarnsNothing
                            /\ Returns!WindowsChain
                            /\ Returns!MwrHasSignOfGain
=============================================================================
