---------------------------- MODULE LiquidDepot ----------------------------
(* The accumulation phase of one liquid depot (sim/liquid.py                *)
(* project_liquid), year by year: an aktiesparekonto (ASK) or a free depot  *)
(* under the lager or the realisation regime, and the routing of savings    *)
(* between the two once the ASK deposit cap is reached (sim/routing.py,     *)
(* sim/contribution_strategy.py).  Amounts count øre, rates are ratios.     *)
EXTENDS DecimalMath, FiniteSetsExt

CONSTANTS Configs,     \* depot configurations tried; only valid ones are used
          Caps,        \* year -> ASK deposit cap, for the years on file
          BaseYear,    \* the year before the first projected one
          Horizon,     \* years projected
          MonthsInYear \* 12 in the code; the routing only needs it to be > 1

VARIABLES config,  \* LiquidDepotConfig
          depot,   \* balance, cost basis, ASK deposits and the totals of the flows
          month    \* the contribution router's months routed so far

depotVars == <<config, depot, month>>

AskRate == <<17, 100>>
LowRate == <<27, 100>>
HighRate == <<42, 100>>

\* compute_aktieindkomst_tax: 27 % up to the threshold and 42 % above it,
\* rounded once; a loss is taxed at nothing and forgotten.
AktieindkomstTax(gain, threshold) ==
  HalfEven(Least(Floor0(gain), threshold) * LowRate[1]
           + Floor0(gain - threshold) * HighRate[1], LowRate[2])

\* ask_cap_for_year: the last cap on file holds for every later year.
AskCap(year) ==
  IF year \in DOMAIN Caps THEN Caps[year] ELSE Caps[Max(DOMAIN Caps)]

IsRealisation(c) == c.regime = "realisation"

\* LiquidDepotConfig's validators, and project_liquid's check of the deposits
\* an ASK starts with.  The threshold is a constant of the configuration.
ValidConfig(c) ==
  /\ c.balance >= 0 /\ c.contribution >= 0 /\ c.threshold > 0 /\ c.basis >= 0
  /\ c.netRate[1] > -c.netRate[2]
  /\ c.type = "ask" => c.regime = "lager" /\ 0 <= c.deposits /\ c.deposits <= AskCap(BaseYear)
  /\ c.type = "frie_midler" => c.deposits = 0
  /\ ~IsRealisation(c) => c.dividendYield[1] = 0 /\ c.basis = c.balance

Opened(c) ==
  [year |-> BaseYear, balance |-> c.balance, basis |-> c.basis, deposits |-> c.deposits,
   gross |-> 0, taxable |-> 0, due |-> 0, deducted |-> 0, paidIn |-> 0, overflow |-> 0]

Init ==
  /\ config \in {c \in Configs : ValidConfig(c)}
  /\ depot = Opened(config)
  /\ month = 0

\* _compute_annual_tax: lager taxes the year's return, realisation only the
\* dividend.
AnnualTax(c, d, gross) ==
  IF IsRealisation(c)
  THEN LET dividend == Times(d.balance, c.dividendYield)
       IN  [taxable |-> dividend, dividend |-> dividend,
            due |-> AktieindkomstTax(dividend, c.threshold)]
  ELSE [taxable |-> gross, dividend |-> 0,
        due |-> IF c.type = "ask" THEN Times(Floor0(gross), AskRate)
                ELSE AktieindkomstTax(gross, c.threshold)]

\* _apply_ask_cap.
Deposited(c, d, year) ==
  IF c.type = "ask" THEN Least(c.contribution, Floor0(AskCap(year) - d.deposits))
  ELSE c.contribution

\* dividend_net of project_liquid: what is left of the dividend when the depot
\* pays the tax itself; the alternative forgets the tax.
ReinvestedWhole(c, tax, deducted) == tax.dividend

Reinvested(c, tax, deducted) ==
  tax.dividend - (IF IsRealisation(c) THEN deducted ELSE 0)

\* One iteration of project_liquid.  Tax the depot pays itself comes off the
\* balance under lager and off the reinvested dividend under realisation.
YearStep(c, d) ==
  LET gross == Times(d.balance, c.netRate)
      tax == AnnualTax(c, d, gross)
      deducted == IF c.taxSource = "depot" THEN tax.due ELSE 0
      reinvested == Reinvested(c, tax, deducted)
      deposit == Deposited(c, d, d.year + 1)
      balance == IF IsRealisation(c)
                 THEN d.balance + (gross - tax.dividend) + reinvested + deposit
                 ELSE d.balance + gross - deducted + deposit
  IN  [year |-> d.year + 1,
       balance |-> balance,
       basis |-> IF IsRealisation(c) THEN d.basis + deposit + reinvested ELSE balance,
       deposits |-> IF c.type = "ask" THEN d.deposits + deposit ELSE 0,
       gross |-> d.gross + gross,
       taxable |-> d.taxable + tax.taxable,
       due |-> d.due + tax.due,
       deducted |-> d.deducted + deducted,
       paidIn |-> d.paidIn + deposit,
       overflow |-> d.overflow + (c.contribution - deposit)]

Year ==
  /\ depot.year < BaseYear + Horizon
  /\ depot' = YearStep(config, depot)
  /\ UNCHANGED <<config, month>>
-----------------------------------------------------------------------------
(* compare_liquid_strategies: fund profiles on one opening balance.         *)

Projected(c, n) ==
  LET d[k \in 0 .. n] == IF k = 0 THEN Opened(c) ELSE YearStep(c, d[k - 1])
  IN  d[n]

\* terminal_balance_net_of_liquidation_tax, by which strategies are ranked.
NetOfLiquidation(c, d) ==
  d.balance - (IF IsRealisation(c) THEN AktieindkomstTax(d.balance - d.basis, c.threshold) ELSE 0)

\* The configuration a profile is projected with; a depot of a comparison opens
\* without unrealised gain.
ProfileConfig(c, netRate) == [c EXCEPT !.netRate = netRate, !.basis = c.balance]

Outranks(c, other, n) ==
  NetOfLiquidation(c, Projected(c, n)) >= NetOfLiquidation(other, Projected(other, n))
-----------------------------------------------------------------------------
(* Routing: the same cap rule at two granularities and with a fixed cap.    *)

\* One period of simulate_routing and simulate_routing_monthly.
Split(amount, cap, cumulative) ==
  LET ask == Least(amount, Floor0(cap - cumulative))
  IN  [ask |-> ask, frie |-> amount - ask, cumulative |-> cumulative + ask,
       exhausted |-> Floor0(cap - (cumulative + ask)) = 0]

\* simulate_routing(_monthly): the splits of n periods, as a function.
Splits(amount, cap, start, n) ==
  LET s[k \in 1 .. n] ==
        Split(amount, cap, IF k = 1 THEN start ELSE s[k - 1].cumulative)
  IN  s

\* route_contributions replays the years before the one it is asked for.
RouteContributions(amount, cap, start, year) ==
  LET past == Splits(amount, cap, start, year - 1)
      cumulative == IF year = 1 THEN start ELSE past[year - 1].cumulative
      split == Split(amount, cap, cumulative)
  IN  <<split.ask, split.frie>>

\* explain_contribution_strategy: the first month and year the cap is used up.
ExhaustionMonth(months) ==
  LET full == {m \in DOMAIN months : months[m].exhausted}
  IN  IF full = {} THEN 0 ELSE Min(full)

ExhaustionYear(m) == BaseYear + ((m - 1) \div MonthsInYear) + 1

\* The router walks the months of the horizon beside the projection.
RouteMonth ==
  /\ month < Horizon * MonthsInYear
  /\ month' = month + 1
  /\ UNCHANGED <<config, depot>>

Next == Year \/ RouteMonth

Spec == Init /\ [][Next]_depotVars
-----------------------------------------------------------------------------
\* Money is neither made nor lost: the balance is the opening balance, what
\* was earned and paid in, less the tax the depot itself paid; and what the
\* cap kept out is reported as overflow (project_liquid,
\* _closing_balance_and_basis: the dividend tax must not be debited twice).
DepotConserves ==
  /\ depot.balance = config.balance + depot.gross + depot.paidIn - depot.deducted
  /\ depot.paidIn + depot.overflow = (depot.year - BaseYear) * config.contribution

\* Every krone earned is taxed once: either it has been taxable income of some
\* year, or it is the unrealised gain the cost basis leaves to be taxed at the
\* sale, whoever paid the yearly tax and whatever the dividends were.
GainTaxedOnce ==
  depot.taxable + (depot.balance - depot.basis)
    = depot.gross + (config.balance - config.basis)

NetRates == {c.netRate : c \in Configs}

\* Of two funds that differ in their return alone, the comparison never ranks the worse
\* one higher: no tax bracket, deposit cap, rounding or deferral to the sale takes more
\* than the better return earns (compare_liquid_strategies).
RankingFollowsReturn ==
  LET n == depot.year - BaseYear
  IN  \A r, worse \in NetRates :
        worse[1] * r[2] < r[1] * worse[2] =>
          Outranks(ProfileConfig(config, r), ProfileConfig(config, worse), n)

\* Three computations of the cap agree: months add up to the year that holds
\* them, a single year's replay gives the row of the projection, and nothing
\* flows to the ASK after the month that is announced as its last
\* (simulate_routing, simulate_routing_monthly, route_contributions,
\* explain_contribution_strategy).
RoutingAgrees ==
  config.type = "ask" =>
    LET cap == AskCap(BaseYear)
        monthly == Splits(config.contribution, cap, config.deposits, Horizon * MonthsInYear)
        yearly == Splits(config.contribution * MonthsInYear, cap, config.deposits, Horizon)
        y == (month \div MonthsInYear) + 1
        last == ExhaustionMonth(monthly)
    IN  /\ (month % MonthsInYear = 0 /\ month > 0) =>
             /\ yearly[y - 1].cumulative = monthly[month].cumulative
             /\ RouteContributions(config.contribution * MonthsInYear, cap, config.deposits, y - 1)
                  = <<yearly[y - 1].ask, yearly[y - 1].frie>>
        /\ (last > 0 /\ month > last) => monthly[month].ask = 0
        /\ last > 0 => yearly[ExhaustionYear(last) - BaseYear].exhausted
        /\ (last > 0 /\ ExhaustionYear(last) > BaseYear + 1)
             => ~yearly[ExhaustionYear(last) - BaseYear - 1].exhausted
=============================================================================
