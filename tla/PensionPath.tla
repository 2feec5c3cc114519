---------------------------- MODULE PensionPath ----------------------------
(* Salaries, savings and pensions of a household's members, year by year    *)
(* (sim/cashflow.py project), the tax overlay on them (sim/tax.py), and     *)
(* what the pension pays from the retirement year on: the private payout    *)
(* (sim/payout.py), the means-tested Folkepension and the Topskat warning   *)
(* (tax/dk/folkepension.py, tax/dk/topskat.py).  Money is counted in cents  *)
(* or oere; a rate is a number of per cent.                                 *)
EXTENDS DecimalMath, FiniteSetsExt, SequencesExt

CONSTANTS Plans,       \* plans tried: rules, rates and opening balances
          BaseYear, Horizon,
          PensionYears,    \* years in which a public pension may start
          AgeSchedule,     \* year -> statutory pension age from that year on
          Grundbeloeb, Tillaeg,  \* monthly basic amount; supplement by civil status
          Modregning, Threshold, \* per mille taken, above this yearly income
          TopskatThreshold,
          Incomes          \* further private incomes the means test is tried on

VARIABLES plan,    \* the configuration being projected
          year,    \* last projected year
          flow,    \* entity -> YearlyFlow of that year
          earned,  \* history: entity -> all accruals and growth so far
          payout,  \* PayoutProjection of the retired member, or Unpaid
          public   \* FolkepensionResult, or Unpaid

pensionVars == <<plan, year, flow, earned, payout, public>>

Unpaid == [status |-> "none"]
Always == 0   \* a bound that is not set (None)

\* _is_active.
IsActive(rule, y) ==
  /\ rule.from # Always => y >= rule.from
  /\ rule.until # Always => y <= rule.until

\* The validators of the three kinds of rule and of CashflowConfig.
WindowOK(rule) == rule.from # Always /\ rule.until # Always => rule.from <= rule.until

ValidRule(rule) ==
  /\ WindowOK(rule)
  /\ rule.amount > 0
  /\ rule.kind = "salary" => rule.growth > -100
  /\ rule.kind = "dc_fraction" => rule.amount <= 100

Earners(p) == {r.entity : r \in {q \in ToSet(p.rules) : q.kind = "salary"}}

\* project refuses a fraction of a salary that no rule can ever pay.
Projectable(p) ==
  /\ \A r \in ToSet(p.rules) :
       /\ ValidRule(r)
       /\ r.kind = "dc_fraction" /\ r.entity \notin Earners(p) => r.from # Always
  /\ p.eurPerDkk[1] > 0 /\ p.inflation >= -50 /\ p.inflation <= 100
  /\ p.marketRate >= -100 /\ p.palRate \in 0 .. 99
  /\ \A e \in DOMAIN p.opening : p.opening[e] >= 0

Entities(p) == {r.entity : r \in ToSet(p.rules)}

\* _compound, after the conversion of a rule's amount to EUR.
Compound(p, rule, rate, periods) ==
  LET c == IF rule.currency = "DKK" THEN p.eurPerDkk ELSE <<1, 1>>
  IN  HalfEven(rule.amount * c[1] * (100 + rate) ^ periods, c[2] * 100 ^ periods)

\* The sum of what one kind of active rule pays an entity in one year.
Paid(p, e, y, kinds, Amount(_)) ==
  LET rules == SelectSeq(p.rules, LAMBDA r : /\ r.entity = e /\ r.kind \in kinds
                                             /\ IsActive(r, y))
  IN  FoldLeft(LAMBDA sum, r : sum + Amount(r), 0, rules)

Salary(p, e, y) ==
  Paid(p, e, y, {"salary"},
       LAMBDA r : Compound(p, r, p.inflation + r.growth, y - BaseYear))

Contribution(p, e, y) ==
  Paid(p, e, y, {"contribution"},
       LAMBDA r : Compound(p, r, p.inflation, IF r.indexed THEN y - BaseYear ELSE 0))

Accrual(p, e, y, salary) ==
  Paid(p, e, y, {"dc_fraction", "annual_eur"},
       LAMBDA r : IF r.kind = "dc_fraction" THEN HalfEven(salary * r.amount, 100)
                  ELSE Compound(p, r, p.inflation, IF r.indexed THEN y - BaseYear ELSE 0))

\* One year of project: the balance grows by the return net of PAL tax, then
\* takes the accrual of the year.
YearlyFlow(p, e, y, cumulative) ==
  LET salary == Salary(p, e, y)
      accrual == Accrual(p, e, y, salary)
      growth == HalfEven(cumulative * p.marketRate * (100 - p.palRate), 10000)
  IN  [salary |-> salary, contribution |-> Contribution(p, e, y), accrual |-> accrual,
       growth |-> growth, cumulative |-> cumulative + growth + accrual]

\* apply_tax: only the accrual of the year itself is netted in the balance.
Taxed(amount, rate) == HalfEven(amount * (100 - rate), 100)

Overlay(p, e, f) ==
  IF ~p.taxEnabled \/ e \notin DOMAIN p.regimes THEN f
  ELSE LET net == Taxed(f.accrual, p.regimes[e].accrual)
       IN  [f EXCEPT !.salary = Taxed(@, p.regimes[e].salary), !.accrual = net,
                     !.cumulative = @ - f.accrual + net]
-----------------------------------------------------------------------------
(* Payout.                                                                  *)

\* _monthly_pmt for the level payout and for a rate given per month.
MonthlyPmt(capital, monthlyRate, months) ==
  IF capital = 0 THEN 0
  ELSE IF monthlyRate[1] = 0 THEN HalfEven(capital, months)
  ELSE LET up == (monthlyRate[2] + monthlyRate[1]) ^ months
           flat == monthlyRate[2] ^ months
           sign == IF up < flat THEN -1 ELSE 1
       IN  HalfEven(sign * capital * monthlyRate[1] * up, sign * monthlyRate[2] * (up - flat))

\* PayoutConfig's validator: years are counted in Months per year here.
ValidPayout(t, balance) ==
  /\ balance >= 0 /\ t.age >= 60
  /\ t.livrente >= 0 /\ t.ratepension >= 0 /\ t.livrente + t.ratepension <= 100
  /\ t.months > 0 /\ t.annuityFactor > 0 /\ t.monthlyRate[1] > -t.monthlyRate[2]

\* compute_payout: what the rounding of two parts leaves is the lump sum.
Payout(t, balance) ==
  LET livrente == HalfEven(balance * t.livrente, 100)
      ratepension == HalfEven(balance * t.ratepension, 100)
      monthlyLivrente == HalfEven(livrente * t.annuityFactor, 1000)
      monthlyRate == MonthlyPmt(ratepension, t.monthlyRate, t.months)
  IN  [status |-> "paid", balance |-> balance,
       livrente |-> livrente, ratepension |-> ratepension,
       lumpSum |-> balance - livrente - ratepension,
       monthly |-> monthlyLivrente + monthlyRate, monthlyRate |-> monthlyRate]

\* folkepension_age_for_year: 0 for a year before the schedule begins.
PensionAge(y) ==
  LET from == {s \in DOMAIN AgeSchedule : s <= y}
  IN  IF from = {} THEN 0 ELSE AgeSchedule[Max(from)]

\* compute_folkepension: the supplement is reduced by a share of the private
\* income above the threshold and never below nothing.
Folkepension(civil, privateIncome) ==
  LET raw == HalfEven(Floor0(privateIncome - Threshold) * Modregning, 12000)
  IN  [status |-> "paid", modregning |-> Least(raw, Tillaeg[civil]),
       tillaeg |-> Floor0(Tillaeg[civil] - raw),
       total |-> Grundbeloeb + Floor0(Tillaeg[civil] - raw)]

\* folkepension_from_payout: twelve monthly payouts, in DKK.
AnnualDkk(p, monthlyEur) == HalfEven(monthlyEur * 12 * p.eurPerDkk[2], p.eurPerDkk[1])

\* check_topskat_exposure and topskat_from_payout, 15 % above the threshold;
\* _primary_suggestion's three levels of advice.
Topskat(income) ==
  LET above == Floor0(income - TopskatThreshold)
  IN  [due |-> HalfEven(above * 15, 100), inTopskat |-> above > 0,
       advice |-> IF above = 0 THEN "none"
                  ELSE IF above > TopskatThreshold THEN "lump sum"
                  ELSE IF above * 10 > TopskatThreshold * 3 THEN "spread and lump sum"
                  ELSE "spread"]
-----------------------------------------------------------------------------
NoFlow(p, e) ==
  [salary |-> 0, contribution |-> 0, accrual |-> 0, growth |-> 0,
   cumulative |-> IF e \in DOMAIN p.opening THEN p.opening[e] ELSE 0]

Init ==
  /\ plan \in {p \in Plans : Projectable(p)}
  /\ year = BaseYear
  /\ flow = [e \in Entities(plan) |-> NoFlow(plan, e)]
  /\ earned = [e \in Entities(plan) |-> 0]
  /\ payout = Unpaid
  /\ public = Unpaid

ProjectYear ==
  /\ year < BaseYear + Horizon
  /\ year' = year + 1
  /\ flow' = [e \in Entities(plan) |-> YearlyFlow(plan, e, year + 1, flow[e].cumulative)]
  /\ earned' = [e \in Entities(plan) |-> earned[e] + flow'[e].growth + flow'[e].accrual]
  /\ UNCHANGED <<plan, payout, public>>

\* _project_payouts: the balance is the netted one at the retirement year; a
\* missing flow or an invalid template is a warning and no payout.
PayOut ==
  LET t == plan.template
  IN  /\ year = t.retirementYear
      /\ payout = Unpaid
      /\ payout' = IF t.entity \notin Entities(plan)
                   THEN [status |-> "no cashflow"]
                   ELSE LET balance == Overlay(plan, t.entity, flow[t.entity]).cumulative
                        IN  IF ValidPayout(t, balance) THEN Payout(t, balance)
                            ELSE [status |-> "invalid"]
      /\ UNCHANGED <<plan, year, flow, earned, public>>

\* _project_folkepension: without a payout the private income is zero.
GrantPublic ==
  /\ payout # Unpaid /\ public = Unpaid
  /\ \E start \in PensionYears, civil \in DOMAIN Tillaeg :
       public' =
         IF PensionAge(start) = 0 THEN [status |-> "age unsupported"]
         ELSE Folkepension(civil, IF payout.status = "paid"
                                  THEN AnnualDkk(plan, payout.monthly) ELSE 0)
  /\ UNCHANGED <<plan, year, flow, earned, payout>>

Next == ProjectYear \/ PayOut \/ GrantPublic

Spec == Init /\ [][Next]_pensionVars
-----------------------------------------------------------------------------
\* The balance a member retires with is the opening balance and what every
\* year's flow reports, and a market loss never makes it negative (project).
BalanceIsItsFlows ==
  \A e \in DOMAIN flow :
    /\ flow[e].cumulative = NoFlow(plan, e).cumulative + earned[e]
    /\ flow[e].cumulative >= 0

\* The three parts of a payout make up the balance, no part taking more than a
\* cent of rounding from the others, and the instalments of a level
\* Ratepension pay its capital back up to half a cent each (compute_payout).
PayoutDividesBalance ==
  payout.status = "paid" =>
    /\ payout.livrente + payout.ratepension + payout.lumpSum = payout.balance
    /\ payout.lumpSum >= -1
    /\ payout.livrente >= 0 /\ payout.ratepension >= 0
    /\ plan.template.monthlyRate[1] = 0 =>
         LET left == payout.ratepension - payout.monthlyRate * plan.template.months
         IN  2 * left <= plan.template.months /\ -2 * left <= plan.template.months
    /\ plan.template.monthlyRate[1] > 0 =>
         2 * payout.monthlyRate * plan.template.months
           >= 2 * payout.ratepension - plan.template.months

\* Saving for a pension is never punished: with more private income the public
\* pension falls, by no more than the income grew, and it stays between the
\* basic amount and the basic amount with the whole supplement
\* (compute_folkepension); the Topskat of the same income takes part of the
\* growth only (check_topskat_exposure).
NoPensionCliff ==
  public.status = "paid" =>
    \A civil \in DOMAIN Tillaeg, more \in Incomes, less \in Incomes : less <= more =>
      LET high == Folkepension(civil, more)
          low == Folkepension(civil, less)
      IN  /\ high.total <= low.total
          /\ 12 * (low.total - high.total) <= more - less + 12
          /\ high.total - high.tillaeg = Grundbeloeb
          /\ high.modregning + high.tillaeg = Tillaeg[civil]
          /\ Topskat(more).due - Topskat(less).due \in 0 .. (more - less)
          /\ Topskat(more).inTopskat <=> Topskat(more).advice # "none"
=============================================================================
