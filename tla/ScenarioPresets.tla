-------------------------- MODULE ScenarioPresets --------------------------
(* What-if scenarios of a household plan (sim/household_scenarios.py):      *)
(* every preset rewrites part of the plan with model_copy, which runs no    *)
(* validator, and compose_scenario_presets applies several in any order.    *)
(* Money is whole kroner or euro, a rate or fraction is in per cent.        *)
EXTENDS DecimalMath, FiniteSetsExt, SequencesExt

CONSTANTS Members, Accounts, Homes,
          Plans,        \* base plans tried
          Years,        \* years a preset may name
          Fractions,    \* fte fractions and factors, in per cent
          MonthlyDelta, \* extra savings per month
          MaxPresets

VARIABLES base,     \* the plan before any preset
          plan,     \* HouseholdScenario.plan
          presets   \* history: the presets applied, oldest first

presetVars == <<base, plan, presets>>

None == 0
Horizon == Max(Years) + 1

\* _q of a share of an amount.
Share(x, percent) == HalfEven(x * percent, 100)

Record(p) == presets' = Append(presets, p) /\ base' = base

Free == Len(presets) < MaxPresets

Init ==
  /\ base \in Plans
  /\ plan = base
  /\ presets = <<>>
-----------------------------------------------------------------------------
\* RetireInYearPreset: members, bridges and payouts move together; a public
\* pension that starts before the year refuses it.
RetireInYear(y) ==
  /\ Free
  /\ \A m \in Members : plan.public[m] # None => plan.public[m] >= y
  /\ plan' = [plan EXCEPT !.retire = [m \in Members |-> y], !.bridgeStart = y,
                          !.payoutYear = y]
  /\ Record([name |-> "retire_in_year", year |-> y])

\* The old rule left running in the first year of the reduced one.
WorkReducedTwice(rules, m, y, fraction) ==
  LET Touched(r) == r.entity = m /\ (r.until = None \/ r.until >= y)
      Reduced(r) == [r EXCEPT !.amount = Share(@, fraction),
                              !.from = IF @ = None THEN y ELSE Greatest(@, y)]
      Cut(r) == IF ~Touched(r) THEN <<r>>
                ELSE IF r.from # None /\ r.from >= y THEN <<Reduced(r)>>
                ELSE <<[r EXCEPT !.until = y], Reduced(r)>>
  IN  FlattenSeq([i \in DOMAIN rules |-> Cut(rules[i])])

\* _work_reduced_salary_rules and _work_reduced_pension_rules: a rule that
\* runs over the start year is cut in two.
WorkReduced(rules, m, y, fraction) ==
  LET Touched(r) == r.entity = m /\ (r.until = None \/ r.until >= y)
      Reduced(r) == [r EXCEPT !.amount = Share(@, fraction),
                              !.from = IF @ = None THEN y ELSE Greatest(@, y)]
      Cut(r) == IF ~Touched(r) THEN <<r>>
                ELSE IF r.from # None /\ r.from >= y THEN <<Reduced(r)>>
                ELSE <<[r EXCEPT !.until = y - 1], Reduced(r)>>
  IN  FlattenSeq([i \in DOMAIN rules |-> Cut(rules[i])])

WorkReduction(m, y, fraction) ==
  /\ Free
  /\ fraction \in 1 .. 100
  /\ plan' = [plan EXCEPT !.salaries = WorkReduced(@, m, y, fraction),
                          !.dcRules = WorkReduced(@, m, y, fraction)]
  /\ Record([name |-> "work_reduction", entity |-> m, year |-> y, fraction |-> fraction])

\* IncreasedSavingsPreset: the yearly amount is shared evenly by the rules of
\* one member (or all) and by the depots; EUR rules are converted.
Increased(rules, sharing, delta, eurPerDkk) ==
  LET n == Cardinality(sharing)
      Added(r) == HalfEven(r.annual * n + delta, n)
      AddedEur(r) == HalfEven(r.annual * n * eurPerDkk[2] + delta * eurPerDkk[1],
                              n * eurPerDkk[2])
  IN  [i \in DOMAIN rules |->
        IF i \notin sharing THEN rules[i]
        ELSE [rules[i] EXCEPT !.annual = IF rules[i].currency = "DKK" THEN Added(rules[i])
                                         ELSE AddedEur(rules[i])]]

IncreasedSavings(who, where) ==
  LET contributing == {i \in DOMAIN plan.contributions : who \in {"all", plan.contributions[i].entity}}
      saving == {i \in DOMAIN plan.depots : where \in {"all", plan.depots[i].account}}
  IN  /\ Free
      /\ plan' = [plan EXCEPT
           !.contributions = Increased(@, contributing, MonthlyDelta * 12, plan.eurPerDkk),
           !.depots = Increased(@, saving, MonthlyDelta * 12, plan.eurPerDkk)]
      /\ Record([name |-> "increased_savings", entity |-> who, account |-> where])

\* LowerSavingsPreset.
LowerSavings(fraction) ==
  LET Lowered(rules) ==
        [i \in DOMAIN rules |-> [rules[i] EXCEPT !.annual = Share(@, fraction)]]
  IN  /\ Free
      /\ fraction \in 1 .. 100
      /\ plan' = [plan EXCEPT !.contributions = Lowered(@), !.depots = Lowered(@)]
      /\ Record([name |-> "lower_savings", fraction |-> fraction])

\* LowerReturnsPreset: pension, depots and bridges alike.
LowerReturns ==
  /\ Free
  /\ plan' = [plan EXCEPT !.pensionRate = @ - 2, !.depotRate = @ - 2, !.bridgeRate = @ - 2]
  /\ Record([name |-> "lower_returns"])

\* HigherInflationPreset, which may spare the spending rules.
HigherInflation(rate, spending) ==
  /\ Free
  /\ plan' = [plan EXCEPT !.inflation = rate, !.ruleInflation = IF spending THEN rate ELSE @]
  /\ Record([name |-> "higher_inflation", rate |-> rate])

\* HigherSpendingPreset, one-offs included.
HigherSpending(factor) ==
  /\ Free
  /\ factor > 0
  /\ plan' = [plan EXCEPT !.spending = Share(@, factor),
                          !.oneOffs = [i \in DOMAIN @ |-> [@[i] EXCEPT !.amount = Share(@, factor)]]]
  /\ Record([name |-> "higher_spending", factor |-> factor])

OneOff(y, amount, home) == [year |-> y, amount |-> amount, home |-> home]

OneOffExpense(y, amount) ==
  /\ Free
  /\ amount > 0
  /\ plan' = [plan EXCEPT !.oneOffs = Append(@, OneOff(y, amount, "none"))]
  /\ Record([name |-> "one_off_expense", year |-> y])

\* DelayedPensionStartPreset.
DelayedPensionStart(years) ==
  /\ Free
  /\ years >= 1
  /\ plan' = [plan EXCEPT !.public = [m \in Members |-> IF @[m] = None THEN None ELSE @[m] + years]]
  /\ Record([name |-> "delayed_pension_start", years |-> years])

\* HomePurchasePreset: the home, its mortgage, and its purchase cost once more
\* as a one-off expense of the spending plan.
HomePurchase(h, y, principal, cost) ==
  /\ Free
  /\ plan' = [plan EXCEPT
       !.homes = Append(@, [home |-> h, start |-> y, purchase |-> cost]),
       !.loans = IF principal > 0
                 THEN Append(@, [home |-> h, start |-> y, principal |-> principal, rate |-> 3])
                 ELSE @,
       !.oneOffs = IF cost > 0 THEN Append(@, OneOff(y, cost, h)) ELSE @]
  /\ Record([name |-> "home_purchase", home |-> h])

\* HigherMortgageRatePreset, for one home or all.
HigherMortgageRate(h) ==
  /\ Free
  /\ plan' = [plan EXCEPT
       !.loans = [i \in DOMAIN @ |-> IF h \in {"all", @[i].home} THEN [@[i] EXCEPT !.rate = @ + 1]
                                     ELSE @[i]]]
  /\ Record([name |-> "higher_mortgage_rate", home |-> h])

Next ==
  \/ \E y \in Years : RetireInYear(y)
  \/ \E m \in Members, y \in Years, f \in Fractions : WorkReduction(m, y, f)
  \/ \E who \in Members \cup {"all"}, where \in Accounts \cup {"all"} : IncreasedSavings(who, where)
  \/ \E f \in Fractions : LowerSavings(f)
  \/ LowerReturns
  \/ \E spending \in BOOLEAN : HigherInflation(5, spending)
  \/ HigherSpending(110)
  \/ \E y \in Years : OneOffExpense(y, 30)
  \/ DelayedPensionStart(1)
  \/ \E h \in Homes, y \in Years, loan \in {0, 50} : HomePurchase(h, y, loan, 7)
  \/ \E h \in Homes \cup {"all"} : HigherMortgageRate(h)

Spec == Init /\ [][Next]_presetVars
-----------------------------------------------------------------------------
Pays(r, m, y) ==
  /\ r.entity = m
  /\ r.from = None \/ r.from <= y
  /\ r.until = None \/ y <= r.until

Earned(rules, m, y) ==
  FoldLeft(LAMBDA sum, r : IF Pays(r, m, y) THEN sum + r.amount ELSE sum, 0, rules)

\* The fractions of the reductions that reach a member's year, in the order
\* they were applied.
ReducedTo(amount, m, y) ==
  FoldLeft(LAMBDA x, p : IF p.name = "work_reduction" /\ p.entity = m /\ p.year <= y
                         THEN Share(x, p.fraction) ELSE x, amount, presets)

\* However many reductions of work are combined and in whatever order, each
\* year of a member is paid by exactly the rules that paid it before, at the
\* product of the fractions that reach that year: the cuts leave no year
\* unpaid or paid twice (_work_reduced_salary_rules).
ReductionsTile ==
  \A m \in Members, y \in 1 .. Horizon :
    LET before == SelectSeq(base.salaries, LAMBDA r : Pays(r, m, y))
    IN  Earned(plan.salaries, m, y)
          = FoldLeft(LAMBDA sum, r : sum + ReducedTo(r.amount, m, y), 0, before)

Paid(rules) == FoldLeft(LAMBDA sum, r : sum + r.annual, 0, rules)

\* An increase of savings that several depots share is paid once in all, up to
\* the rounding of the parts; and no preset turns savings negative
\* (IncreasedSavingsPreset.apply, _increase_liquid_config).
SavingsAreShared ==
  /\ \A i \in DOMAIN plan.depots : plan.depots[i].annual >= 0
  /\ (\A i \in DOMAIN presets : presets[i].name # "lower_savings") =>
       LET increases == SelectSeq(presets, LAMBDA p : p.name = "increased_savings")
           added == Paid(plan.depots) - Paid(base.depots)
       IN  /\ 2 * (added - 12 * MonthlyDelta * Len(increases))
                <= Len(plan.depots) * Len(increases)
           /\ 2 * (12 * MonthlyDelta * Len(increases) - added)
                <= Len(plan.depots) * Len(increases)

\* No sequence of presets lets a public pension start before the member
\* retires, although the copies are never validated (RetireInYearPreset.apply;
\* the same year, which the validator of HouseholdMember refuses, is
\* reachable).
PensionAfterWork ==
  \A m \in Members : plan.public[m] # None => plan.public[m] >= plan.retire[m]
=============================================================================
