---------------------------- MODULE BalanceSheet ---------------------------
(* The household plan put together (sim/plan.py project_household): homes   *)
(* and mortgages (sim/real_estate.py), spending by life phase               *)
(* (sim/spending.py), the hand-over of a depot to its bridge, and the three *)
(* reports read from the result: the yearly balance sheet (sim/balance.py), *)
(* the tax timeline (sim/tax_timeline.py) and the risk register with its    *)
(* readiness verdict (sim/risk.py, sim/readiness.py).  One year is one      *)
(* step.  Depots, bridges and pensions arrive as the yearly or monthly      *)
(* figures the other modules compute; amounts are whole kroner or euro.     *)
EXTENDS DecimalMath, FiniteSetsExt, SequencesExt

CONSTANTS Plans,         \* household plans tried
          Horizon,       \* projected years 1 .. Horizon, 0 being base_year
          MonthsInYear,  \* 12 in the code
          TopskatLimit,  \* DK_TOPSKAT_THRESHOLD_DKK
          MaterialChange \* smallest tax change worth a warning

VARIABLES plan,
          year,    \* last projected year
          homes,   \* property -> [debt, sold, row]
          cash,    \* real_estate_net_liquidity of the balance sheet
          sheet,   \* the year's HouseholdBalanceSheetRow
          drag,    \* total_tax_drag of the year
          found,   \* risk findings so far: [code, severity, year]
          report,  \* the verdict, or "none"
          past     \* history: [borrowed, repaid] by property, [taxes, emptied]

sheetVars == <<plan, year, homes, cash, sheet, drag, found, report, past>>

None == 0   \* an optional year that is not given

Total(S, F(_)) == FoldFunction(LAMBDA x, y : x + y, 0, [s \in S |-> F(s)])

\* HouseholdPlan's validators, with those of members, homes and bridges.
OneOf(seq, Key(_)) == \A i, j \in DOMAIN seq : Key(seq[i]) = Key(seq[j]) => i = j

ValidPlan(p) ==
  /\ DOMAIN p.members # {}
  /\ \A m \in DOMAIN p.members :
       p.members[m].public # None => p.members[m].public > p.members[m].retire
  /\ OneOf(p.bridges, LAMBDA b : b.entity)
  /\ \A i \in DOMAIN p.bridges : /\ p.bridges[i].entity \in DOMAIN p.members
                                 /\ p.bridges[i].account \in DOMAIN p.depots
                                 /\ p.bridges[i].months > 0
  /\ \A h \in DOMAIN p.homes :
       /\ p.homes[h].value > 0
       /\ p.homes[h].sale # None => p.homes[h].sale >= p.homes[h].start
  /\ \A h \in DOMAIN p.loans :
       /\ h \in DOMAIN p.homes
       /\ p.loans[h].until # None => p.loans[h].until >= p.loans[h].start
-----------------------------------------------------------------------------
(* Homes.                                                                   *)
NoRow == [value |-> 0, debt |-> 0, equity |-> 0, interest |-> 0, repaid |-> 0,
          costs |-> 0, purchase |-> 0, proceeds |-> 0]

HasLoan(h) == h \in DOMAIN plan.loans

\* The debt enters the books in the year the loan starts (_project_property).
Borrows(h, y) == HasLoan(h) /\ plan.loans[h].start = y

\* _mortgage_active.
Serviced(h, y) ==
  HasLoan(h) /\ plan.loans[h].start <= y
             /\ (plan.loans[h].until = None \/ y <= plan.loans[h].until)

\* _property_market_value.
MarketValue(c, y) ==
  HalfEven(c.value * (100 + c.growth) ^ Floor0(y - c.start), 100 ^ Floor0(y - c.start))

HomeYear(h, y) ==
  LET c == plan.homes[h]
      opening == IF Borrows(h, y) THEN plan.loans[h].principal ELSE homes[h].debt
      owned == c.start <= y /\ ~homes[h].sold
      value == MarketValue(c, y)
      interest == IF Serviced(h, y) THEN HalfEven(opening * plan.loans[h].rate, 100) ELSE 0
      repaid == IF Serviced(h, y) THEN Least(plan.loans[h].amortization, opening) ELSE 0
      debt == opening - repaid
      sells == c.sale = y
      proceeds == Floor0(value - HalfEven(value * c.saleCost, 100) - debt)
  IN  IF ~owned THEN [debt |-> opening, sold |-> homes[h].sold, row |-> NoRow]
      ELSE [debt |-> IF sells THEN 0 ELSE debt, sold |-> sells,
            row |-> [value |-> IF sells THEN 0 ELSE value,
                     debt |-> IF sells THEN 0 ELSE debt,
                     equity |-> IF sells THEN 0 ELSE Floor0(value - debt),
                     interest |-> interest, repaid |-> repaid, costs |-> c.costs,
                     purchase |-> IF y = c.start THEN c.purchase ELSE 0,
                     proceeds |-> IF sells THEN proceeds ELSE 0]]
-----------------------------------------------------------------------------
(* Phases and spending.                                                     *)

\* _household_phase: the last retirement ends the work, the first public
\* pension ends the bridge.
Phase(y) ==
  LET pensions == {plan.members[m].public : m \in DOMAIN plan.members} \ {None}
  IN  IF \E m \in DOMAIN plan.members : y <= plan.members[m].retire THEN "accumulation"
      ELSE IF pensions # {} /\ y >= Min(pensions) THEN "retirement"
      ELSE "bridge"

\* SpendingRule.effective_amount; its base year is its own, the rule's first
\* year, or the year itself.
Effective(r, y) ==
  LET base == IF r.base # None THEN r.base ELSE IF r.from # None THEN r.from ELSE y
      up == (100 + r.inflation) ^ (IF y >= base THEN y - base ELSE base - y)
      flat == 100 ^ (IF y >= base THEN y - base ELSE base - y)
  IN  IF y >= base THEN HalfEven(r.amount * up, flat) ELSE HalfEven(r.amount * flat, up)

\* compute_spending in one currency: rules that are active and apply to the
\* phase, and the one-offs, which are rules of one year without inflation.
Spending(y, currency) ==
  LET active == SelectSeq(plan.spending, LAMBDA r :
                  /\ r.currency = currency
                  /\ r.from = None \/ y >= r.from
                  /\ r.until = None \/ y <= r.until
                  /\ r.phase = "any" \/ r.phase = Phase(y))
  IN  FoldLeft(LAMBDA sum, r : sum + Effective(r, y), 0, active)

\* _eur_to_dkk.
ToDkk(eur) == HalfEven(eur * plan.eurPerDkk[2], plan.eurPerDkk[1])
-----------------------------------------------------------------------------
(* Bridges.                                                                 *)
Bridges == ToSet(plan.bridges)

\* Why project_household skips a template, or "" when it runs.
Skipped(b) ==
  IF b.start \notin 1 .. Horizon THEN "bridge_start_year_not_in_projection"
  ELSE IF plan.depots[b.account].closing[b.start] <= 0 THEN "bridge_nonpositive_balance"
  ELSE IF ~b.valid THEN "bridge_config_invalid"
  ELSE ""

Running == {b \in Bridges : Skipped(b) = ""}

\* The calendar year of a bridge month, as balance and tax timeline map it.
YearOfMonth(b, m) == b.start + ((m - 1) \div MonthsInYear) + 1

MonthsOf(b, y) == {m \in 1 .. b.months : YearOfMonth(b, m) = y}

\* The depot is drawn down evenly to nothing over the bridge's months
\* (external to this module: BridgePayout computes the payment).
BridgeBalance(b, m) ==
  LET opening == plan.depots[b.account].closing[b.start]
  IN  opening - (opening * m) \div b.months

\* _bridge_balances_by_year.
BridgeTotal(y) ==
  Total({b \in Running : MonthsOf(b, y) # {}}, LAMBDA b : BridgeBalance(b, Max(MonthsOf(b, y))))

Unbridged == -1

\* bridge_start_by_account: the last template naming an account decides.
BridgeStart(a) ==
  LET named == {i \in DOMAIN plan.bridges : plan.bridges[i].account = a}
  IN  IF named = {} THEN Unbridged ELSE plan.bridges[Max(named)].start

\* A depot that is already gone in the year its bridge starts.
InDepotsUntilStart(a, y) == BridgeStart(a) = Unbridged \/ y < BridgeStart(a)

\* A depot leaves the balance sheet after its bridge's start year.
InDepots(a, y) == BridgeStart(a) = Unbridged \/ y <= BridgeStart(a)
-----------------------------------------------------------------------------
(* The rows.                                                                *)
SheetRow(y, rows, funds) ==
  LET All(F(_)) == Total(DOMAIN rows, LAMBDA h : F(rows[h]))
      depots == Total({a \in DOMAIN plan.depots : InDepots(a, y)},
                      LAMBDA a : plan.depots[a].closing[y])
      pension == ToDkk(plan.pension[y])
      spendable == depots + BridgeTotal(y) + funds
      spending == Spending(y, "DKK") + ToDkk(Spending(y, "EUR"))
                  + All(LAMBDA r : r.costs + r.interest + r.purchase)
  IN  [depots |-> depots, bridge |-> BridgeTotal(y), pension |-> pension,
       equity |-> All(LAMBDA r : r.equity), spendable |-> spendable,
       worth |-> spendable + pension + All(LAMBDA r : r.equity),
       spending |-> spending,
       depleted |-> spending > 0 /\ spendable <= 0]

\* One row of build_tax_timeline.
TimelineRow(y) ==
  LET pal == IF plan.pal <= 0 \/ plan.growth[y] <= 0 THEN 0
             ELSE HalfEven(plan.growth[y] * plan.pal * plan.eurPerDkk[2],
                           (100 - plan.pal) * plan.eurPerDkk[1])
      liquid == Total(DOMAIN plan.depots, LAMBDA a : plan.depots[a].tax[y])
      bridge == Total(Running, LAMBDA b : b.tax * Cardinality(MonthsOf(b, y)))
      exposure == Total({m \in DOMAIN plan.members : plan.members[m].country = "DK"},
                        LAMBDA m : Floor0(ToDkk(plan.members[m].salary[y]) - TopskatLimit))
  IN  [exposure |-> exposure, bridge |-> bridge,
       total |-> pal + liquid + bridge + HalfEven(exposure * 15, 100)]

Finding(code, severity, y) == [code |-> code, severity |-> severity, year |-> y]

Has(code) == \E f \in found : f.code = code

\* Only the first year of each kind is a finding (_append_liquidity_findings,
\* _append_tax_findings).
YearFindings(y, row, tax) ==
  LET pensions == {plan.members[m].public : m \in DOMAIN plan.members} \ {None}
      change == IF tax.total > drag THEN tax.total - drag ELSE drag - tax.total
      empties == row.depleted /\ ~Has("liquidity_depleted")
  IN  {f \in { Finding("liquidity_depleted", "critical", y) } : empties}
      \cup {f \in { Finding("locked_pension_before_access", "critical", y) } :
              empties /\ row.pension > 0 /\ (pensions = {} \/ y < Min(pensions))}
      \cup {f \in { Finding("topskat_exposure", "warning", y) } :
              tax.exposure > 0 /\ ~Has("topskat_exposure")}
      \cup {f \in { Finding("material_tax_drag_change", "warning", y) } :
              /\ y > 1 /\ drag > 0 /\ ~Has("material_tax_drag_change")
              /\ change >= MaterialChange /\ change * 5 >= drag}
      \cup {f \in { Finding("ask_cap_reached", "warning", y) } :
              /\ \E a \in DOMAIN plan.depots : plan.depots[a].overflow[y] > 0
              /\ ~Has("ask_cap_reached")}

\* _append_bridge_findings: a gap before the public pension.
GapBefore(b) ==
  LET public == plan.members[b.entity].public
  IN  public # None /\ YearOfMonth(b, b.months) + 1 < public

\* The findings that need the whole projection: bridges, reduced pensions,
\* the tax context of DE members, and the projection's own warnings.
PlanFindings ==
  {Finding("bridge_depletes_early", "critical", YearOfMonth(b, b.months)) :
     b \in {c \in Running : GapBefore(c)}}
  \cup {Finding(IF plan.members[m].reduced = "all" THEN "folkepension_tillaeg_fully_reduced"
                ELSE "folkepension_reduced", "warning", None) :
          m \in {n \in DOMAIN plan.members : plan.members[n].reduced # "no"}}
  \cup {Finding("de_vorabpauschale_not_in_household_plan", "warning", None) :
          m \in {n \in DOMAIN plan.members : plan.members[n].country = "DE"}}
  \cup {Finding(Skipped(b), "warning", None) : b \in Bridges \ Running}

\* generate_readiness_report: the worst finding decides.
Verdict(findings) ==
  IF \E f \in findings : f.severity = "critical" THEN "not_ready"
  ELSE IF \E f \in findings : f.severity = "warning" THEN "watch"
  ELSE "ready"
-----------------------------------------------------------------------------
Init ==
  /\ plan \in {p \in Plans : ValidPlan(p)}
  /\ year = 0
  /\ homes = [h \in DOMAIN plan.homes |-> [debt |-> 0, sold |-> FALSE, row |-> NoRow]]
  /\ cash = 0
  /\ sheet = [depots |-> 0, bridge |-> 0, pension |-> 0, equity |-> 0, spendable |-> 0,
              worth |-> 0, spending |-> 0, depleted |-> FALSE]
  /\ drag = 0
  /\ found = {}
  /\ report = "none"
  /\ past = [borrowed |-> [h \in DOMAIN plan.homes |-> 0],
             repaid |-> [h \in DOMAIN plan.homes |-> 0], taxes |-> 0, emptied |-> FALSE]

ProjectYear ==
  LET y == year + 1
      after == [h \in DOMAIN homes |-> HomeYear(h, y)]
      rows == [h \in DOMAIN homes |-> after[h].row]
      funds == cash + Total(DOMAIN rows, LAMBDA h :
                 rows[h].proceeds - rows[h].purchase - rows[h].costs - rows[h].interest)
      tax == TimelineRow(y)
      row == SheetRow(y, rows, funds)
  IN  /\ year < Horizon
      /\ year' = y
      /\ homes' = after
      /\ cash' = funds
      /\ sheet' = row
      /\ drag' = tax.total
      /\ found' = found \cup YearFindings(y, row, tax)
      /\ past' = [borrowed |-> [h \in DOMAIN homes |->
                     IF Borrows(h, y) THEN plan.loans[h].principal ELSE past.borrowed[h]],
                  repaid |-> [h \in DOMAIN homes |-> past.repaid[h] + rows[h].repaid],
                  taxes |-> past.taxes + tax.bridge,
                  emptied |-> past.emptied \/ row.depleted]
      /\ UNCHANGED <<plan, report>>

Report ==
  /\ year = Horizon /\ report = "none"
  /\ found' = found \cup PlanFindings
  /\ report' = Verdict(found')
  /\ UNCHANGED <<plan, year, homes, cash, sheet, drag, past>>

Next == ProjectYear \/ Report

Spec == Init /\ [][Next]_sheetVars
-----------------------------------------------------------------------------
\* No year shows a depot's money twice or not at all: up to the start of its
\* bridge the sheet holds the depot, from then on what the bridge has not yet
\* paid out at the end of the year (project_balance_sheet,
\* _bridge_balances_by_year).  Two cases are excluded: a template that was
\* skipped with a warning, and two templates that name one account.
CountedOnce ==
  LET BridgesOf(a) == {b \in Bridges : b.account = a}
      Left(b) ==
        LET opening == plan.depots[b.account].closing[b.start]
            months == Least(b.months, (year - b.start) * MonthsInYear)
        IN  opening - (opening * months) \div b.months
      Worth(a) ==
        IF \E b \in BridgesOf(a) : year > b.start
        THEN Total(BridgesOf(a), Left)
        ELSE plan.depots[a].closing[year]
  IN  (year > 0 /\ Running = Bridges
       /\ \A a \in DOMAIN plan.depots : Cardinality(BridgesOf(a)) <= 1) =>
        sheet.depots + sheet.bridge = Total(DOMAIN plan.depots, Worth)

\* What a household owes on a home is what it borrowed less what it repaid,
\* until the home is sold, and its equity is never more than the value
\* (_project_property).
DebtIsAccountedFor ==
  \A h \in DOMAIN homes :
    /\ ~homes[h].sold => homes[h].debt = past.borrowed[h] - past.repaid[h]
    /\ homes[h].debt >= 0
    /\ homes[h].row.equity <= homes[h].row.value
    /\ homes[h].row.value >= homes[h].row.debt =>
         homes[h].row.equity + homes[h].row.debt = homes[h].row.value

\* No month of a bridge falls out of the tax timeline: at the end the rows
\* hold the taxes of all its months that lie within the horizon.
NoBridgeTaxIsLost ==
  year = Horizon =>
    past.taxes = Total(Running, LAMBDA b :
      b.tax * Least(b.months, Floor0((Horizon - b.start) * MonthsInYear)))

\* A household is only called ready when no year ran out of money, no bridge
\* was left out of the projection and none ends before the public pension,
\* and a year that ran out is never less than not ready
\* (generate_readiness_report, generate_risk_register, _append_*_findings).
ReadyMeansFunded ==
  /\ report = "ready" => Bridges = Running /\ ~\E b \in Running : GapBefore(b)
  /\ report # "none" => (past.emptied => report = "not_ready")
=============================================================================
