------------------------------ MODULE TaxYear ------------------------------
(* penge-tax-year (tax/cli.py): one JSON file holds a household's tax       *)
(* inputs, and each year's run turns the entries of that year into a Danish *)
(* and a German report.  The calculators behind it are tax/lager.py         *)
(* (mark-to-market gain per ISIN), tax/aktiesparekonto.py (17 % per share   *)
(* savings account), tax/pal.py (15.3 % per pension account),               *)
(* tax/report_dk.py (capital income and loss carry-forward) and             *)
(* tax/de_vorab.py (Vorabpauschale).  Amounts count cents or øre.           *)
EXTENDS DecimalMath, FiniteSetsExt, Functions

CONSTANTS Isins,      \* funds taxed by the ordinary lager rule
          AskIsins,   \* funds in the aktiesparekonto
          Values,     \* year-end values
          Flows,      \* what a year pays in and out, a set of records
          Pension,    \* the pension account
          Quote,      \* exempt twentieths of each fund in Germany
          Months,     \* months of the year a fund may have been held
          Basiszins,  \* German base rate of each year on file, in percent
          Asked,      \* sets of jurisdictions a run may name
          Rates,      \* fx tables a file may hold: <<from, to>> -> ratio
          LastYear    \* bound: the years filed are 1 .. LastYear

VARIABLES year,       \* years filed so far
          file,       \* the entries the input file has collected
          prior,      \* prior_loss_carry_forward the file states
          report,     \* what the last run printed, or Failed
          taxed       \* history: taxable capital income of the years before

taxVars == <<year, file, prior, report, taxed>>

\* A household holds finitely many funds; amounts are whole cents or øre, and the
\* exempt twentieths of a fund are at most all of them.
TaxConstants ==
  /\ IsFiniteSet(Isins) /\ IsFiniteSet(AskIsins)
  /\ Values \subseteq Int /\ Months \subseteq Nat
  /\ \A flow \in Flows : flow.in \in Int /\ flow.out \in Int /\ flow.dist \in Int
  /\ \A p \in Isins : Quote[p] \in 0 .. 20
  /\ \A y \in DOMAIN Basiszins : Basiszins[y] \in Int

AskRate == <<17, 100>>
PalRate == <<153, 1000>>
AbgeltRate == <<211, 800>>     \* 26.375 %
Twentieths == 20
-----------------------------------------------------------------------------
(* The calculators.                                                         *)

\* compute_lager: end - start - buys + sells + distributions.
LagerGain(e) == e.end - e.start - e.in + e.out + e.dist

\* compute_pal counts no distributions.
PalReturn(e) == e.end - e.start - e.in + e.out

Failed == [failed |-> TRUE]      \* CliError, VorabError: nothing is printed

NotAsked == [asked |-> FALSE]    \* a jurisdiction the run did not name

Tax(gain, rate) == IF gain > 0 THEN Times(gain, rate) ELSE 0

\* A year's rows: their gains are added up.
TotalGain(entries) == SumFunction([e \in entries |-> LagerGain(e)])

\* A tax on each fund that gained.
AskResultOfEach(entries) ==
  LET gain == TotalGain(entries)
  IN  [gain |-> gain, loss |-> Floor0(-gain),
       tax |-> SumFunction([e \in entries |-> Tax(LagerGain(e), AskRate)])]

\* compute_ask_taxes nets the account's funds before it taxes or reports a loss.
AskResult(entries) ==
  LET gain == TotalGain(entries)
  IN  [gain |-> gain, tax |-> Tax(gain, AskRate), loss |-> Floor0(-gain)]

PalResult(e) ==
  LET return == PalReturn(e)
  IN  [gain |-> return, tax |-> Tax(return, PalRate), loss |-> Floor0(-return)]

\* compute_vorabpauschale, exact: deemed yield, growth and the lump sum count
\* 12000ths of a cent (percent, the factor 0.7 and twelfths of a year).
VorabUnit == 12000

Vorab(e) ==
  LET deemed == e.start * Floor0(Basiszins[e.year]) * 7 * e.months
      growth == (e.end - e.start + e.dist) * VorabUnit
      lump == Least(Floor0(deemed - e.dist * VorabUnit), Floor0(growth))
      taxable == lump * (Twentieths - Quote[e.isin])
  IN  [deemed |-> deemed,
       growth |-> growth,
       lump |-> HalfEven(lump, VorabUnit),
       taxable |-> HalfEven(taxable, VorabUnit * Twentieths),
       tax |-> HalfEven(taxable * AbgeltRate[1], VorabUnit * Twentieths * AbgeltRate[2])]
-----------------------------------------------------------------------------
(* The reports.                                                             *)

InYear(entries, y) == {e \in entries : e.year = y}

\* build_skat_report: ASK and PAL settle at source; only lager rows (the
\* command line passes no realised gains) are capital income, netted against
\* the loss carried forward.
SkatReport(y, lager, ask, pal, loss) ==
  LET gross == TotalGain(InYear(lager, y))
      after == gross - loss
      askRow == IF InYear(ask, y) = {} THEN 0 ELSE AskResult(InYear(ask, y)).tax
  IN  [gross |-> gross,
       taxable |-> Floor0(after),
       loss |-> Floor0(-after),
       withheld |-> askRow + SumFunction([e \in InYear(pal, y) |-> PalResult(e).tax])]

\* _convert: zero and the native currency need no rate.
Converts(amounts, native, target, fx) ==
  \/ native = target
  \/ amounts \subseteq {0}
  \/ <<native, target>> \in DOMAIN fx

Convert(x, native, target, fx) ==
  IF native = target \/ x = 0 THEN x ELSE Times(x, fx[<<native, target>>])

\* What a run prints of summary r, or the CliError of a missing rate: the rows
\* are converted as well, so a row that is not zero needs the rate too.
Printed(r, rows, native, target, fx) ==
  IF Converts(rows \cup {r[k] : k \in DOMAIN r}, native, target, fx)
  THEN [k \in DOMAIN r |-> Convert(r[k], native, target, fx)]
  ELSE Failed

DkReport(y, target, fx) ==
  LET r == SkatReport(y, file.lager, file.ask, file.pal, prior)
      rows == {LagerGain(e) : e \in InYear(file.lager, y)}
              \cup {PalResult(e).gain : e \in InYear(file.pal, y)}
              \cup {AskResult(InYear(file.ask, y)).gain, prior}
  IN  Printed(r, rows, "DKK", target, fx)

\* A year without a base rate is a VorabError.
DeReport(y, target, fx) ==
  LET entries == InYear(file.vorab, y)
      Total(f) == SumFunction([e \in entries |-> Vorab(e)[f]])
  IN  IF entries # {} /\ y \notin DOMAIN Basiszins
      THEN Failed
      ELSE Printed([lump |-> Total("lump"), taxable |-> Total("taxable"), tax |-> Total("tax")],
                   {Vorab(e).lump : e \in entries}, "EUR", target, fx)

\* compute_tax_year: an error in either jurisdiction ends the whole run.
Reports(y, jurisdictions, target, fx) ==
  LET dk == IF "DK" \in jurisdictions THEN DkReport(y, target, fx) ELSE NotAsked
      de == IF "DE" \in jurisdictions THEN DeReport(y, target, fx) ELSE NotAsked
  IN  IF Failed \in {dk, de} THEN Failed
      ELSE [dk |-> dk, de |-> de, target |-> target]
-----------------------------------------------------------------------------
Empty == [lager |-> {}, ask |-> {}, pal |-> {}, vorab |-> {}]

Init ==
  /\ year = 0
  /\ file = Empty
  /\ prior = 0
  /\ report = Failed
  /\ taxed = 0

\* The value position p ended last year with.
Held(entries, p) ==
  IF \E e \in InYear(entries, year) : e.isin = p
  THEN (CHOOSE e \in InYear(entries, year) : e.isin = p).end
  ELSE 0

Entry(entries, p, end, flow) ==
  [isin |-> p, year |-> year + 1, start |-> Held(entries, p), end |-> end,
   in |-> flow.in, out |-> flow.out, dist |-> flow.dist]

Fund(entries, p, end, flow, months) ==
  [isin |-> p, year |-> year + 1, start |-> Held(entries, p), end |-> end,
   dist |-> flow.dist, months |-> months]

\* The household adds a year to its file.  The loss carried into it is the one
\* the last run printed for the year before, in kroner.
Enter(end, flow, months) ==
  /\ year < LastYear
  /\ year > 0 => report # Failed /\ report.dk # NotAsked /\ report.target = "DKK"
  /\ year' = year + 1
  /\ file' = [lager |-> file.lager \cup {Entry(file.lager, p, end[p], flow) : p \in Isins},
              ask |-> file.ask \cup {Entry(file.ask, p, end[p], flow) : p \in AskIsins},
              pal |-> file.pal \cup {Entry(file.pal, Pension, end[Pension], flow)},
              vorab |-> file.vorab \cup
                        {Fund(file.vorab, p, end[p], flow, months) : p \in Isins}]
  /\ prior' = IF year = 0 THEN 0 ELSE report.dk.loss
  /\ taxed' = IF year = 0 THEN 0 ELSE taxed + report.dk.taxable
  /\ report' = Failed

\* One run over the file for its last year.
Run(jurisdictions, target, fx) ==
  /\ year > 0
  /\ report' = Reports(year, jurisdictions, target, fx)
  /\ UNCHANGED <<year, file, prior, taxed>>

Next ==
  \/ \E end \in [Isins \cup AskIsins \cup {Pension} -> Values], flow \in Flows,
        months \in Months : Enter(end, flow, months)
  \/ \E jurisdictions \in Asked, target \in {"DKK", "EUR"}, fx \in Rates :
       Run(jurisdictions, target, fx)

Spec == Init /\ [][Next]_taxVars
-----------------------------------------------------------------------------
CapitalIncome(y) == TotalGain(InYear(file.lager, y))

Cumulative(y) == SumFunction([x \in 1 .. y |-> CapitalIncome(x)])

\* However many good and bad years follow each other, the capital income taxed
\* so far is the highest the household's cumulative gain has ever been: a loss
\* is carried forward until later gains have used it up, once (report_dk.py
\* build_skat_report, with the loss the next year's file states).
TaxesHighWaterMark ==
  (report # Failed /\ report.dk # NotAsked /\ report.target = "DKK")
    => taxed + report.dk.taxable = Max({Cumulative(y) : y \in 0 .. year})

\* A savings or pension account that lost money as a whole has no tax withheld,
\* even when one of its funds gained, and a gain is never taxed away
\* (aktiesparekonto.py compute_ask_taxes, pal.py compute_pal, report_dk.py
\* build_skat_report).
NettedBeforeTaxed ==
  (report # Failed /\ report.dk # NotAsked /\ report.target = "DKK")
    => LET Account(entries) ==
             SumFunction([e \in entries |-> e.end + e.out - e.start - e.in])
           askGain == Account(InYear(file.ask, year))
                      + SumFunction([e \in InYear(file.ask, year) |-> e.dist])
           palGain == Account(InYear(file.pal, year))
       IN  /\ (askGain <= 0 /\ palGain <= 0) => report.dk.withheld = 0
           /\ report.dk.withheld <= Floor0(askGain) + Floor0(palGain)

\* Germany's lump sum is never more than the fund grew by, and together with
\* what the fund paid out never more than the deemed yield; the tax is a share
\* of it (de_vorab.py compute_vorabpauschale), and the totals printed are the
\* sums of the funds'.
VorabWithinGrowth ==
  \A e \in InYear(file.vorab, year) : year \in DOMAIN Basiszins =>
    LET r == Vorab(e)
    IN  /\ 0 <= r.tax /\ r.tax <= r.taxable /\ r.taxable <= r.lump
        /\ r.lump > 0 => /\ r.lump * VorabUnit <= r.growth + VorabUnit \div 2
                         /\ (r.lump + e.dist) * VorabUnit <= r.deemed + VorabUnit \div 2
=============================================================================
