---------------------------- MODULE PfaStatements ----------------------------
(* PFA pension statements (ingest/pfa): the tables of a yearly PDF, broken   *)
(* over pages, are put together into schemes again, and the yearly sums of   *)
(* a scheme become transactions with synthetic ids.                          *)
EXTENDS DecimalMath, FiniteSetsExt, SequencesExt

CONSTANTS Policies, \* policies: sequences of schemes [kind, opening, years]; a year
                    \* is [employer, private, own, result, fees, pal, payout, funds]
          MaxLoads  \* bound on the loads

VARIABLES policy,  \* the policy the statements are about
          stored,  \* raw.transaction: <<account, year, what>> -> amount
          funds,   \* raw.holding_snapshot: <<account, year, fund>>
          loaded,  \* history: years loaded
          whole,   \* history: <<scheme, year, part>> for the parts, "sums" and "funds",
                   \* that a statement loaded showed without a break that costs rows
          loads

pfaVars == <<policy, stored, funds, loaded, whole, loads>>

Years == DOMAIN policy[1].years
Magnitude(x) == IF x < 0 THEN -x ELSE x

-----------------------------------------------------------------------------
(* What PFA prints: one summary table per scheme, then its investment profile. *)

\* What a year brought, and what the balance moved by: a payout leaves the scheme.
Earned(scheme, y) ==
  LET s == scheme.years[y] IN s.employer + s.private + s.own + s.result - s.fees - s.pal
Change(scheme, y) == Earned(scheme, y) - scheme.years[y].payout
Opening(scheme, y) == scheme.opening + FoldLeft(+, 0, [i \in 1..(y - 1) |-> Change(scheme, i)])
Closing(scheme, y) == Opening(scheme, y) + Change(scheme, y)

Line(label, amount) == [label |-> label, amount |-> amount]

\* Deductions are printed with either sign, contributions and a payout only in the
\* years that have them.
SummaryRows(scheme, y, sign) ==
  LET s == scheme.years[y]
      some(rows) == SelectSeq(rows, LAMBDA r : r.amount # 0)
  IN  <<Line("primo", Opening(scheme, y))>>
      \o some(<<Line("employer", s.employer), Line("private", s.private), Line("own", s.own)>>)
      \o <<Line("afkast", s.result), Line("omkostninger", sign * s.fees),
           Line("pal-skat", sign * s.pal)>>
      \o some(<<Line("udbetaling", s.payout)>>)
      \o <<Line("ultimo", Closing(scheme, y))>>
FundRows(scheme, y) ==
  [i \in DOMAIN scheme.years[y].funds |-> Line(scheme.years[y].funds[i], 1)]

Table(head, rows) == [head |-> head, rows |-> rows]

\* A page break after a table's row `at` puts the other rows into a table without
\* a head.
Broken(head, rows, at) ==
  LET kept == Least(at, Len(rows))
  IN  <<Table(head, SubSeq(rows, 1, kept))>>
      \o (IF kept = Len(rows) THEN <<>>
          ELSE <<Table("none", SubSeq(rows, kept + 1, Len(rows)))>>)

\* Bound: one break per scheme, in its summary or in its fund list, whose head is a
\* row too.
SchemeTables(scheme, y, sign, cut) ==
  LET rows == SummaryRows(scheme, y, sign)
      held == FundRows(scheme, y)
  IN  Broken(scheme.kind, rows, cut)
      \o Broken("investerings", held, IF cut <= Len(rows) THEN Len(held) ELSE cut - Len(rows) - 1)
Statement(p, y, sign, cut) ==
  FlattenSeq([i \in DOMAIN p |-> SchemeTables(p[i], y, sign, cut)])

-----------------------------------------------------------------------------
(* What the parser reads *)

Source(label) == IF label = "employer" THEN "employer" ELSE "employee"
EmptyScheme(kind, sub) ==
  [kind |-> kind, sub |-> sub, opening |-> 0, closing |-> 0, contributions |-> <<>>,
   result |-> 0, fees |-> 0, pal |-> 0, held |-> {}]

\* _apply_summary_row: a later row of a kind replaces the earlier one, except that
\* contributions add up as a list; unknown labels are passed over, "Udbetaling" too.
Applied(scheme, row) ==
  CASE row.label = "primo" -> [scheme EXCEPT !.opening = row.amount]
    [] row.label = "ultimo" -> [scheme EXCEPT !.closing = row.amount]
    [] row.label = "afkast" -> [scheme EXCEPT !.result = row.amount]
    [] row.label = "omkostninger" -> [scheme EXCEPT !.fees = row.amount]
    [] row.label = "pal-skat" -> [scheme EXCEPT !.pal = row.amount]
    [] row.label \in {"employer", "private", "own"} ->
         [scheme EXCEPT !.contributions =
            Append(@, [source |-> Source(row.label), amount |-> row.amount])]
    [] OTHER -> scheme

SchemeRead(kind, sub, rows) == FoldLeft(Applied, EmptyScheme(kind, sub), rows)

\* _target_summary_rows: the rows of a scheme already read, without its zeros.
RowsOf(scheme) ==
  LET given(label, amount) == IF amount = 0 THEN <<>> ELSE <<Line(label, amount)>>
      paid(c) == Line(IF c.source = "employer" THEN "employer" ELSE "private", c.amount)
  IN  given("primo", scheme.opening)
      \o [i \in DOMAIN scheme.contributions |-> paid(scheme.contributions[i])]
      \o given("afkast", scheme.result) \o given("omkostninger", scheme.fees)
      \o given("pal-skat", scheme.pal) \o given("ultimo", scheme.closing)

\* A table without a scheme's head continues the last scheme when its first row
\* starts like a summary row.  "Egen indbetaling", "Udbetaling" and a fund's name do
\* not: what such a table holds is lost.
ContinuationLabels == {"primo", "employer", "private", "afkast", "omkostninger", "pal-skat", "ultimo"}
Continues(table) == table.rows # <<>> /\ Head(table.rows).label \in ContinuationLabels
Continued(scheme, table) ==
  [SchemeRead(scheme.kind, scheme.sub, RowsOf(scheme) \o table.rows) EXCEPT !.held = scheme.held]

\* _build_schemes: one step per table.  Schemes of a kind are numbered in the
\* order they are met.
Built(schemes, table) ==
  LET n == Len(schemes)
      sub == 1 + Cardinality({i \in 1..n : schemes[i].kind = table.head})
      held == {r.label : r \in ToSet(table.rows)}
  IN  CASE table.head = "investerings" ->
             IF n > 0 /\ held # {} THEN [schemes EXCEPT ![n].held = held] ELSE schemes
        [] table.head = "none" ->
             IF n > 0 /\ Continues(table) THEN [schemes EXCEPT ![n] = Continued(@, table)]
             ELSE schemes
        [] OTHER -> Append(schemes, SchemeRead(table.head, sub, table.rows))
Parsed(tables) == FoldLeft(Built, <<>>, tables)

-----------------------------------------------------------------------------
(* What the loader stores *)

Account(scheme) == <<scheme.kind, scheme.sub>>

\* A deduction that keeps the sign it is printed with, turned round.
DeductionAsPrinted(amount) == -amount

\* _upsert_scheme_transactions: deductions are stored negative whatever their sign
\* was in print.
Deduction(amount) == -Magnitude(amount)
Transactions(scheme) ==
  [i \in DOMAIN scheme.contributions |->
     [what |-> scheme.contributions[i].source, amount |-> scheme.contributions[i].amount]]
  \o <<[what |-> "return", amount |-> scheme.result],
       [what |-> "fee", amount |-> Deduction(scheme.fees)],
       [what |-> "tax", amount |-> Deduction(scheme.pal)]>>
Posted(scheme) == SelectSeq(Transactions(scheme), LAMBDA t : t.amount # 0)

\* synthesize_external_id: two rows of one statement with the same id make the
\* upsert fail, and the load with it.
Distinct(scheme) ==
  LET rows == Posted(scheme)
  IN  \A i, j \in DOMAIN rows : rows[i].what = rows[j].what => i = j

Init ==
  /\ policy \in Policies
  /\ stored = <<>>
  /\ funds = {}
  /\ loaded = {}
  /\ whole = {}
  /\ loads = 0

Put(f, g) == [x \in DOMAIN f \cup DOMAIN g |-> IF x \in DOMAIN g THEN g[x] ELSE f[x]]
RowsFor(scheme, y) ==
  LET rows == Posted(scheme)
  IN  [k \in {<<Account(scheme), y, rows[i].what>> : i \in DOMAIN rows} |->
         rows[CHOOSE i \in DOMAIN rows : rows[i].what = k[3]].amount]

\* _upsert_holdings: the funds of a scheme are added to those stored for its year.
FundsFor(scheme, y) == {<<Account(scheme), y, f>> : f \in scheme.held}

\* The parts of a scheme a break costs no row that is stored: only one right before
\* "Egen indbetaling" drops sums that are loaded, and every break in a fund list
\* drops the funds after it.
WholeParts(i, y, sign, cut) ==
  LET rows == SummaryRows(policy[i], y, sign)
      held == Len(policy[i].years[y].funds)
      sums == cut < Len(rows) => rows[cut + 1].label # "own"
      list == cut <= Len(rows) \/ cut > Len(rows) + held
  IN  {p \in {<<i, y, "sums">>, <<i, y, "funds">>} : IF p[3] = "sums" THEN sums ELSE list}

LoadStatement(y, sign, cut) ==
  LET schemes == Parsed(Statement(policy, y, sign, cut))
  IN  /\ loads < MaxLoads
      /\ loads' = loads + 1
      /\ IF \A i \in DOMAIN schemes : Distinct(schemes[i])
         THEN /\ stored' = FoldLeft(LAMBDA f, s : Put(f, RowsFor(s, y)), stored, schemes)
              /\ funds' = funds \cup UNION {FundsFor(schemes[i], y) : i \in DOMAIN schemes}
              /\ loaded' = loaded \cup {y}
              /\ whole' = whole \cup UNION {WholeParts(i, y, sign, cut) : i \in DOMAIN policy}
         ELSE UNCHANGED <<stored, funds, loaded, whole>>
      /\ UNCHANGED policy

Next == \E y \in Years, sign \in {1, -1}, cut \in 0..12 : LoadStatement(y, sign, cut)

Spec == Init /\ [][Next]_pfaVars

-----------------------------------------------------------------------------
(* Properties *)

AccountOf(p, i) ==
  <<p[i].kind, Cardinality({j \in 1..i : p[j].kind = p[i].kind})>>

\* The transactions stored for a scheme and a year add up to the change of its balance
\* and what was paid out, which the parser passes over: whichever sign deductions were
\* printed with, however often a statement was loaded and wherever the page breaks
\* fell, unless each one loaded broke right before "Egen indbetaling".  Nothing is
\* stored that was not printed for the scheme, broken or not.
StoredReconciles ==
  \A i \in DOMAIN policy : \A y \in Years :
    LET account == AccountOf(policy, i)
        posted == {k \in DOMAIN stored : k[1] = account /\ k[2] = y}
        printed == {Magnitude(r.amount) : r \in ToSet(SummaryRows(policy[i], y, 1))}
    IN  /\ <<i, y, "sums">> \in whole =>
             MapThenSumSet(LAMBDA k : stored[k], posted)
             = Closing(policy[i], y) - Opening(policy[i], y) + policy[i].years[y].payout
        /\ posted # {} => y \in loaded
        /\ \A k \in posted : Magnitude(stored[k]) \in printed

\* The funds stored for a scheme's year are among those printed for it, never another
\* scheme's, and all of them unless a page break fell in the list of every statement
\* loaded: the funds after a break are lost.
FundsStayWithTheirScheme ==
  \A i \in DOMAIN policy : \A y \in Years :
    LET account == AccountOf(policy, i)
        kept == {f[3] : f \in {g \in funds : g[1] = account /\ g[2] = y}}
        printed == ToSet(policy[i].years[y].funds)
    IN  /\ kept \subseteq printed
        /\ <<i, y, "funds">> \in whole => kept = printed
=============================================================================
