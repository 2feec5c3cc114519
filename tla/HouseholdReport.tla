------------------------------ MODULE HouseholdReport ------------------------------
(***************************************************************************)
(* The household report: bank movements and the user's decisions about     *)
(* them, the fact table one dbt run makes of them                          *)
(* (fct_household_report_allocation), and what the API computes from the   *)
(* facts and the category tree for a window, a category and a granularity: *)
(* the totals, the trend, the tree of rollups and the list of movements.   *)
(*                                                                         *)
(* The facts are a table, so they are as old as the last dbt run; the tree *)
(* is a view, read live.  Days are numbers from 0, the days a report may   *)
(* ask for; a month and a year are DaysInMonth and DaysInYear of them.  An *)
(* amount in one currency is [known, missing], the subtotal of what has an *)
(* exchange rate and the number of parts that have none.                   *)
(***************************************************************************)
EXTENDS Integers, FiniteSets, FiniteSetsExt, Functions

CONSTANTS Transactions, CurrencyOf, \* the movements, and the currency of the account of each
          LastDay, DaysInMonth, DaysInYear,
          Windows,                         \* the windows asked for, <<since, until>>
          Amounts, Parts,                  \* of movements, and of their splits
          Categories, IncomeCats, Forests, \* the parent of a category is a category or Root
          Root, RateOn,                    \* DKK for one EUR on a day; 0: no rate so far
          MaxEdits                         \* bound: edits, dbt runs included

VARIABLES ledger, \* [a booked transaction -> its day, amount and the decision about it]
          parent, facts, edits

vars == <<ledger, parent, facts, edits>>

Days == 0..LastDay
Currencies == {"EUR", "DKK"}
Economic == {"income", "expense", "refund"}
NoSplit == [c \in Categories |-> 0]
Used(split) == {c \in Categories : split[c] # 0}
Undecided == [review |-> "none", treatment |-> "unclassified", split |-> NoSplit, amount |-> 0]

-----------------------------------------------------------------------------
(* The facts (fct_household_report_allocation).                             *)

SnapshotMatches(b) == b.decision.review # "none" /\ b.decision.amount = b.amount
SourceCurrent(b) == SnapshotMatches(b) /\ b.decision.review \in {"classified", "unclassified"}

Allocated(b) == MapThenSumSet(LAMBDA c : b.decision.split[c], Used(b.decision.split))

EffectiveTreatment(b) ==
    IF SourceCurrent(b) /\ b.decision.review = "classified" THEN b.decision.treatment
    ELSE "unclassified"

Mismatch(b) ==
    SourceCurrent(b) /\ EffectiveTreatment(b) \in Economic /\ Allocated(b) # b.amount

\* An economic movement has a row for each split, any other a row with no category.
Splits(b) ==
    IF EffectiveTreatment(b) \in Economic /\ ~Mismatch(b)
    THEN {[category |-> c, amount |-> b.decision.split[c]] : c \in Used(b.decision.split)}
    ELSE {[category |-> Root, amount |-> b.amount]}

RowTreatment(b) == IF Mismatch(b) THEN "unclassified" ELSE EffectiveTreatment(b)

\* A rate of 0 is no rate: the amount in the other currency is missing.
Converted(t, b, amount, ccy) ==
    IF ccy = CurrencyOf[t] THEN [known |-> amount, missing |-> 0]
    ELSE IF RateOn[b.day] = 0 THEN [known |-> 0, missing |-> 1]
    ELSE [known |-> IF ccy = "DKK" THEN amount * RateOn[b.day] ELSE amount \div RateOn[b.day],
          missing |-> 0]

FactRows(t, b) ==
    {[transaction |-> t, day |-> b.day, source |-> b.amount, category |-> s.category,
      treatment |-> RowTreatment(b), native |-> s.amount,
      amount |-> [ccy \in Currencies |-> Converted(t, b, s.amount, ccy)]] : s \in Splits(b)}

-----------------------------------------------------------------------------
(* The analytics (penge.analytics.household).                               *)

Plus(a, b) == [ccy \in Currencies |-> [known |-> a[ccy].known + b[ccy].known,
                                       missing |-> a[ccy].missing + b[ccy].missing]]
\* What is missing in either part is missing in the difference.
Minus(a, b) == [ccy \in Currencies |-> [known |-> a[ccy].known - b[ccy].known,
                                        missing |-> a[ccy].missing + b[ccy].missing]]
Absolute(a) == [ccy \in Currencies |->
                  [a[ccy] EXCEPT !.known = IF a[ccy].known < 0 THEN -a[ccy].known
                                           ELSE a[ccy].known]]
Nothing == [ccy \in Currencies |-> [known |-> 0, missing |-> 0]]
Sum(rows) == FoldSet(LAMBDA r, sum : Plus(r.amount, sum), Nothing, rows)

Reported(r) == r.treatment \in Economic \/ (r.treatment = "unclassified" /\ r.native # 0)

\* An unclassified movement counts by its sign.
CountsAs(r) ==
    IF r.treatment # "unclassified" THEN r.treatment
    ELSE IF r.native > 0 THEN "income" ELSE "expense"

Totals(rows) ==
    LET of(measure) == Sum({r \in rows : Reported(r) /\ CountsAs(r) = measure})
        income == of("income")
        gross == Absolute(of("expense"))
        net == Minus(gross, of("refund"))
    IN [income |-> income, gross_expenses |-> gross, refunds |-> of("refund"),
        net_expenses |-> net, surplus |-> Minus(income, net)]

\* _category_ancestors: walk up from the category to its root.
Lineage(tree) ==
    LET up[c \in Categories] == {c} \cup (IF tree[c] = Root THEN {} ELSE up[tree[c]])
    IN up

Selected(tree, c) == {d \in Categories : c \in Lineage(tree)[d]}

\* household_reporting._descendants: add the children of what is there, until nothing is new.
Descendants(tree, c) ==
    LET below[n \in 0..Cardinality(Categories)] ==
          IF n = 0 THEN {c} ELSE below[n - 1] \cup {d \in Categories : tree[d] \in below[n - 1]}
    IN below[Cardinality(Categories)]

Window(rows, since, until) == {r \in rows : since <= r.day /\ r.day <= until}

\* aggregate_bank_transactions: category is Root for a report with no category.
Aggregate(rows, tree, since, until, category) ==
    Totals({r \in Window(rows, since, until) :
               category = Root \/ r.category \in Selected(tree, category)})

\* category_rollups: an allocation is added to every category of its lineage.
Rollup(rows, tree, since, until, category) ==
    Totals({r \in Window(rows, since, until) :
               /\ r.category # Root /\ r.treatment \in Economic
               /\ category \in Lineage(tree)[r.category]})

-----------------------------------------------------------------------------
(* The API's answers (penge.api.household_reporting).                       *)

BucketStart(d, granularity) ==
    CASE granularity = "day" -> d
      [] granularity = "month" -> d - (d % DaysInMonth)
      [] OTHER -> d - (d % DaysInYear)

Length(granularity) ==
    CASE granularity = "day" -> 1 [] granularity = "month" -> DaysInMonth [] OTHER -> DaysInYear

Least(a, b) == IF a < b THEN a ELSE b
Greatest(a, b) == IF a > b THEN a ELSE b

Periods(since, until, granularity) ==
    {[since |-> Greatest(start, since), until |-> Least(start + Length(granularity) - 1, until)] :
       start \in {d \in BucketStart(since, granularity)..until : BucketStart(d, granularity) = d}}

\* Rows taken only when their bucket starts where the clipped period does.
PointRowsByStart(rows, period, granularity) ==
    {r \in rows : BucketStart(r.day, granularity) = period.since}

\* The rows of a point are those grouped under its bucket, whose start may be before the
\* (clipped) start of the period.
PointRows(rows, period, granularity) ==
    {r \in rows : BucketStart(r.day, granularity) = BucketStart(period.since, granularity)}

Trend(rows, tree, since, until, granularity, category) ==
    [p \in Periods(since, until, granularity) |->
       Aggregate(PointRows(Window(rows, since, until), p, granularity), tree,
                 p.since, p.until, category)]

\* The page of movements: the SQL selects the transactions that have a row in the window and,
\* with a category filter, a row of a selected category; build_transactions_response then
\* keeps those with a reportable row of a selected category.
Candidates(rows, tree, since, until, category) ==
    {r.transaction : r \in {x \in Window(rows, since, until) :
        \/ category = Root
        \/ \E y \in rows : /\ y.transaction = x.transaction
                           /\ y.category \in Descendants(tree, category)}}

Matching(rows, tree, category, t) ==
    {r \in rows : /\ r.transaction = t /\ Reported(r)
                  /\ category = Root \/ r.category \in Descendants(tree, category)}

\* [movement -> its matching splits]
Listed(rows, tree, since, until, category) ==
    LET found == Candidates(rows, tree, since, until, category)
    IN [t \in {u \in found : category = Root \/ Matching(rows, tree, category, u) # {}} |->
          Matching(rows, tree, category, t)]

-----------------------------------------------------------------------------
Init ==
    /\ ledger = <<>>
    /\ parent \in Forests
    /\ facts = {}
    /\ edits = 0

Edit == edits < MaxEdits /\ edits' = edits + 1

\* A sync books a movement.
Book(t, d, a) ==
    /\ Edit
    /\ t \notin DOMAIN ledger
    /\ ledger' = [u \in DOMAIN ledger \cup {t} |->
                    IF u = t THEN [day |-> d, amount |-> a, decision |-> Undecided]
                    ELSE ledger[u]]
    /\ UNCHANGED <<parent, facts>>

\* save_classification, as validate_splits lets it: exact, of one sign, of the right kind.
Decide(t, treatment, split) ==
    /\ Edit
    /\ t \in DOMAIN ledger
    /\ IF treatment \notin Economic THEN split = NoSplit
       ELSE /\ ledger[t].amount # 0
            /\ MapThenSumSet(LAMBDA c : split[c], Used(split)) = ledger[t].amount
            /\ \A c \in Used(split) : /\ (split[c] > 0) = (ledger[t].amount > 0)
                                      /\ (c \in IncomeCats) = (treatment = "income")
            /\ (treatment = "expense") = (ledger[t].amount < 0)
    /\ ledger' = [ledger EXCEPT ![t].decision =
         [review |-> IF treatment = "unclassified" THEN "unclassified" ELSE "classified",
          treatment |-> treatment, split |-> split, amount |-> ledger[t].amount]]
    /\ UNCHANGED <<parent, facts>>

\* A later sync brings the movement with another amount.  It invalidates the decision when
\* the household feature is on in the process that syncs (on_bank_sync).
Correct(t, a, enabled) ==
    /\ Edit
    /\ t \in DOMAIN ledger
    /\ ledger[t].amount # a
    /\ ledger' = [ledger EXCEPT ![t].amount = a,
         ![t].decision.review = IF /\ enabled /\ ledger[t].decision.review # "none"
                                   /\ ledger[t].decision.amount # a
                                THEN "needs_review" ELSE @]
    /\ UNCHANGED <<parent, facts>>

\* save_category: another parent of the same kind, with no cycle (Forests).
Move(tree) ==
    /\ Edit
    /\ tree # parent
    /\ parent' = tree
    /\ UNCHANGED <<ledger, facts>>

\* A dbt run rebuilds the table.
BuildFacts ==
    /\ Edit
    /\ facts' = UNION {FactRows(t, ledger[t]) : t \in DOMAIN ledger}
    /\ UNCHANGED <<ledger, parent>>

Next ==
    \/ \E t \in Transactions, d \in Days, a \in Amounts : Book(t, d, a)
    \/ \E t \in Transactions, split \in [Categories -> {0} \cup Parts],
          treatment \in Economic \cup {"transfer", "excluded", "unclassified"} :
             Decide(t, treatment, split)
    \/ \E t \in Transactions, a \in Amounts, enabled \in BOOLEAN : Correct(t, a, enabled)
    \/ \E tree \in Forests : Move(tree)
    \/ BuildFacts

Spec == Init /\ [][Next]_vars

-----------------------------------------------------------------------------
Filters == Categories \cup {Root}

AddUp(totals) == [m \in {"income", "gross_expenses", "refunds", "net_expenses", "surplus"} |->
                    FoldSet(LAMBDA p, sum : Plus(totals[p][m], sum), Nothing, DOMAIN totals)]

\* The points of the trend add up to the window's totals in every measure, what is missing
\* included, for every window, granularity and category: no day is in two buckets, and a
\* bucket the window cuts loses none of its days (build_summary_response, _periods).
TrendAddsUp ==
    facts # {} => \A w \in Windows, g \in {"day", "month", "year"}, c \in Filters :
       LET totals == Aggregate(facts, parent, w[1], w[2], c)
       IN AddUp(Trend(facts, parent, w[1], w[2], g, c)) = [m \in DOMAIN totals |-> totals[m]]

\* The summary with a category filter, which looks down the tree, agrees with the node of
\* the category report, which looks up from each allocation, also after the tree was moved
\* under facts of an earlier dbt run; and the roots of the tree, with the unclassified, make
\* the whole (aggregate_bank_transactions, category_rollups).
RollupsAgree ==
    facts # {} => \A w \in Windows :
       LET roots == {c \in Categories : parent[c] = Root}
           unclassified == Totals({r \in Window(facts, w[1], w[2]) :
                                      r.treatment = "unclassified"}).surplus
       IN /\ \A c \in Categories : Rollup(facts, parent, w[1], w[2], c)
                                     = Aggregate(facts, parent, w[1], w[2], c)
          /\ FoldSet(LAMBDA c, sum : Plus(Rollup(facts, parent, w[1], w[2], c).surplus, sum),
                     unclassified, roots)
               = Aggregate(facts, parent, w[1], w[2], Root).surplus

\* The list behind a figure adds up to it: the matching splits of the movements listed sum
\* to the surplus of the same window and category, and the count the page gives is the
\* number of movements it lists (the SQL's own filter and the Python one agree).
DrillDownAddsUp ==
    facts # {} => \A w \in Windows, c \in Filters :
       LET listed == Listed(facts, parent, w[1], w[2], c)
       IN /\ Sum(UNION {listed[t] : t \in DOMAIN listed})
               = Aggregate(facts, parent, w[1], w[2], c).surplus
          /\ DOMAIN listed = Candidates(facts, parent, w[1], w[2], c)

\* The facts conserve each movement: its rows add up to the amount the bank booked, under
\* one treatment, whatever was decided about it before the bank corrected it.
FactsConserve ==
    \A t \in {r.transaction : r \in facts} :
       LET rows == {r \in facts : r.transaction = t}
       IN \E r \in rows : /\ MapThenSumSet(LAMBDA x : x.native, rows) = r.source
                          /\ \A x \in rows : x.treatment = r.treatment /\ x.source = r.source
=============================================================================
