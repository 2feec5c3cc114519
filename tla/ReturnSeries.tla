---------------------------- MODULE ReturnSeries ----------------------------
(* Investment returns, from the ECB rates that are loaded (ingest/ecb_fx)   *)
(* over the daily series of each account and of the household               *)
(* (mart_position_value_daily, mart_returns_daily) to the chain-linked and  *)
(* money-weighted returns the API reports (analytics/returns.py,            *)
(* api/routes.py).  Values in euro count 1 / Scale of a euro and are not    *)
(* rounded; a day stands for a year where a rate is annualised.             *)
EXTENDS Integers, FiniteSetsExt, TLC

CONSTANTS Accounts,   \* account -> its currency, "EUR" or "DKK"
          Opening,    \* account -> value on day 0, the first day on file
          Markets,    \* what a day may bring: [growth, flow, transfer, rate], by account
          Horizon,    \* days
          FeedDays,   \* 90 in the code: days the trailing feed holds
          Scale,      \* divisible by every rate
          LowRate, HighRate, \* bracket of xirr, in 1 / RateScale
          RateScale,
          Iterations, \* bisection steps, enough to reach a width of 1
          FirstRate   \* the ECB's rate of day 0

VARIABLES day,       \* days past
          value,     \* <<account, day>> -> end-of-day value, in its currency
          booked,    \* <<account, day>> -> [external, internal] flow of the day
          published, \* day -> kroner per euro, at the ECB
          rates,     \* raw.fx_rate: day -> kroner per euro
          mart,      \* mart_returns_daily: <<scope key, leg, day>> -> row
          grown      \* history: <<account, day>> -> the day's growth, a ratio

returnVars == <<day, value, booked, published, rates, mart, grown>>

Keys == DOMAIN Accounts

Household == "household"

Init ==
  /\ day = 0
  /\ value = [k \in Keys \X {0} |-> Opening[k[1]]]
  /\ booked = <<>> /\ grown = <<>>
  /\ published = (0 :> FirstRate)
  /\ rates = <<>>
  /\ mart = <<>>
-----------------------------------------------------------------------------
(* What happens: external to the program.                                   *)

\* A day: money comes in, goes out or moves between accounts, then markets move it.
\* The holdings of every account are on file for every day.  Until the mart is built
\* again it says what it said before; the model leaves it empty meanwhile.
Day ==
  /\ day < Horizon
  /\ day' = day + 1
  /\ \E m \in Markets :
       LET moved(a) == m.flow[a] + m.transfer[a]
           now(a) == (value[a, day] + moved(a)) * m.growth[a][1]
       IN  /\ \A a \in Keys : value[a, day] + moved(a) >= 0 /\ now(a) % m.growth[a][2] = 0
           /\ value' = [k \in Keys \X (0 .. day + 1) |->
                          IF k[2] <= day THEN value[k]
                          ELSE now(k[1]) \div m.growth[k[1]][2]]
           /\ booked' = [k \in Keys \X (1 .. day + 1) |->
                           IF k[2] <= day THEN booked[k]
                           ELSE [external |-> m.flow[k[1]], internal |-> m.transfer[k[1]]]]
           /\ grown' = [k \in Keys \X (1 .. day + 1) |->
                          IF k[2] <= day THEN grown[k] ELSE m.growth[k[1]]]
           /\ published' = [d \in 0 .. day + 1 |-> IF d <= day THEN published[d] ELSE m.rate]
  /\ mart' = <<>>
  /\ UNCHANGED rates
-----------------------------------------------------------------------------
(* The exchange rates: main, fetch, parse and upsert.                       *)

\* The rates a feed brings; the full history is cut off at a date.
Fetched(feed, cutoff) ==
  CASE feed = "latest" -> {day}
    [] feed = "90d" -> {d \in DOMAIN published : d > day - FeedDays}
    [] feed = "since" -> {d \in DOMAIN published : d >= cutoff}

LoadRates ==
  /\ \E feed \in {"latest", "90d", "since"}, cutoff \in DOMAIN published :
       rates' = [d \in DOMAIN rates \cup Fetched(feed, cutoff) |->
                   IF d \in Fetched(feed, cutoff) THEN published[d] ELSE rates[d]]
  /\ mart' = <<>>
  /\ UNCHANGED <<day, value, booked, published, grown>>
-----------------------------------------------------------------------------
(* The marts.                                                               *)

\* fx_eur_panel: the last rate on file up to the day.
HasRate(d) == \E e \in DOMAIN rates : e <= d

RateOn(d) == rates[Max({e \in DOMAIN rates : e <= d})]

\* An amount in one of the two reporting currencies; a krone amount or a krone view
\* needs a rate.
Convertible(a, leg, d) == HasRate(d) \/ (Accounts[a] = "EUR" /\ leg = "eur")

In(a, leg, amount, d) ==
  IF Accounts[a] = "EUR"
  THEN IF leg = "eur" THEN amount * Scale ELSE amount * Scale * RateOn(d)
  ELSE IF leg = "eur" THEN (amount * Scale) \div RateOn(d) ELSE amount * Scale

\* scope_values: SUM leaves a value without a rate out, and is NULL when it has none.
Valued(as, leg, d) == {a \in as : Convertible(a, leg, d)}

EndValue(as, leg, d) ==
  MapThenSumSet(LAMBDA a : In(a, leg, value[a, d], d), Valued(as, leg, d))

\* scope_flows: an account's flows include internal transfers, the household's do not.
Booked(key, a, d) ==
  booked[a, d].external + IF key = Household THEN 0 ELSE booked[a, d].internal

Flow(key, as, leg, d) ==
  IF d = 0 THEN 0
  ELSE MapThenSumSet(LAMBDA a : In(a, leg, Booked(key, a, d), d), Valued(as, leg, d))

\* joined: one row of mart_returns_daily.  Nothing precedes the first day on file.
Row(key, leg, d) ==
  LET as == IF key = Household THEN Keys ELSE {key}
  IN  [begin |-> IF d = 0 THEN 0 ELSE EndValue(as, leg, d - 1),
       end |-> EndValue(as, leg, d), flow |-> Flow(key, as, leg, d),
       missing |-> Valued(as, leg, d) = {} \/ (d > 0 /\ Valued(as, leg, d - 1) = {})]

\* dbt run.
Build ==
  /\ mart' = [k \in (Keys \cup {Household}) \X {"eur", "dkk"} \X (0 .. day) |->
                Row(k[1], k[2], k[3])]
  /\ UNCHANGED <<day, value, booked, published, rates, grown>>

Next == Day \/ LoadRates \/ Build

Spec == Init /\ [][Next]_returnVars
-----------------------------------------------------------------------------
(* analytics/returns.py.                                                    *)

\* ReturnPoint: the day's flow is at work from its start; the alternative counts it
\* at the day's end.
DenominatorAtEnd(p) == p.begin

Denominator(p) == p.begin + p.flow

\* A day without capital at either end has no factor and is dormant.
HasFactor(p) == Denominator(p) > 0 /\ p.end > 0

\* A value that nothing explains is a gap in the data.
IsGap(p) == Denominator(p) <= 0 /\ p.end > 0

\* A ratio of positive numbers in lowest terms.
Reduced(p) ==
  LET gcd[q \in Nat \X Nat] == IF q[2] = 0 THEN q[1] ELSE gcd[q[2], q[1] % q[2]]
      g == gcd[p]
  IN  <<p[1] \div g, p[2] \div g>>

\* chain_linked_twr: the product of the ratios of the given days.
Product(ratios, days) ==
  FoldSet(LAMBDA d, p : Reduced(<<p[1] * ratios[d][1], p[2] * ratios[d][2]>>), <<1, 1>>, days)

SameRatio(p, q) == p[1] * q[2] = q[1] * p[2]

\* fetch_returns_window, _currency_summary and twr_summary over a window of days.
Rows(key, leg, since, until) == [d \in since .. until |-> mart[key, leg, d]]

Fails(rows) == \E d \in DOMAIN rows : rows[d].missing \/ IsGap(rows[d])

Linked(rows) == {d \in DOMAIN rows : HasFactor(rows[d])}

Twr(rows) == Product([d \in DOMAIN rows |-> <<rows[d].end, Denominator(rows[d])>>], Linked(rows))

\* mwr_from_series: the opening value is bought the day before, the last one sold.
Flows(rows) ==
  LET first == Min(DOMAIN rows)
      last == Max(DOMAIN rows)
  IN  [d \in first - 1 .. last |->
         IF d < first THEN -rows[first].begin
         ELSE -rows[d].flow + (IF d = last THEN rows[d].end ELSE 0)]

\* _npv at the rate r / RateScale, times a positive factor.
Npv(r, flows) ==
  LET first == Min(DOMAIN flows)
      last == Max(DOMAIN flows)
      term[d \in first .. last] ==
        flows[d] * RateScale ^ (d - first) * (RateScale + r) ^ (last - d)
  IN  MapThenSumSet(LAMBDA d : term[d], first .. last)

NoRate == [low |-> 0, high |-> 0, found |-> FALSE]

\* xirr: the bracket is halved until its middle is a root or it cannot be halved.
Halved(flows, b) ==
  LET mid == (b.low + b.high) \div 2
      npv == Npv(mid, flows)
  IN  IF npv = 0 THEN [b EXCEPT !.low = mid, !.high = mid]
      ELSE IF (npv > 0) = (Npv(b.low, flows) > 0) THEN [b EXCEPT !.low = mid]
      ELSE [b EXCEPT !.high = mid]

Xirr(flows) ==
  LET bracket == [low |-> LowRate, high |-> HighRate, found |-> TRUE]
      Narrow(b) == IF b.high - b.low <= 1 THEN b ELSE Halved(flows, b)
  IN  IF \/ ~\E d \in DOMAIN flows : flows[d] < 0
         \/ ~\E d \in DOMAIN flows : flows[d] > 0
         \/ (Npv(LowRate, flows) > 0) = (Npv(HighRate, flows) > 0)
      THEN NoRate
      ELSE FoldSet(LAMBDA step, b : Narrow(b), bracket, 1 .. Iterations)
-----------------------------------------------------------------------------
OwnLeg(a) == IF Accounts[a] = "EUR" THEN "eur" ELSE "dkk"

Windows ==
  IF mart = <<>> THEN {} ELSE {w \in (1 .. day) \X (1 .. day) : w[1] <= w[2]}

\* The time-weighted return of an account is the growth of its days, whatever came in,
\* went out or was moved to another account on them (start-of-day flows).
TwrIsGrowth ==
  \A a \in Keys, w \in Windows :
    LET rows == Rows(a, OwnLeg(a), w[1], w[2])
    IN  ~Fails(rows) =>
          SameRatio(Twr(rows), Product([d \in DOMAIN rows |-> grown[a, d]], Linked(rows)))

\* The household earns nothing when no account does and no rate moves: money that comes,
\* goes or changes accounts and currencies is no return, as long as the rates of the
\* window, and of the day before it, are loaded.
IdleHouseholdEarnsNothing ==
  \A leg \in {"eur", "dkk"}, w \in Windows :
    LET rows == Rows(Household, leg, w[1], w[2])
    IN  /\ w[1] - 1 .. w[2] \subseteq DOMAIN rates
        /\ \A d \in w[1] .. w[2] : /\ rates[d] = rates[d - 1]
                                    /\ \A a \in Keys : grown[a, d][1] = grown[a, d][2]
        => ~Fails(rows) /\ SameRatio(Twr(rows), <<1, 1>>)

\* A window's return is the product of its parts', its dormant days are theirs, and it is
\* refused exactly when one of them is.
WindowsChain ==
  \A a \in Keys, leg \in {"eur", "dkk"}, w \in Windows : \A split \in w[1] .. w[2] - 1 :
    LET whole == Rows(a, leg, w[1], w[2])
        left == Rows(a, leg, w[1], split)
        right == Rows(a, leg, split + 1, w[2])
    IN  /\ Fails(whole) <=> Fails(left) \/ Fails(right)
        /\ Linked(whole) = Linked(left) \cup Linked(right)
        /\ SameRatio(Twr(whole), <<Twr(left)[1] * Twr(right)[1], Twr(left)[2] * Twr(right)[2]>>)

\* The money-weighted rate has the sign of the money earned, in a window nothing was
\* withdrawn in (xirr's bisection keeps its sign change).
MwrHasSignOfGain ==
  \A a \in Keys, w \in Windows :
    LET rows == Rows(a, OwnLeg(a), w[1], w[2])
        flows == Flows(rows)
        gain == MapThenSumSet(LAMBDA d : flows[d], DOMAIN flows)
        rate == Xirr(flows)
    IN  (~Fails(rows) /\ rate.found /\ \A d \in DOMAIN rows : rows[d].flow >= 0) =>
          /\ gain > 0 => rate.high > 0
          /\ gain < 0 => rate.low < 0
          /\ gain = 0 => rate.low <= 0 /\ 0 <= rate.high
          /\ rate.high - rate.low <= 1
=============================================================================
