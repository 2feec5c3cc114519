---------------------------- MODULE BridgePayout ----------------------------
(* The bridge phase of sim/liquid.py: compute_bridge_pmt searches for the   *)
(* monthly withdrawal that empties a depot in a given number of months,     *)
(* by bisection over the monthly simulation _bridge_simulate.  Amounts      *)
(* count øre; the monthly net rate, which the code derives from the yearly  *)
(* one in floating point, is a ratio of the configuration.                  *)
EXTENDS DecimalMath, FiniteSetsExt

CONSTANTS Configs,     \* bridge configurations tried; only valid ones are used
          Doublings,   \* attempts to bracket, 20 in the code
          Bisections   \* bisection steps, 60 in the code

VARIABLES bridge,  \* BridgeConfig
          phase,   \* "bracket", "bisect", "done" or "error"
          low, high,
          steps    \* steps taken in the phase

bridgeVars == <<bridge, phase, low, high, steps>>

AskRate == <<17, 100>>
LowRate == <<27, 100>>
HighRate == <<42, 100>>

Tiered(lowPart, highPart) ==
  HalfEven(lowPart * LowRate[1] + highPart * HighRate[1], LowRate[2])

\* Tax on a gain when the year's earlier gains have used part of the threshold.
MarginalTax(gain, threshold, earlier) ==
  LET lowPart == Least(gain, Floor0(threshold - earlier))
  IN  Tiered(lowPart, Floor0(gain - lowPart))

IsRealisation(c) == c.regime = "realisation"

\* BridgeConfig's validators.
ValidConfig(c) ==
  /\ c.balance > 0 /\ c.basis >= 0 /\ c.months >= 1 /\ c.threshold > 0
  /\ ~IsRealisation(c) => c.basis <= c.balance /\ c.months % 12 = 0
  /\ c.type = "ask" => ~IsRealisation(c)
  /\ c.rate[1] > -c.rate[2]

\* The depot at the start of the bridge; "earned", "taxed" and "embedded" (the tax
\* that is part of withdrawals) add up the flows.
Opening(c) ==
  [balance |-> c.balance, basis |-> c.basis, yearStart |-> c.balance, withdrawn |-> 0,
   realised |-> 0, earned |-> 0, taxed |-> 0, embedded |-> 0, spent |-> 0]

\* Return and withdrawal of one month.  A sale realises gain and consumes cost
\* basis in the proportion of the depot it sells; a loss is no negative gain.
Withdraw(c, w, d) ==
  LET return == Times(d.balance, c.rate)
      before == d.balance + return
      sells == IsRealisation(c) /\ before > 0
      gain == IF sells /\ d.basis < before
              THEN HalfEven(w * (before - d.basis), before) ELSE 0
      sold == IF sells THEN HalfEven(d.basis * w, before) ELSE 0
      tax == MarginalTax(gain, c.threshold, d.realised)
  IN  [d EXCEPT !.balance = before - w,
                !.basis = IF IsRealisation(c) THEN Floor0(@ - sold) ELSE before - w,
                !.withdrawn = @ + (IF IsRealisation(c) THEN 0 ELSE w),
                !.realised = IF IsRealisation(c) THEN @ + gain ELSE 0,
                !.earned = @ + return,
                !.taxed = @ + tax,
                !.embedded = @ + tax,
                !.spent = @ + w]

\* The lager settlement of a December.
SettleLager(c, d) ==
  LET gain == d.balance - d.yearStart + d.withdrawn
      tax == IF c.type = "ask" THEN Times(Floor0(gain), AskRate)
             ELSE MarginalTax(Floor0(gain), c.threshold, 0)
  IN  [d EXCEPT !.balance = @ - tax, !.basis = d.balance - tax,
                !.yearStart = d.balance - tax, !.withdrawn = 0,
                !.taxed = @ + tax, !.spent = @ + tax]

\* A dividend that is paid out to the household.
SettleDividendPaidOut(c, d) ==
  LET dividend == Times(d.yearStart, c.dividendYield)
      tax == MarginalTax(dividend, c.threshold, d.realised)
  IN  [d EXCEPT !.balance = @ - dividend, !.yearStart = d.balance - dividend,
                !.realised = 0, !.taxed = @ + tax, !.spent = @ + tax]

\* The dividend of a December: only its tax leaves the depot, and the rest is
\* taxed money that raises the cost basis.
SettleDividend(c, d) ==
  LET dividend == Times(d.yearStart, c.dividendYield)
      tax == MarginalTax(dividend, c.threshold, d.realised)
  IN  [d EXCEPT !.balance = @ - tax, !.basis = @ + (dividend - tax),
                !.yearStart = d.balance - tax, !.realised = 0,
                !.taxed = @ + tax, !.spent = @ + tax]

Settle(c, d) ==
  IF ~IsRealisation(c) THEN SettleLager(c, d)
  ELSE IF c.dividendYield[1] > 0 THEN SettleDividend(c, d)
  ELSE [d EXCEPT !.yearStart = d.balance, !.realised = 0]

Month(c, w, d, m) ==
  LET after == Withdraw(c, w, d)
  IN  IF m % 12 = 0 THEN Settle(c, after) ELSE after

\* _bridge_simulate with the flows recorded: the depot after every month.
Flows(c, w) ==
  LET d[m \in 0 .. c.months] ==
        IF m = 0 THEN Opening(c) ELSE Month(c, w, d[m - 1], m)
  IN  d

\* _bridge_simulate without them stops before the month that would open
\* without money, and returns what it has.
FinalBalance(c, w) ==
  LET d == Flows(c, w)
      broke == {m \in 0 .. c.months - 1 : d[m].balance <= 0}
  IN  IF broke = {} THEN d[c.months].balance ELSE d[Min(broke)].balance

\* monthly_net_to_pocket: the tax on sales is averaged over the months; lager and
\* dividend tax have left the depot already.
NetToPocket(c, w) ==
  IF IsRealisation(c) THEN w - HalfEven(Flows(c, w)[c.months].embedded, c.months) ELSE w

Init ==
  /\ bridge \in {c \in Configs : ValidConfig(c)}
  /\ phase = "bracket"
  /\ low = 0
  /\ high = HalfEven(bridge.balance, bridge.months)
  /\ steps = 0

\* The upper bound is doubled until it empties the depot.
Double ==
  /\ phase = "bracket" /\ steps < Doublings
  /\ FinalBalance(bridge, high) > 0
  /\ high' = 2 * high
  /\ steps' = steps + 1
  /\ UNCHANGED <<bridge, phase, low>>

Bracketed ==
  /\ phase = "bracket" /\ steps < Doublings
  /\ FinalBalance(bridge, high) <= 0
  /\ phase' = "bisect"
  /\ steps' = 0
  /\ UNCHANGED <<bridge, low, high>>

NotBracketed ==
  /\ phase = "bracket" /\ steps = Doublings
  /\ phase' = "error"
  /\ UNCHANGED <<bridge, low, high, steps>>

Bisect ==
  LET mid == HalfEven(low + high, 2)
  IN  /\ phase = "bisect" /\ steps < Bisections
      /\ steps' = steps + 1
      /\ IF FinalBalance(bridge, mid) > 0
         THEN low' = mid /\ UNCHANGED high
         ELSE high' = mid /\ UNCHANGED low
      /\ UNCHANGED <<bridge, phase>>

Pmt == HalfEven(low + high, 2)

\* The result is refused when the depot is overdrawn before the last month.
Overdrawn(c, w) == \E m \in 1 .. c.months - 1 : Flows(c, w)[m].balance < 0

Finish ==
  /\ phase = "bisect" /\ steps = Bisections
  /\ phase' = IF Overdrawn(bridge, Pmt) THEN "error" ELSE "done"
  /\ UNCHANGED <<bridge, low, high, steps>>

Next == Double \/ Bracketed \/ NotBracketed \/ Bisect \/ Finish

Spec == Init /\ [][Next]_bridgeVars
-----------------------------------------------------------------------------
Result(w) == Flows(bridge, w)[bridge.months]

\* The bisection only finds the withdrawal that just empties the depot if
\* more withdrawn never leaves more: every smaller withdrawal leaves money in
\* the end and every larger one does not, although tax brackets, rounding and
\* the early stop of the search bend the curve (compute_bridge_pmt,
\* _bridge_simulate's comment on the monotonicity of the search).
PmtIsTheThreshold ==
  phase = "done" =>
    /\ high - low <= 1
    /\ \A w \in 1 .. low : FinalBalance(bridge, w) > 0
    /\ \A w \in high .. 2 * high : FinalBalance(bridge, w) <= 0

\* Whatever payment the search asks about, the money is accounted for: what the
\* depot held and earned was withdrawn, paid in tax out of the depot, or is left;
\* the tax on a withdrawal is part of the withdrawal, the lager and the dividend
\* tax are not.
BridgeConserves ==
  \A w \in {low, high} : Result(w).balance = bridge.balance + Result(w).earned - Result(w).spent
=============================================================================
