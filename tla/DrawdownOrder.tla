---------------------------- MODULE DrawdownOrder ----------------------------
(* Yearly drawdown of a household's accounts in the order of a strategy     *)
(* (sim/drawdown.py evaluate_drawdown_strategy).  Every account is tried in *)
(* turn for what is still needed after tax; one withdrawal is one step.     *)
(* Amounts count øre.                                                       *)
EXTENDS DecimalMath, FiniteSetsExt, SequencesExt

CONSTANTS Accounts,    \* sequence of account records, in the dict's order
          Openings,    \* opening <<balance, cost basis>> pairs an account may have
          Orders,      \* strategies: sequences of account kinds
          Spending,    \* yearly spending, tried one at a time
          Horizon,     \* years evaluated
          SubOre,      \* fractions of an øre the bisection of a sale resolves
          Halvings,    \* its steps, 80 in the code
          AskRate, PensionRate, LowRate, HighRate  \* tax rates, as ratios

VARIABLES order, spending, year, need, balance, basis, queue,
          gross,      \* gross withdrawals of the year
          tax,        \* tax of the year
          depletion,  \* first year with an unfunded need, or 0
          start       \* history: the balances at the start

drawVars == <<order, spending, year, need, balance, basis, queue, gross, tax, depletion, start>>

Ids == DOMAIN Accounts

\* The accounts in the order a strategy visits them in one year.
Visits(kinds) ==
  FlattenSeq([k \in DOMAIN kinds |->
    SelectSeq([i \in Ids |-> i], LAMBDA i : Accounts[i].kind = kinds[k])])

\* _validate_strategy_covers_accounts.
Covers(kinds, held) ==
  \A i \in Ids : held[i] > 0 => Accounts[i].kind \in ToSet(kinds)

Init ==
  /\ \E opening \in [Ids -> Openings] :
       /\ balance = [i \in Ids |-> opening[i][1]]
       /\ basis = [i \in Ids |-> opening[i][2]]
  /\ start = balance
  /\ order \in {o \in Orders : Covers(o, balance)}
  /\ spending \in Spending
  /\ year = 1
  /\ need = spending
  /\ queue = Visits(order)
  /\ gross = 0
  /\ tax = 0
  /\ depletion = 0
-----------------------------------------------------------------------------
Gain(i) == Floor0(balance[i] - basis[i])

\* Rounding a sale down instead of up.
Floored(a, b) == a \div b

Ceiling(a, b) == -((-a) \div b)

\* w * gain fraction * rate, rounded: the flat tax of an ASK or a pension.
GainTax(i, w, rate) == HalfEven(w * Gain(i) * rate[1], balance[i] * rate[2])

\* The progressive tax of selling w (in parts of an øre) of a free depot.
SaleTax(i, w) ==
  LET gain == HalfEven(w * Gain(i), balance[i] * SubOre)
  IN  HalfEven(Least(gain, Accounts[i].threshold) * LowRate[1]
               + Floor0(gain - Accounts[i].threshold) * HighRate[1], LowRate[2])

\* The bisection of _withdraw_for_net_need: the end of a narrowing interval
\* whose upper bound always nets what is needed, rounded up to an øre.
Bisected(i, wanted) ==
  LET Enough(w) == w - SubOre * SaleTax(i, w) >= wanted * SubOre
      Halve(b) ==
        LET mid == (b[1] + b[2]) \div 2
        IN  IF b[2] - b[1] <= 1 THEN b
            ELSE IF Enough(mid) THEN <<b[1], mid>> ELSE <<mid, b[2]>>
      bounds[n \in 0 .. Halvings] ==
        IF n = 0 THEN <<0, balance[i] * SubOre>> ELSE Halve(bounds[n - 1])
  IN  Least(balance[i], Ceiling(bounds[Halvings][2], SubOre))

\* _withdraw_for_net_need and its helpers: <<withdrawal, tax>> of account i.
Untaxed(i, wanted) == <<Least(balance[i], wanted), 0>>

\* A full sale when even that nets no more than needed.
Sale(i, wanted, full, part, TaxOf(_)) ==
  IF balance[i] - full <= wanted THEN <<balance[i], full>> ELSE <<part, TaxOf(part)>>

Withdrawal(i, wanted) ==
  LET kind == Accounts[i].kind
      b == balance[i]
  IN  IF kind = "pension" /\ PensionRate[1] > 0
      THEN LET TaxOf(w) == Times(w, PensionRate)
           IN  Sale(i, wanted, TaxOf(b),
                    Least(b, Ceiling(wanted * PensionRate[2], PensionRate[2] - PensionRate[1])),
                    TaxOf)
      ELSE IF kind = "ask" /\ Gain(i) > 0
      THEN LET TaxOf(w) == GainTax(i, w, AskRate)
           IN  Sale(i, wanted, TaxOf(b),
                    Least(b, Ceiling(wanted * b * AskRate[2],
                                     b * AskRate[2] - Gain(i) * AskRate[1])),
                    TaxOf)
      ELSE IF kind = "frie_midler" /\ Accounts[i].regime = "realisation" /\ Gain(i) > 0
      THEN LET TaxOf(w) == SaleTax(i, w * SubOre)
           IN  Sale(i, wanted, TaxOf(b), Bisected(i, wanted), TaxOf)
      ELSE Untaxed(i, wanted)

\* _remaining_cost_basis_dkk: pro rata for a depot, krone by krone otherwise.
RemainingBasis(i, w) ==
  LET left == balance[i] - w
  IN  IF left <= 0 THEN 0
      ELSE IF Accounts[i].kind \in {"ask", "frie_midler"}
      THEN HalfEven(basis[i] * left, balance[i])
      ELSE Floor0(basis[i] - w)

\* An account is passed over while it is locked or empty, or nothing is needed.
Usable(i) == Accounts[i].from <= year /\ need > 0 /\ balance[i] > 0

Visit ==
  LET i == Head(queue)
      w == Withdrawal(i, need)
  IN  /\ queue # <<>>
      /\ queue' = Tail(queue)
      /\ IF Usable(i)
         THEN /\ need' = need - (w[1] - w[2])
              /\ gross' = gross + w[1]
              /\ tax' = tax + w[2]
              /\ basis' = [basis EXCEPT ![i] = RemainingBasis(i, w[1])]
              /\ balance' = [balance EXCEPT ![i] = @ - w[1]]
         ELSE UNCHANGED <<need, gross, tax, basis, balance>>
      /\ UNCHANGED <<order, spending, year, depletion, start>>

\* The year's row: a need left over makes it the depletion year, once.
CloseYear ==
  /\ queue = <<>> /\ year <= Horizon
  /\ depletion' = IF need > 0 /\ depletion = 0 THEN year ELSE depletion
  /\ year' = year + 1
  /\ need' = spending
  /\ queue' = IF year < Horizon THEN Visits(order) ELSE <<>>
  /\ gross' = 0
  /\ tax' = 0
  /\ UNCHANGED <<order, spending, balance, basis, start>>

Next == Visit \/ CloseYear

Spec == Init /\ [][Next]_drawVars
-----------------------------------------------------------------------------
YearIsFunded == queue = <<>> /\ year <= Horizon

\* A household is only told that a year's spending is not funded when every
\* account it may touch that year is empty, whatever the tax and the rounding
\* of the sales before, and no account is ever overdrawn
\* (evaluate_drawdown_strategy, _withdraw_for_net_need and its helpers).
UnfundedOnlyWhenEmpty ==
  /\ \A i \in Ids : balance[i] >= 0 /\ basis[i] >= 0
  /\ (YearIsFunded /\ need > 0) =>
       \A i \in Ids : Accounts[i].from <= year => balance[i] = 0

\* No more is sold than spending and tax need: a year that is funded sold at
\* most what is spent and taxed plus an øre for each account's rounding.
NoOverselling ==
  YearIsFunded => gross - tax <= spending + Cardinality(Ids)
=============================================================================
