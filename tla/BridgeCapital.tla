---------------------------- MODULE BridgeCapital ----------------------------
(* How much bridge capital a monthly spending needs (sim/bridge_spending.py *)
(* required_starting_capital_for_bridge_spending): a bisection over the     *)
(* capital, each probe of which runs the search of BridgePayout for the     *)
(* highest payment.  The one search relies on the other being monotone.     *)
EXTENDS DecimalMath, FiniteSetsExt

CONSTANTS Configs,     \* bridge configurations tried; only valid ones are used
          Targets,     \* target_monthly_net_spending, in oere
          Doublings,   \* attempts to bracket, 20 in the code, in both searches
          Bisections,  \* steps of the payment's bisection, 60 in the code
          Iterations   \* steps of the capital's bisection, 60 in the code

VARIABLES bridge, phase, low, high, steps, \* the search for the payment
          given,    \* the caller's BridgeConfig
          target,
          stage,    \* what the running assessment is for, or how the search ended
          tooLittle, enough, \* lo and hi
          probes    \* assessments of the stage so far

outer == <<given, target, stage, tooLittle, enough, probes>>

capitalVars == <<bridge, phase, low, high, steps, outer>>

Payment == INSTANCE BridgePayout

\* _with_starting_balance: a realisation depot keeps its ratio of cost basis.
WithStartingBalance(c, balance) ==
  [c EXCEPT !.balance = balance,
            !.basis = IF Payment!IsRealisation(c) THEN HalfEven(balance * c.basis, c.balance)
                      ELSE balance]

\* assess_bridge_spending starts compute_bridge_pmt for a capital ...
Ask(balance) ==
  /\ bridge' = WithStartingBalance(given, balance)
  /\ phase' = "bracket"
  /\ low' = 0
  /\ high' = HalfEven(balance, given.months)
  /\ steps' = 0

\* ... and summarize_bridge_result compares its answer with the target.
Answered == phase = "done"

Feasible == Payment!NetToPocket(bridge, Payment!Pmt) >= target

Init ==
  /\ given \in {c \in Configs : Payment!ValidConfig(c)}
  /\ target \in Targets
  /\ stage = "bracket"
  /\ tooLittle = 1
  /\ enough = Max({given.balance, target * given.months})
  /\ probes = 0
  /\ bridge = WithStartingBalance(given, enough)
  /\ phase = "bracket"
  /\ low = 0
  /\ high = HalfEven(enough, given.months)
  /\ steps = 0

Search == Payment!Next /\ UNCHANGED outer

\* An error of the inner search ends the outer one.
Raise ==
  /\ phase = "error" /\ stage # "raised"
  /\ stage' = "raised"
  /\ UNCHANGED <<bridge, phase, low, high, steps, given, target, tooLittle, enough, probes>>

\* The upper bound is doubled until it is enough.
DoubleCapital ==
  /\ stage = "bracket" /\ Answered /\ ~Feasible /\ probes < Doublings
  /\ enough' = 2 * enough
  /\ probes' = probes + 1
  /\ Ask(2 * enough)
  /\ UNCHANGED <<given, target, stage, tooLittle>>

Middle(bounds) == HalfEven(bounds[1] + bounds[2], 2)

CapitalBracketed ==
  /\ stage = "bracket" /\ Answered /\ Feasible /\ probes < Doublings
  /\ stage' = "bisect"
  /\ probes' = 0
  /\ Ask(Middle(<<tooLittle, enough>>))
  /\ UNCHANGED <<given, target, tooLittle, enough>>

\* A step of the bisection; after the last one the capital found is assessed again.
Narrowed ==
  IF Feasible THEN <<tooLittle, bridge.balance>> ELSE <<bridge.balance, enough>>

Probe ==
  /\ stage = "bisect" /\ Answered
  /\ tooLittle' = Narrowed[1] /\ enough' = Narrowed[2]
  /\ probes' = probes + 1
  /\ stage' = IF probes + 1 < Iterations THEN "bisect" ELSE "required"
  /\ Ask(IF probes + 1 < Iterations THEN Middle(Narrowed) ELSE Narrowed[2])
  /\ UNCHANGED <<given, target>>

\* assess_bridge_spending called for any smaller capital.
AssessLess ==
  /\ stage = "required" /\ Answered
  /\ stage' = "less"
  /\ \E balance \in 1 .. enough - 1 : Ask(balance)
  /\ UNCHANGED <<given, target, tooLittle, enough, probes>>

Next == Search \/ Raise \/ DoubleCapital \/ CapitalBracketed \/ Probe \/ AssessLess

Spec == Init /\ [][Next]_capitalVars
-----------------------------------------------------------------------------
\* The capital reported supports the spending, and no smaller one does: the highest
\* payment, net of the tax on sales and in whole oere, never falls when there is more
\* to pay it from (the bisection of required_starting_capital_for_bridge_spending over
\* that of compute_bridge_pmt).
RequiredIsLeast ==
  /\ (stage = "required" /\ Answered) => Feasible
  /\ (stage = "less" /\ Answered) => ~Feasible
=============================================================================
