------------------------------ MODULE TaxLots ------------------------------
(* The average-cost tax-lot book of tax/lots.py (gennemsnitsmetoden), for   *)
(* one account.  Quantities count millionths of a share (the code's         *)
(* _QTY_DP), costs count the last digit the Decimal context keeps.  The     *)
(* book's dict of lots is a function that maps an ISIN without a lot to     *)
(* NoLot; events are fed by apply_all, which stops at the first LotError.   *)
EXTENDS DecimalMath, FiniteSetsExt, Functions

CONSTANTS Isins,        \* instruments of the account
          Currencies,   \* currencies of the events
          Quantities,   \* quantities bought or sold, in millionths; 0 is a
                        \* positive one that quantize has rounded away
          Prices,       \* prices of one millionth
          Fees,         \* trading fees
          Ratios,       \* split and merge ratios, as <<num, den>>
          MaxEvents     \* bound on the length of the event stream

VARIABLES lots,      \* LotBook._lots: Isin -> lot or NoLot
          realised,  \* currency -> totals over LotBook._realised
          paid,      \* currency -> cost added by every Buy so far
          dust,      \* currency -> cost written off with closed lots
          applied,   \* events applied
          refused    \* a LotError has ended apply_all

lotVars == <<lots, realised, paid, dust, applied, refused>>

\* An account holds finitely many instruments; the validators of lots.py let
\* quantities and ratios be positive only.  Prices and fees may be negative.
LotConstants ==
  /\ IsFiniteSet(Isins)
  /\ Quantities \subseteq Nat
  /\ Prices \subseteq Int
  /\ Fees \subseteq Int
  /\ Ratios \subseteq (Nat \ {0}) \X (Nat \ {0})
  /\ MaxEvents \in Nat

NoLot == [qty |-> 0, cost |-> 0, cur |-> "none"]

Lot(q, k, c) == [qty |-> q, cost |-> k, cur |-> c]

IsOpen(i) == lots[i] # NoLot

TypeOK ==
  /\ \A i \in Isins : IsOpen(i) => lots[i] \in [qty : Nat, cost : Int, cur : Currencies]
  /\ paid \in [Currencies -> Int]
  /\ dust \in [Currencies -> Int]
  /\ applied \in 0 .. MaxEvents
  /\ refused \in BOOLEAN

Init ==
  /\ lots = [i \in Isins |-> NoLot]
  /\ realised = [c \in Currencies |-> [proceeds |-> 0, cost |-> 0, gain |-> 0]]
  /\ paid = [c \in Currencies |-> 0]
  /\ dust = [c \in Currencies |-> 0]
  /\ applied = 0
  /\ refused = FALSE

Apply == /\ ~refused
         /\ applied < MaxEvents
         /\ applied' = applied + 1

\* A LotError raised before the book was touched.
Refuse == /\ Apply
          /\ refused' = TRUE
          /\ UNCHANGED <<lots, realised, paid, dust>>

Buy(i, q, p, fee, c) ==
  /\ IsOpen(i) => lots[i].cur = c
  /\ Apply
  /\ lots' = [lots EXCEPT ![i] = Lot(@.qty + q, @.cost + q * p + fee, c)]
  /\ paid' = [paid EXCEPT ![c] = @ + q * p + fee]
  /\ UNCHANGED <<realised, dust, refused>>

BuyRefused(i, c) == IsOpen(i) /\ lots[i].cur # c /\ Refuse

\* What a lot becomes when k leaves it with q shares: one millionth or less
\* is closed out, whatever the event sold.
Remainder(lot, q, k) ==
  LET left == Lot(lot.qty - q, lot.cost - k, lot.cur)
  IN  IF left.qty <= 1 THEN NoLot ELSE left

\* An average that is cut off instead of rounded.
AverageCostTruncated(lot) == IF lot.qty > 0 THEN lot.cost \div lot.qty ELSE 0

AverageCost(lot) == IF lot.qty > 0 THEN HalfEven(lot.cost, lot.qty) ELSE 0

Sell(i, q, p, fee, c) ==
  LET lot == lots[i]
      cost == AverageCost(lot) * q
      proceeds == q * p - fee
      rest == Remainder(lot, q, cost)
  IN  /\ IsOpen(i) /\ lot.cur = c /\ q <= lot.qty
      /\ Apply
      /\ lots' = [lots EXCEPT ![i] = rest]
      /\ realised' = [realised EXCEPT
           ![c] = [proceeds |-> @.proceeds + proceeds,
                   cost |-> @.cost + cost,
                   gain |-> @.gain + (proceeds - cost)]]
      /\ dust' = [dust EXCEPT ![c] = @ + (lot.cost - cost - rest.cost)]
      /\ UNCHANGED <<paid, refused>>

SellRefused(i, q, c) ==
  /\ \/ ~IsOpen(i)
     \/ lots[i].cur # c
     \/ q > lots[i].qty
  /\ Refuse

Split(i, r) ==
  /\ IsOpen(i)
  /\ Apply
  /\ lots' = [lots EXCEPT ![i] = Lot(Times(@.qty, r), @.cost, @.cur)]
  /\ UNCHANGED <<realised, paid, dust, refused>>

\* The book after old's lot has been popped and, with ratio r, added to the
\* lot of new; a merge into itself therefore re-creates the popped lot.
Merged(old, new, r) ==
  LET popped == [lots EXCEPT ![old] = NoLot]
      moved == lots[old]
  IN  [popped EXCEPT
         ![new] = Lot(@.qty + Times(moved.qty, r), @.cost + moved.cost, moved.cur)]

Merge(old, new, r) ==
  /\ IsOpen(old)
  /\ \/ new = old
     \/ ~IsOpen(new)
     \/ lots[new].cur = lots[old].cur
  /\ Apply
  /\ lots' = Merged(old, new, r)
  /\ UNCHANGED <<realised, paid, dust, refused>>

\* The currency check comes after the pop: the refused merge loses old's lot.
MergeRefused(old, new) ==
  /\ IsOpen(old) /\ IsOpen(new) /\ new # old
  /\ lots[new].cur # lots[old].cur
  /\ Apply
  /\ refused' = TRUE
  /\ lots' = [lots EXCEPT ![old] = NoLot]
  /\ UNCHANGED <<realised, paid, dust>>

\* Split and merge of an instrument without a lot.
NothingToAdjust(i) == ~IsOpen(i) /\ Refuse

Next ==
  \E i \in Isins :
    \/ \E q \in Quantities, p \in Prices, fee \in Fees, c \in Currencies :
         \/ Buy(i, q, p, fee, c)
         \/ Sell(i, q, p, fee, c)
    \/ \E c \in Currencies : BuyRefused(i, c)
    \/ \E q \in Quantities, c \in Currencies : SellRefused(i, q, c)
    \/ \E r \in Ratios : Split(i, r)
    \/ \E r \in Ratios, new \in Isins : Merge(i, new, r)
    \/ \E new \in Isins : MergeRefused(i, new)
    \/ NothingToAdjust(i)

Spec == Init /\ [][Next]_lotVars
-----------------------------------------------------------------------------
OpenCost(c) == SumFunction([i \in Isins |-> IF lots[i].cur = c THEN lots[i].cost ELSE 0])

\* Every krone paid for shares is, in its currency, either still the cost of
\* an open lot, or has been deducted from a realised gain, or was written off
\* with the last millionth of a share: no split, merge or partial sale makes
\* cost appear or disappear (_apply_sell, _apply_split, _apply_merge), as long
\* as no event was refused.
CostIsConserved ==
  ~refused => \A c \in Currencies :
    /\ paid[c] = OpenCost(c) + realised[c].cost + dust[c]
    /\ realised[c].gain = realised[c].proceeds - realised[c].cost

\* A sale keeps the average cost of what remains, up to the rounding of that
\* average: selling in two halves deducts what selling at once deducts
\* (_apply_sell and Lot.average_cost).
KeepsAverage ==
  \A i \in Isins :
    (/\ realised' # realised
     /\ lots'[i] # lots[i]
     /\ lots'[i] # NoLot)
    => LET d == lots'[i].cost * lots[i].qty - lots[i].cost * lots'[i].qty
       IN  2 * Greatest(d, -d) <= (lots[i].qty - lots'[i].qty) * lots[i].qty

SaleKeepsAverage == [][KeepsAverage]_lotVars
=============================================================================
