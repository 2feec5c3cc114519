------------------------------ MODULE TaxProofs ------------------------------
(***************************************************************************)
(* Proofs about the programs of TaxPrograms: the lot book, the tax years   *)
(* and the ABIS list, each with its inductive invariant.                   *)
(*                                                                         *)
(* Lots.  Cost itself is conserved: a sale moves it from the lots to the   *)
(* realised gains and the dust, and lots are whole numbers of the smallest *)
(* unit however an average was rounded.                                    *)
(*                                                                         *)
(* Tax years.  What has been taxed is the highest the household's gain     *)
(* ever was, and the loss carried forward is what it is below that.        *)
(*                                                                         *)
(* ABIS.  A transaction under way has read the newest of the rows it has   *)
(* written, so that what it commits follows the listing.                   *)
(***************************************************************************)
EXTENDS TaxPrograms, SumFacts

-----------------------------------------------------------------------------
(* The lot book. *)

OpenLots == [qty : Nat, cost : Int, cur : LotCurrencies]

Amounts == [LotCurrencies -> Int]

LotShape ==
  /\ lots \in [LotIsins -> OpenLots \cup {Lots!NoLot}]
  /\ realised \in [LotCurrencies -> [proceeds : Int, cost : Int, gain : Int]]
  /\ paid \in Amounts
  /\ dust \in Amounts
  /\ applied \in 0 .. LotMaxEvents
  /\ refused \in BOOLEAN

LotInv == LotShape /\ Lots!CostIsConserved

-----------------------------------------------------------------------------
(* Rounding *)

\* A ratio of whole numbers rounds to a whole number at most half a unit of
\* the divisor away.
LEMMA HalfEvenBounds ==
  ASSUME NEW a \in Int, NEW b \in Nat, b > 0
  PROVE  /\ Lots!HalfEven(a, b) \in Int
         /\ 2 * (a - b * Lots!HalfEven(a, b)) <= b
         /\ -b <= 2 * (a - b * Lots!HalfEven(a, b))
<1>1. /\ a \div b \in Int /\ (a % b) \in 0 .. b - 1
      /\ a = b * (a \div b) + (a % b)
  OBVIOUS
<1>2. QED
  BY <1>1 DEF Lots!HalfEven

\* What is not negative does not round below zero.
LEMMA HalfEvenNat ==
  ASSUME NEW a \in Nat, NEW b \in Nat, b > 0
  PROVE  Lots!HalfEven(a, b) \in Nat
<1>1. /\ a \div b \in Int /\ (a % b) \in 0 .. b - 1
      /\ a = b * (a \div b) + (a % b)
  OBVIOUS
<1>2. a \div b >= 0
  BY <1>1
<1>3. QED
  BY <1>1, <1>2 DEF Lots!HalfEven

\* A split of a number of shares gives a number of shares.
LEMMA TimesNat ==
  ASSUME Lots!LotConstants, NEW x \in Nat, NEW r \in Ratios
  PROVE  Lots!Times(x, r) \in Nat
<1>1. r[1] \in Nat /\ r[2] \in Nat /\ r[2] > 0
  BY DEF Lots!LotConstants
<1>2. x * r[1] \in Nat
  BY <1>1
<1>3. QED
  BY <1>1, <1>2, HalfEvenNat DEF Lots!Times

\* An average cost is a whole number, and as many shares at that average cost
\* what the lot cost but for half a unit per share.
LEMMA AverageBounds ==
  ASSUME NEW lot \in OpenLots
  PROVE  /\ Lots!AverageCost(lot) \in Int
         /\ lot.qty > 0 => /\ 2 * (lot.cost - lot.qty * Lots!AverageCost(lot)) <= lot.qty
                           /\ -lot.qty <= 2 * (lot.cost - lot.qty * Lots!AverageCost(lot))
<1>1. lot.qty \in Nat /\ lot.cost \in Int
  BY DEF OpenLots
<1>2. CASE lot.qty > 0
  <2>1. Lots!AverageCost(lot) = Lots!HalfEven(lot.cost, lot.qty)
    BY <1>2 DEF Lots!AverageCost
  <2>2. QED
    BY <1>1, <1>2, <2>1, HalfEvenBounds
<1>3. CASE lot.qty = 0
  BY <1>3 DEF Lots!AverageCost
<1>4. QED
  BY <1>1, <1>2, <1>3

-----------------------------------------------------------------------------
(* The cost of the open lots *)

CostOf(lot, c) == IF lot.cur = c THEN lot.cost ELSE 0

CostIn(b, c) == [i \in LotIsins |-> CostOf(b[i], c)]

Total(b, c) == Sum(CostIn(b, c), LotIsins)

\* The cost of the open lots is their total, before and after a step.
LEMMA OpenCostIsTotal ==
  ASSUME NEW c
  PROVE  Lots!OpenCost(c) = Total(lots, c) /\ Lots!OpenCost(c)' = Total(lots', c)
  BY DEF Lots!OpenCost, Lots!SumFunction, Lots!SumFunctionOnSet, Lots!FoldFunctionOnSet,
         Lots!MapThenFoldSet, Total, CostIn, CostOf, Sum, FoldFunctionOnSet, MapThenFoldSet

Books == [LotIsins -> OpenLots \cup {Lots!NoLot}]

\* A lot of the account, or none, has a whole cost.
LEMMA CostOfType ==
  ASSUME NEW b \in Books, NEW i \in LotIsins, NEW c
  PROVE  CostOf(b[i], c) \in Int /\ CostIn(b, c)[i] = CostOf(b[i], c)
<1>1. b[i] \in OpenLots \/ b[i] = Lots!NoLot
  BY DEF Books
<1>2. b[i].cost \in Int
  BY <1>1 DEF OpenLots, Lots!NoLot
<1>3. QED
  BY <1>2 DEF CostOf, CostIn

\* The total is a whole number, and a book that differs in one lot differs in
\* its total by that lot's cost.
LEMMA TotalChanged ==
  ASSUME Lots!LotConstants, NEW b \in Books, NEW d \in Books, NEW i \in LotIsins, NEW c,
         \A j \in LotIsins \ {i} : b[j] = d[j]
  PROVE  /\ Total(b, c) \in Int
         /\ Total(d, c) = Total(b, c) - CostOf(b[i], c) + CostOf(d[i], c)
<1> DEFINE f == CostIn(b, c)
           h == CostIn(d, c)
<1>1. IsFiniteSet(LotIsins)
  BY DEF Lots!LotConstants, Lots!IsFiniteSet, IsFiniteSet
<1>2. \A j \in LotIsins : /\ f[j] \in Int /\ f[j] = CostOf(b[j], c)
                       /\ h[j] \in Int /\ h[j] = CostOf(d[j], c)
  BY CostOfType
<1> HIDE DEF f, h
<1>3. \A j \in LotIsins \ {i} : f[j] = h[j]
  BY <1>2
<1>4. Sum(f, LotIsins) \in Int /\ Sum(h, LotIsins) = Sum(f, LotIsins) - f[i] + h[i]
  BY <1>1, <1>2, <1>3, SumType, SumChanged
<1>5. QED
  BY <1>2, <1>4 DEF Total, f, h

-----------------------------------------------------------------------------
(* The steps *)

\* What is left of a lot is a lot again, or none.
LEMMA RemainderType ==
  ASSUME NEW lot \in OpenLots, NEW q \in Nat, q <= lot.qty, NEW k \in Int
  PROVE  /\ Lots!Remainder(lot, q, k) \in OpenLots \cup {Lots!NoLot}
         /\ Lots!Remainder(lot, q, k) # Lots!NoLot =>
              /\ Lots!Remainder(lot, q, k) = Lots!Lot(lot.qty - q, lot.cost - k, lot.cur)
              /\ lot.qty - q > 1
<1>1. lot.qty \in Nat /\ lot.cost \in Int /\ lot.cur \in LotCurrencies
  BY DEF OpenLots
<1>2. Lots!Lot(lot.qty - q, lot.cost - k, lot.cur) \in OpenLots
  BY <1>1 DEF Lots!Lot, OpenLots
<1>3. Lots!Lot(lot.qty - q, lot.cost - k, lot.cur).qty = lot.qty - q
  BY DEF Lots!Lot
<1>4. QED
  BY <1>1, <1>2, <1>3 DEF Lots!Remainder

\* The cost and the proceeds of a sale.
SaleCost(lot, q) == Lots!AverageCost(lot) * q
Proceeds(q, p, fee) == q * p - fee

\* Shares bought join the lot at their price and fee, and only that lot and
\* what has been paid in its currency change.
LEMMA BuyStep ==
  ASSUME Lots!LotConstants, LotShape, NEW i \in LotIsins, NEW q \in Quantities, NEW p \in Prices,
         NEW fee \in Fees, NEW c \in LotCurrencies, Lots!Buy(i, q, p, fee, c)
  PROVE  /\ LotShape'
         /\ q * p + fee \in Int
         /\ \A j \in LotIsins \ {i} : lots'[j] = lots[j]
         /\ \A d \in LotCurrencies :
              CostOf(lots'[i], d) = CostOf(lots[i], d) + (IF d = c THEN q * p + fee ELSE 0)
         /\ \A d \in LotCurrencies : paid'[d] = paid[d] + (IF d = c THEN q * p + fee ELSE 0)
<1>1. q \in Nat /\ p \in Int /\ fee \in Int /\ q * p \in Int /\ q * p + fee \in Int
  BY DEF Lots!LotConstants
<1>2. lots[i] \in OpenLots \/ lots[i] = Lots!NoLot
  BY DEF LotShape
<1>3. lots[i].qty \in Nat /\ lots[i].cost \in Int
  BY <1>2 DEF OpenLots, Lots!NoLot
<1> DEFINE k == q * p + fee
<1>4. k \in Int
  BY <1>1
<1>5. lots' = [lots EXCEPT ![i] = Lots!Lot(lots[i].qty + q, lots[i].cost + k, c)]
  <2>1. lots[i].cost + q * p + fee = lots[i].cost + k
    BY <1>1, <1>3
  <2>2. QED
    BY <2>1 DEF Lots!Buy
<1>6. paid' = [paid EXCEPT ![c] = paid[c] + k]
  <2>1. paid[c] \in Int /\ paid[c] + q * p + fee = paid[c] + k
    BY <1>1 DEF LotShape, Amounts
  <2>2. QED
    BY <2>1 DEF Lots!Buy
<1> HIDE DEF k
<1>7. Lots!Lot(lots[i].qty + q, lots[i].cost + k, c) \in OpenLots
  BY <1>1, <1>3, <1>4 DEF Lots!Lot, OpenLots
<1>8. lots' \in [LotIsins -> OpenLots \cup {Lots!NoLot}]
  BY <1>5, <1>7 DEF LotShape
<1>9. paid' \in Amounts
  BY <1>4, <1>6 DEF LotShape, Amounts
<1>10. LotShape'
  BY <1>8, <1>9 DEF LotShape, Lots!Buy, Lots!Apply, Lots!LotConstants
<1>11. lots'[i] = Lots!Lot(lots[i].qty + q, lots[i].cost + k, c)
       /\ \A j \in LotIsins \ {i} : lots'[j] = lots[j]
  BY <1>5 DEF LotShape
<1>12. \A d \in LotCurrencies : paid'[d] = paid[d] + (IF d = c THEN k ELSE 0)
  <2>1. \A d \in LotCurrencies : paid[d] \in Int
    BY DEF LotShape, Amounts
  <2>2. QED
    BY <1>4, <1>6, <2>1 DEF LotShape, Amounts
<1>13. ASSUME NEW d \in LotCurrencies
       PROVE  CostOf(lots'[i], d) = CostOf(lots[i], d) + (IF d = c THEN k ELSE 0)
  <2>1. CASE lots[i] = Lots!NoLot
    <3>1. CostOf(lots[i], d) = 0 /\ lots[i].cost = 0
      BY <2>1 DEF CostOf, Lots!NoLot
    <3>2. CostOf(lots'[i], d) = IF d = c THEN k ELSE 0
      BY <1>4, <1>11, <3>1 DEF CostOf, Lots!Lot
    <3>3. QED
      BY <1>4, <3>1, <3>2
  <2>2. CASE lots[i] # Lots!NoLot
    <3>1. lots[i].cur = c
      BY <2>2 DEF Lots!Buy, Lots!IsOpen
    <3>2. QED
      BY <1>3, <1>4, <1>11, <3>1 DEF CostOf, Lots!Lot
  <2>3. QED
    BY <2>1, <2>2
<1>14. QED
  BY <1>1, <1>10, <1>11, <1>12, <1>13 DEF k

\* A sale moves its cost, and with a closed lot the rest, out of the lot; only
\* that lot and the totals of its currency change.
LEMMA SellStep ==
  ASSUME Lots!LotConstants, LotShape, NEW i \in LotIsins, NEW q \in Quantities, NEW p \in Prices,
         NEW fee \in Fees, NEW c \in LotCurrencies, Lots!Sell(i, q, p, fee, c)
  PROVE  /\ LotShape'
         /\ SaleCost(lots[i], q) \in Int /\ Proceeds(q, p, fee) \in Int
         /\ lots[i] \in OpenLots /\ lots[i].cur = c /\ q \in Nat /\ q <= lots[i].qty
         /\ lots'[i] = Lots!Remainder(lots[i], q, SaleCost(lots[i], q))
         /\ lots'[i] \in OpenLots \cup {Lots!NoLot}
         /\ \A j \in LotIsins \ {i} : lots'[j] = lots[j]
         /\ \A d \in LotCurrencies :
              /\ d # c => realised'[d] = realised[d] /\ dust'[d] = dust[d]
              /\ paid'[d] = paid[d]
         /\ realised'[c].proceeds = realised[c].proceeds + Proceeds(q, p, fee)
         /\ realised'[c].cost = realised[c].cost + SaleCost(lots[i], q)
         /\ realised'[c].gain = realised[c].gain
                                + (Proceeds(q, p, fee) - SaleCost(lots[i], q))
         /\ dust'[c] = dust[c]
                       + (lots[i].cost - SaleCost(lots[i], q) - lots'[i].cost)
<1> DEFINE k == SaleCost(lots[i], q)
           s == Proceeds(q, p, fee)
           rest == Lots!Remainder(lots[i], q, k)
           r == [proceeds |-> realised[c].proceeds + s,
                 cost |-> realised[c].cost + k,
                 gain |-> realised[c].gain + (s - k)]
<1>1. q \in Nat /\ p \in Int /\ fee \in Int /\ q * p \in Int /\ s \in Int
  BY DEF Lots!LotConstants, Proceeds
<1>2. lots[i] \in OpenLots /\ lots[i].cur = c /\ q <= lots[i].qty
  BY DEF LotShape, Lots!Sell, Lots!IsOpen
<1>3. lots[i].qty \in Nat /\ lots[i].cost \in Int
  BY <1>2 DEF OpenLots
<1>4. k \in Int
  BY <1>1, <1>2, AverageBounds DEF SaleCost
<1>5. /\ lots' = [lots EXCEPT ![i] = rest]
      /\ realised' = [realised EXCEPT ![c] = r]
      /\ dust' = [dust EXCEPT ![c] = dust[c] + (lots[i].cost - k - rest.cost)]
      /\ paid' = paid /\ refused' = refused
  BY DEF Lots!Sell, SaleCost, Proceeds
<1> HIDE DEF k, s
<1>6. rest \in OpenLots \cup {Lots!NoLot}
  BY <1>1, <1>2, <1>4, RemainderType
<1> HIDE DEF rest
<1>7. rest.cost \in Int
  BY <1>6 DEF OpenLots, Lots!NoLot
<1>8. realised[c] \in [proceeds : Int, cost : Int, gain : Int] /\ dust[c] \in Int
  BY DEF LotShape, Amounts
<1>9. r \in [proceeds : Int, cost : Int, gain : Int]
  BY <1>1, <1>4, <1>8
<1>10. r.proceeds = realised[c].proceeds + s /\ r.cost = realised[c].cost + k
       /\ r.gain = realised[c].gain + (s - k)
  OBVIOUS
<1> HIDE DEF r
<1>11. lots' \in [LotIsins -> OpenLots \cup {Lots!NoLot}]
  BY <1>5, <1>6 DEF LotShape
<1>12. realised' \in [LotCurrencies -> [proceeds : Int, cost : Int, gain : Int]]
  BY <1>5, <1>9 DEF LotShape
<1>13. dust' \in Amounts
  <2>1. dust[c] + (lots[i].cost - k - rest.cost) \in Int
    BY <1>3, <1>4, <1>7, <1>8
  <2>2. QED
    BY <1>5, <2>1 DEF LotShape, Amounts
<1>14. LotShape'
  BY <1>5, <1>11, <1>12, <1>13 DEF LotShape, Lots!Sell, Lots!Apply, Lots!LotConstants
<1>15. lots'[i] = rest /\ \A j \in LotIsins \ {i} : lots'[j] = lots[j]
  BY <1>5 DEF LotShape
<1>16. realised'[c] = r /\ \A d \in LotCurrencies \ {c} : realised'[d] = realised[d]
  BY <1>5 DEF LotShape
<1>17. /\ dust'[c] = dust[c] + (lots[i].cost - k - rest.cost)
       /\ \A d \in LotCurrencies \ {c} : dust'[d] = dust[d]
  BY <1>5 DEF LotShape, Amounts
<1>18. /\ lots'[i] \in OpenLots \cup {Lots!NoLot}
       /\ realised'[c].proceeds = realised[c].proceeds + s
       /\ realised'[c].cost = realised[c].cost + k
       /\ realised'[c].gain = realised[c].gain + (s - k)
       /\ dust'[c] = dust[c] + (lots[i].cost - k - lots'[i].cost)
  BY <1>6, <1>10, <1>15, <1>16, <1>17
<1>19. \A d \in LotCurrencies :
         /\ d # c => realised'[d] = realised[d] /\ dust'[d] = dust[d]
         /\ paid'[d] = paid[d]
  BY <1>5, <1>16, <1>17
<1>20. QED
  BY <1>1, <1>2, <1>4, <1>14, <1>15, <1>18, <1>19 DEF k, s, rest

\* A split changes the number of shares and nothing else.
LEMMA SplitStep ==
  ASSUME Lots!LotConstants, LotShape, NEW i \in LotIsins, NEW r \in Ratios, Lots!Split(i, r)
  PROVE  /\ LotShape'
         /\ \A j \in LotIsins \ {i} : lots'[j] = lots[j]
         /\ \A c : CostOf(lots'[i], c) = CostOf(lots[i], c)
<1>1. lots[i] \in OpenLots
  BY DEF LotShape, Lots!Split, Lots!IsOpen
<1>2. lots[i].qty \in Nat /\ lots[i].cost \in Int /\ lots[i].cur \in LotCurrencies
  BY <1>1 DEF OpenLots
<1> DEFINE n == Lots!Times(lots[i].qty, r)
<1>3. n \in Nat
  BY <1>2, TimesNat
<1>4. lots' = [lots EXCEPT ![i] = Lots!Lot(n, lots[i].cost, lots[i].cur)]
  BY DEF Lots!Split
<1> HIDE DEF n
<1>5. Lots!Lot(n, lots[i].cost, lots[i].cur) \in OpenLots
  BY <1>2, <1>3 DEF Lots!Lot, OpenLots
<1>6. lots' \in [LotIsins -> OpenLots \cup {Lots!NoLot}]
  BY <1>4, <1>5 DEF LotShape
<1>7. LotShape'
  BY <1>6 DEF LotShape, Lots!Split, Lots!Apply, Lots!LotConstants
<1>8. lots'[i] = Lots!Lot(n, lots[i].cost, lots[i].cur)
      /\ \A j \in LotIsins \ {i} : lots'[j] = lots[j]
  BY <1>4 DEF LotShape
<1>9. QED
  BY <1>7, <1>8 DEF CostOf, Lots!Lot

\* A merge pops the old lot and adds its cost to the new one, in two changes
\* of the book.
LEMMA MergeStep ==
  ASSUME Lots!LotConstants, LotShape, NEW i \in LotIsins, NEW r \in Ratios, NEW new \in LotIsins,
         Lots!Merge(i, new, r)
  PROVE  /\ LotShape'
         /\ \E popped \in Books :
              /\ \A j \in LotIsins \ {i} : popped[j] = lots[j]
              /\ \A j \in LotIsins \ {new} : lots'[j] = popped[j]
              /\ \A c : /\ CostOf(popped[i], c) = 0
                        /\ CostOf(lots'[new], c)
                           = CostOf(popped[new], c) + CostOf(lots[i], c)
<1> DEFINE popped == [lots EXCEPT ![i] = Lots!NoLot]
           n == popped[new].qty + Lots!Times(lots[i].qty, r)
           k == popped[new].cost + lots[i].cost
<1>1. lots[i] \in OpenLots
  BY DEF LotShape, Lots!Merge, Lots!IsOpen
<1>2. lots[i].qty \in Nat /\ lots[i].cost \in Int /\ lots[i].cur \in LotCurrencies
  BY <1>1 DEF OpenLots
<1>3. popped \in Books
  BY DEF LotShape, Books
<1>4. popped[new] = Lots!NoLot \/ (popped[new] \in OpenLots /\ popped[new].cur = lots[i].cur)
  BY DEF LotShape, Lots!Merge, Lots!IsOpen
<1>5. popped[new].qty \in Nat /\ popped[new].cost \in Int
  BY <1>4 DEF OpenLots, Lots!NoLot
<1>6. lots' = [popped EXCEPT ![new] = Lots!Lot(n, k, lots[i].cur)]
  BY DEF Lots!Merge, Lots!Merged
<1>7. popped[i] = Lots!NoLot /\ \A j \in LotIsins \ {i} : popped[j] = lots[j]
  BY DEF LotShape
<1> HIDE DEF popped
<1>8. n \in Nat /\ k \in Int
  BY <1>2, <1>5, TimesNat
<1>9. k = popped[new].cost + lots[i].cost
  OBVIOUS
<1> HIDE DEF n, k
<1>10. Lots!Lot(n, k, lots[i].cur) \in OpenLots
  BY <1>2, <1>8 DEF Lots!Lot, OpenLots
<1>11. lots' \in Books
  BY <1>3, <1>6, <1>10 DEF Books
<1>12. LotShape'
  BY <1>11 DEF LotShape, Books, Lots!Merge, Lots!Apply, Lots!LotConstants
<1>13. lots'[new] = Lots!Lot(n, k, lots[i].cur)
       /\ \A j \in LotIsins \ {new} : lots'[j] = popped[j]
  BY <1>3, <1>6 DEF Books
<1>14. ASSUME NEW c
       PROVE  /\ CostOf(popped[i], c) = 0
              /\ CostOf(lots'[new], c) = CostOf(popped[new], c) + CostOf(lots[i], c)
  <2>1. CostOf(popped[i], c) = 0
    BY <1>7 DEF CostOf, Lots!NoLot
  <2>2. CostOf(lots'[new], c) = IF lots[i].cur = c THEN k ELSE 0
    BY <1>13 DEF CostOf, Lots!Lot
  <2>3. CASE popped[new] = Lots!NoLot
    <3>1. CostOf(popped[new], c) = 0 /\ popped[new].cost = 0
      BY <2>3 DEF CostOf, Lots!NoLot
    <3>2. QED
      BY <1>2, <1>9, <2>1, <2>2, <3>1 DEF CostOf
  <2>4. CASE popped[new] \in OpenLots /\ popped[new].cur = lots[i].cur
    BY <1>2, <1>5, <1>9, <2>1, <2>2, <2>4 DEF CostOf
  <2>5. QED
    BY <1>4, <2>3, <2>4
<1>15. QED
  BY <1>3, <1>7, <1>12, <1>13, <1>14

\* An event that is refused leaves nothing to conserve.
LEMMA RefusedStep ==
  ASSUME Lots!LotConstants, LotShape, NEW i \in LotIsins, NEW new \in LotIsins,
         Lots!Refuse \/ Lots!MergeRefused(i, new)
  PROVE  LotShape' /\ refused'
<1>1. CASE Lots!Refuse
  BY <1>1 DEF LotShape, Lots!Refuse, Lots!Apply, Lots!LotConstants
<1>2. CASE Lots!MergeRefused(i, new)
  BY <1>2 DEF LotShape, Lots!MergeRefused, Lots!Apply, Lots!LotConstants
<1>3. QED
  BY <1>1, <1>2

-----------------------------------------------------------------------------
(* Cost is conserved *)

\* Conservation with the fold of OpenCost as a sum.
Conserved ==
  \A c \in LotCurrencies :
    /\ paid[c] = Total(lots, c) + realised[c].cost + dust[c]
    /\ realised[c].gain = realised[c].proceeds - realised[c].cost

\* It is CostIsConserved, before and after a step.
LEMMA ConservedIsConserved ==
  ASSUME Lots!LotConstants
  PROVE  /\ Lots!CostIsConserved <=> (~refused => Conserved)
         /\ Lots!CostIsConserved' <=> (~refused' => Conserved')
<1>1. \A c : Lots!OpenCost(c) = Total(lots, c) /\ Lots!OpenCost(c)' = Total(lots', c)
  BY OpenCostIsTotal
<1>2. QED
  BY <1>1 DEF Lots!CostIsConserved, Conserved

\* Every step but a refused one conserves cost.
LEMMA ConservedStep ==
  ASSUME Lots!LotConstants, LotShape, LotShape', Conserved, NEW i \in LotIsins,
         \/ \E q \in Quantities, p \in Prices, fee \in Fees, c \in LotCurrencies :
              Lots!Buy(i, q, p, fee, c) \/ Lots!Sell(i, q, p, fee, c)
         \/ \E r \in Ratios : Lots!Split(i, r)
         \/ \E r \in Ratios, new \in LotIsins : Lots!Merge(i, new, r)
  PROVE  Conserved'
<1>1. lots \in Books /\ lots' \in Books
  BY DEF LotShape, Books
<1>2. ASSUME NEW c \in LotCurrencies
      PROVE  /\ paid[c] \in Int /\ dust[c] \in Int /\ Total(lots, c) \in Int
             /\ realised[c].proceeds \in Int /\ realised[c].cost \in Int
             /\ realised[c].gain \in Int
             /\ CostOf(lots[i], c) \in Int /\ CostOf(lots'[i], c) \in Int
             /\ paid[c] = Total(lots, c) + realised[c].cost + dust[c]
             /\ realised[c].gain = realised[c].proceeds - realised[c].cost
  <2>1. Total(lots, c) \in Int
    BY <1>1, TotalChanged
  <2>2. QED
    BY <1>1, <2>1, CostOfType DEF LotShape, Amounts, Conserved
<1>3. ASSUME \A j \in LotIsins \ {i} : lots'[j] = lots[j], NEW c \in LotCurrencies
      PROVE  Total(lots', c) = Total(lots, c) - CostOf(lots[i], c) + CostOf(lots'[i], c)
  BY <1>1, <1>3, TotalChanged
<1>4. ASSUME NEW q \in Quantities, NEW p \in Prices, NEW fee \in Fees,
             NEW c \in LotCurrencies, Lots!Buy(i, q, p, fee, c)
      PROVE  Conserved'
  <2> DEFINE k == q * p + fee
             add(d) == IF d = c THEN k ELSE 0
  <2>1. /\ k \in Int
        /\ \A j \in LotIsins \ {i} : lots'[j] = lots[j]
        /\ \A d \in LotCurrencies : CostOf(lots'[i], d) = CostOf(lots[i], d) + add(d)
        /\ \A d \in LotCurrencies : paid'[d] = paid[d] + add(d)
    <3>1. k \in Int /\ \A j \in LotIsins \ {i} : lots'[j] = lots[j]
      BY <1>4, BuyStep
    <3>2. \A d \in LotCurrencies : CostOf(lots'[i], d) = CostOf(lots[i], d) + add(d)
      BY <1>4, BuyStep
    <3>3. \A d \in LotCurrencies : paid'[d] = paid[d] + add(d)
      BY <1>4, BuyStep
    <3>4. QED
      BY <3>1, <3>2, <3>3
  <2>2. \A d \in LotCurrencies : add(d) \in Int
    BY <2>1
  <2> HIDE DEF k, add
  <2>3. realised' = realised /\ dust' = dust
    BY <1>4 DEF Lots!Buy
  <2>4. SUFFICES ASSUME NEW d \in LotCurrencies
                 PROVE  /\ paid'[d] = Total(lots', d) + realised'[d].cost + dust'[d]
                        /\ realised'[d].gain = realised'[d].proceeds - realised'[d].cost
    BY DEF Conserved
  <2>5. Total(lots', d) = Total(lots, d) + add(d)
    BY <1>2, <1>3, <2>1, <2>2
  <2>6. QED
    BY <1>2, <2>1, <2>2, <2>3, <2>5
<1>5. ASSUME NEW q \in Quantities, NEW p \in Prices, NEW fee \in Fees,
             NEW c \in LotCurrencies, Lots!Sell(i, q, p, fee, c)
      PROVE  Conserved'
  <2> DEFINE k == SaleCost(lots[i], q)
             s == Proceeds(q, p, fee)
  <2>1. /\ k \in Int /\ s \in Int
        /\ lots[i] \in OpenLots /\ lots[i].cur = c /\ lots[i].qty \in Nat
        /\ lots[i].cost \in Int /\ q \in Nat /\ q <= lots[i].qty
        /\ lots'[i] = Lots!Remainder(lots[i], q, k)
        /\ \A j \in LotIsins \ {i} : lots'[j] = lots[j]
        /\ \A d \in LotCurrencies :
             /\ d # c => realised'[d] = realised[d] /\ dust'[d] = dust[d]
             /\ paid'[d] = paid[d]
        /\ realised'[c].proceeds = realised[c].proceeds + s
        /\ realised'[c].cost = realised[c].cost + k
        /\ realised'[c].gain = realised[c].gain + (s - k)
        /\ dust'[c] = dust[c] + (lots[i].cost - k - lots'[i].cost)
    BY <1>5, SellStep DEF OpenLots
  <2> HIDE DEF k, s
  <2>2. SUFFICES ASSUME NEW d \in LotCurrencies
                 PROVE  /\ paid'[d] = Total(lots', d) + realised'[d].cost + dust'[d]
                        /\ realised'[d].gain = realised'[d].proceeds - realised'[d].cost
    BY DEF Conserved
  <2>3. lots'[i] = Lots!NoLot
        \/ (lots'[i].cur = c /\ lots'[i].cost = lots[i].cost - k)
    BY <2>1, RemainderType DEF Lots!Lot
  <2>4. /\ lots'[i].cost \in Int
        /\ CostOf(lots[i], d) = IF d = c THEN lots[i].cost ELSE 0
        /\ CostOf(lots'[i], d) = IF d = c THEN lots'[i].cost ELSE 0
    <3>1. CASE lots'[i] = Lots!NoLot
      BY <2>1, <3>1 DEF CostOf, Lots!NoLot
    <3>2. CASE lots'[i].cur = c /\ lots'[i].cost = lots[i].cost - k
      BY <2>1, <3>2 DEF CostOf
    <3>3. QED
      BY <2>3, <3>1, <3>2
  <2>5. Total(lots', d) = Total(lots, d) - CostOf(lots[i], d) + CostOf(lots'[i], d)
    BY <1>3, <2>1
  <2>6. CASE d = c
    BY <1>2, <2>1, <2>4, <2>5, <2>6
  <2>7. CASE d # c
    BY <1>2, <2>1, <2>4, <2>5, <2>7
  <2>8. QED
    BY <2>6, <2>7
<1>6. ASSUME NEW r \in Ratios, Lots!Split(i, r)
      PROVE  Conserved'
  <2>1. /\ \A j \in LotIsins \ {i} : lots'[j] = lots[j]
        /\ \A c : CostOf(lots'[i], c) = CostOf(lots[i], c)
    BY <1>6, SplitStep
  <2>2. realised' = realised /\ dust' = dust /\ paid' = paid
    BY <1>6 DEF Lots!Split
  <2>3. \A c \in LotCurrencies : Total(lots', c) = Total(lots, c)
    BY <1>2, <1>3, <2>1
  <2>4. QED
    BY <1>2, <2>2, <2>3 DEF Conserved
<1>7. ASSUME NEW r \in Ratios, NEW new \in LotIsins, Lots!Merge(i, new, r)
      PROVE  Conserved'
  <2>1. PICK popped \in Books :
          /\ \A j \in LotIsins \ {i} : popped[j] = lots[j]
          /\ \A j \in LotIsins \ {new} : lots'[j] = popped[j]
          /\ \A c : /\ CostOf(popped[i], c) = 0
                    /\ CostOf(lots'[new], c)
                       = CostOf(popped[new], c) + CostOf(lots[i], c)
    BY <1>7, MergeStep
  <2>2. realised' = realised /\ dust' = dust /\ paid' = paid
    BY <1>7 DEF Lots!Merge
  <2>3. ASSUME NEW c \in LotCurrencies
        PROVE  Total(lots', c) = Total(lots, c)
    <3>1. Total(popped, c) = Total(lots, c) - CostOf(lots[i], c) + CostOf(popped[i], c)
      BY <1>1, <2>1, TotalChanged
    <3>2. Total(lots', c) = Total(popped, c) - CostOf(popped[new], c) + CostOf(lots'[new], c)
      BY <1>1, <2>1, TotalChanged
    <3>3. CostOf(popped[new], c) \in Int
      BY CostOfType
    <3>4. QED
      BY <1>2, <2>1, <3>1, <3>2, <3>3
  <2>4. QED
    BY <1>2, <2>2, <2>3 DEF Conserved
<1>8. QED
  BY <1>4, <1>5, <1>6, <1>7

\* The invariant holds of an empty book.
LEMMA LotInit == Lots!LotConstants /\ Lots!Init => LotInv
<1> SUFFICES ASSUME Lots!LotConstants, Lots!Init PROVE LotInv
  OBVIOUS
<1>1. LotShape
  <2>1. lots \in [LotIsins -> OpenLots \cup {Lots!NoLot}] /\ applied \in 0 .. LotMaxEvents
    BY DEF Lots!Init, Lots!LotConstants
  <2>2. realised \in [LotCurrencies -> [proceeds : Int, cost : Int, gain : Int]]
    BY DEF Lots!Init
  <2>3. paid \in Amounts /\ dust \in Amounts /\ refused \in BOOLEAN
    <3>1. paid = [c \in LotCurrencies |-> 0] /\ dust = [c \in LotCurrencies |-> 0] /\ ~refused
      BY DEF Lots!Init
    <3>2. [c \in LotCurrencies |-> 0] \in Amounts /\ FALSE \in BOOLEAN
      BY DEF Amounts
    <3>3. refused = FALSE
      BY DEF Lots!Init
    <3>4. QED
      BY <3>1, <3>2, <3>3
  <2>4. QED
    BY <2>1, <2>2, <2>3 DEF LotShape
<1>2. Conserved
  <2>1. ASSUME NEW c \in LotCurrencies PROVE Total(lots, c) = 0
    <3>1. \A i \in LotIsins : CostIn(lots, c)[i] = 0
      BY DEF Lots!Init, CostIn, CostOf, Lots!NoLot
    <3>2. IsFiniteSet(LotIsins)
      BY DEF Lots!LotConstants, Lots!IsFiniteSet, IsFiniteSet
    <3>3. QED
      BY <3>1, <3>2, SumZero DEF Total
  <2>2. QED
    BY <2>1 DEF Lots!Init, Conserved
<1>3. QED
  BY <1>1, <1>2, ConservedIsConserved DEF LotInv

\* Every step keeps the invariant.
LEMMA LotStep == Lots!LotConstants /\ LotInv /\ [Lots!Next]_(Lots!lotVars) => LotInv'
<1> SUFFICES ASSUME Lots!LotConstants, LotInv, [Lots!Next]_(Lots!lotVars) PROVE LotInv'
  OBVIOUS
<1>1. LotShape /\ (~refused => Conserved)
  BY ConservedIsConserved DEF LotInv
<1>2. CASE Lots!Next
  <2>1. PICK i \in LotIsins :
          \/ \E q \in Quantities, p \in Prices, fee \in Fees, c \in LotCurrencies :
               Lots!Buy(i, q, p, fee, c) \/ Lots!Sell(i, q, p, fee, c)
          \/ \E c \in LotCurrencies : Lots!BuyRefused(i, c)
          \/ \E q \in Quantities, c \in LotCurrencies : Lots!SellRefused(i, q, c)
          \/ \E r \in Ratios : Lots!Split(i, r)
          \/ \E r \in Ratios, new \in LotIsins : Lots!Merge(i, new, r)
          \/ \E new \in LotIsins : Lots!MergeRefused(i, new)
          \/ Lots!NothingToAdjust(i)
    BY <1>2 DEF Lots!Next
  <2>2. CASE \E q \in Quantities, p \in Prices, fee \in Fees, c \in LotCurrencies :
               Lots!Buy(i, q, p, fee, c) \/ Lots!Sell(i, q, p, fee, c)
    <3>1. LotShape' /\ ~refused
      BY <1>1, <2>2, BuyStep, SellStep DEF Lots!Buy, Lots!Sell, Lots!Apply
    <3>2. QED
      BY <1>1, <2>2, <3>1, ConservedStep, ConservedIsConserved DEF LotInv
  <2>3. CASE \E r \in Ratios : Lots!Split(i, r)
    <3>1. LotShape' /\ ~refused
      BY <1>1, <2>3, SplitStep DEF Lots!Split, Lots!Apply
    <3>2. QED
      BY <1>1, <2>3, <3>1, ConservedStep, ConservedIsConserved DEF LotInv
  <2>4. CASE \E r \in Ratios, new \in LotIsins : Lots!Merge(i, new, r)
    <3>1. LotShape' /\ ~refused
      BY <1>1, <2>4, MergeStep DEF Lots!Merge, Lots!Apply
    <3>2. QED
      BY <1>1, <2>4, <3>1, ConservedStep, ConservedIsConserved DEF LotInv
  <2>5. CASE Lots!Refuse \/ \E new \in LotIsins : Lots!MergeRefused(i, new)
    <3>1. LotShape' /\ refused'
      BY <1>1, <2>5, RefusedStep
    <3>2. QED
      BY <3>1, ConservedIsConserved DEF LotInv
  <2>6. QED
    BY <2>1, <2>2, <2>3, <2>4, <2>5 DEF Lots!BuyRefused, Lots!SellRefused, Lots!NothingToAdjust
<1>3. CASE UNCHANGED Lots!lotVars
  <2>1. LotShape'
    BY <1>1, <1>3 DEF LotShape, Lots!lotVars
  <2>2. Lots!CostIsConserved'
    BY <1>1, <1>3, ConservedIsConserved DEF Conserved, Lots!lotVars
  <2>3. QED
    BY <2>1, <2>2 DEF LotInv
<1>4. QED
  BY <1>2, <1>3

-----------------------------------------------------------------------------
(* Types *)

\* A book of the invariant has the types of TypeOK.
LEMMA LotTypes ==
  ASSUME LotInv
  PROVE  Lots!TypeOK
  BY DEF LotInv, LotShape, Lots!TypeOK, OpenLots, Lots!IsOpen, Amounts

-----------------------------------------------------------------------------
(* The average cost *)

\* Half a unit per share, times the shares sold.
LEMMA Scaled ==
  ASSUME NEW q \in Nat, NEW x \in Int, NEW n \in Nat, 2 * x <= n, -n <= 2 * x
  PROVE  2 * (q * x) <= q * n /\ 2 * (-(q * x)) <= q * n
<1>1. q * (2 * x) <= q * n
  OBVIOUS
<1>2. q * (-n) <= q * (2 * x)
  OBVIOUS
<1>3. q * (2 * x) = 2 * (q * x) /\ q * (-n) = -(q * n)
  OBVIOUS
<1>4. q * x \in Int /\ q * n \in Int
  OBVIOUS
<1>5. QED
  BY <1>1, <1>2, <1>3, <1>4

\* One step keeps the average cost of a lot that is sold from.
LEMMA AverageStep ==
  Lots!LotConstants /\ LotInv /\ [Lots!Next]_(Lots!lotVars) => Lots!KeepsAverage
<1> SUFFICES ASSUME Lots!LotConstants, LotInv, [Lots!Next]_(Lots!lotVars), NEW i \in LotIsins,
                    realised' # realised, lots'[i] # lots[i], lots'[i] # Lots!NoLot
             PROVE  LET d == lots'[i].cost * lots[i].qty - lots[i].cost * lots'[i].qty
                    IN  2 * Lots!Greatest(d, -d) <= (lots[i].qty - lots'[i].qty) * lots[i].qty
  BY DEF Lots!KeepsAverage
<1>1. PICK j \in LotIsins, q \in Quantities, p \in Prices, fee \in Fees, c \in LotCurrencies :
        Lots!Sell(j, q, p, fee, c)
  BY DEF Lots!Next, Lots!Buy, Lots!BuyRefused, Lots!SellRefused, Lots!Split, Lots!Merge,
     Lots!MergeRefused, Lots!NothingToAdjust, Lots!Refuse, Lots!lotVars
<1>2. LotShape
  BY DEF LotInv
<1>3. j = i
  BY <1>1, <1>2, SellStep
<1> DEFINE lot == lots[i]
           n == lot.qty
           k == lot.cost
           a == Lots!AverageCost(lot)
<1>4. lot \in OpenLots /\ q \in Nat /\ q <= n
      /\ lots'[i] = Lots!Remainder(lot, q, SaleCost(lot, q)) /\ SaleCost(lot, q) \in Int
  BY <1>1, <1>2, <1>3, SellStep
<1>5. n \in Nat /\ k \in Int /\ a \in Int
  BY <1>4, AverageBounds DEF OpenLots
<1>6. lots'[i] = Lots!Lot(n - q, k - a * q, lot.cur) /\ n - q > 1
  BY <1>4, RemainderType DEF SaleCost
<1>7. n > 0
  BY <1>4, <1>5, <1>6
<1>8. 2 * (k - n * a) <= n /\ -n <= 2 * (k - n * a)
  BY <1>4, <1>7, AverageBounds
<1>9. lots'[i].qty = n - q /\ lots'[i].cost = k - a * q
  BY <1>6 DEF Lots!Lot
<1> HIDE DEF n, k, a
<1>10. k - n * a \in Int /\ q * (k - n * a) \in Int
  BY <1>4, <1>5
<1>11. (k - a * q) * n - k * (n - q) = q * (k - n * a)
  BY <1>4, <1>5
<1>12. 2 * (q * (k - n * a)) <= q * n /\ 2 * (-(q * (k - n * a))) <= q * n
  BY <1>4, <1>5, <1>8, <1>10, Scaled
<1>13. n - (n - q) = q
  BY <1>4, <1>5
<1> DEFINE d == q * (k - n * a)
<1>14. 2 * Lots!Greatest(d, -d) <= q * n
  BY <1>10, <1>12 DEF Lots!Greatest
<1>15. lots'[i].cost * lots[i].qty - lots[i].cost * lots'[i].qty = d
  BY <1>9, <1>11 DEF n, k
<1>16. (lots[i].qty - lots'[i].qty) * lots[i].qty = q * n
  BY <1>9, <1>13 DEF n
<1>17. QED
  BY <1>14, <1>15, <1>16

-----------------------------------------------------------------------------
(* The tax years. *)

\* The gain of a year of a file, and of the years up to one.
GainIn(lager, y) == TaxYears!TotalGain(TaxYears!InYear(lager, y))
GainUpTo(lager, y) == TaxYears!SumFunction([x \in 1 .. y |-> GainIn(lager, x)])

\* best is the highest the household's gain has ever been at the end of year y.
HighestSoFar(lager, y, best) ==
  /\ \E x \in 0 .. y : best = GainUpTo(lager, x)
  /\ \A x \in 0 .. y : GainUpTo(lager, x) <= best

\* An entry of a year filed, in whole amounts.
EntryOk(e) ==
  /\ e.year \in 1 .. filed
  /\ e.start \in Int /\ e.end \in Int /\ e.in \in Int /\ e.out \in Int /\ e.dist \in Int

FundOk(e) ==
  /\ e.isin \in TaxIsins /\ e.year \in 1 .. filed /\ e.months \in Months
  /\ e.start \in Int /\ e.end \in Int /\ e.dist \in Int

TaxShape ==
  /\ filed \in Nat
  /\ IsFiniteSet(file.lager) /\ \A e \in file.lager : EntryOk(e)
  /\ IsFiniteSet(file.ask) /\ \A e \in file.ask : EntryOk(e)
  /\ \A e \in file.pal : EntryOk(e)
  /\ \A e, other \in file.pal : e.year = other.year => e = other
  /\ \A e \in file.vorab : FundOk(e)

\* The loss carried into the last year is what the household's gain is below its
\* highest, and what has been taxed before is that highest.
Carried ==
  /\ filed = 0 => prior = 0 /\ taxed = 0 /\ printed = TaxYears!Failed
  /\ filed > 0 => /\ HighestSoFar(file.lager, filed - 1, taxed)
                 /\ prior = taxed - GainUpTo(file.lager, filed - 1)

\* What a run prints in kroner is the report, unconverted.
Told ==
  (printed # TaxYears!Failed /\ printed.dk # TaxYears!NotAsked /\ printed.target = "DKK") =>
    LET r == TaxYears!SkatReport(filed, file.lager, file.ask, file.pal, prior)
    IN  printed.dk.taxable = r.taxable /\ printed.dk.loss = r.loss /\ printed.dk.withheld = r.withheld

TaxInv == TaxShape /\ Carried /\ Told
-----------------------------------------------------------------------------
(* Sums and rounding. *)

\* The library's sum of a function is the sum SumFacts is about.
LEMMA SumFunctionIs ==
  ASSUME NEW f
  PROVE  TaxYears!SumFunction(f) = Sum(f, DOMAIN f)
  BY DEF TaxYears!SumFunction, TaxYears!SumFunctionOnSet, TaxYears!FoldFunctionOnSet,
         TaxYears!MapThenFoldSet, Sum, FoldFunctionOnSet, MapThenFoldSet

\* A sum over a finite set of whole numbers is one.
LEMMA SumFunctionType ==
  ASSUME NEW f, IsFiniteSet(DOMAIN f), \A x \in DOMAIN f : f[x] \in Int
  PROVE  TaxYears!SumFunction(f) \in Int
  BY SumFunctionIs, SumType

\* The gain of a year is a whole number.
LEMMA GainInType ==
  ASSUME NEW lager, IsFiniteSet(lager), NEW y,
         \A e \in lager : /\ e.start \in Int /\ e.end \in Int
                          /\ e.in \in Int /\ e.out \in Int /\ e.dist \in Int
  PROVE  IsFiniteSet(TaxYears!InYear(lager, y)) /\ GainIn(lager, y) \in Int
<1> DEFINE S == TaxYears!InYear(lager, y)
           f == [e \in S |-> TaxYears!LagerGain(e)]
<1>1. S \in SUBSET lager
  BY DEF TaxYears!InYear
<1>2. IsFiniteSet(S)
  BY <1>1, FS_Subset
<1>3. \A e \in S : f[e] \in Int
  BY <1>1 DEF TaxYears!LagerGain
<1> HIDE DEF S
<1>4. DOMAIN f = S
  OBVIOUS
<1> HIDE DEF f
<1>5. TaxYears!SumFunction(f) \in Int
  BY <1>2, <1>3, <1>4, SumFunctionType
<1>6. QED
  BY <1>2, <1>5 DEF GainIn, TaxYears!TotalGain, S, f

\* The gain so far grows by each year's.
LEMMA GainGrows ==
  ASSUME NEW lager, \A y \in Nat : GainIn(lager, y) \in Int
  PROVE  /\ GainUpTo(lager, 0) = 0
         /\ \A y \in Nat : GainUpTo(lager, y) \in Int
         /\ \A y \in Nat : GainUpTo(lager, y + 1) = GainUpTo(lager, y) + GainIn(lager, y + 1)
<1> DEFINE f(y) == [x \in 1 .. y |-> GainIn(lager, x)]
<1>1. ASSUME NEW y \in Nat
      PROVE  /\ IsFiniteSet(1 .. y) /\ DOMAIN f(y) = 1 .. y
             /\ \A x \in 1 .. y : f(y)[x] = GainIn(lager, x) /\ GainIn(lager, x) \in Int
             /\ GainUpTo(lager, y) = Sum(f(y), 1 .. y)
  <2>1. IsFiniteSet(1 .. y)
    BY FS_Interval
  <2>2. DOMAIN f(y) = 1 .. y /\ \A x \in 1 .. y : f(y)[x] = GainIn(lager, x) /\ x \in Nat
    OBVIOUS
  <2>3. GainUpTo(lager, y) = TaxYears!SumFunction(f(y))
    BY DEF GainUpTo
  <2> HIDE DEF f
  <2>4. QED
    BY <2>1, <2>2, <2>3, SumFunctionIs
<1> HIDE DEF f
<1>2. GainUpTo(lager, 0) = 0
  <2>1. 1 .. 0 = {}
    OBVIOUS
  <2>2. \A x \in 1 .. 0 : f(0)[x] = 0
    BY <2>1
  <2>3. QED
    BY <1>1, <2>2, SumZero
<1>3. \A y \in Nat : GainUpTo(lager, y) \in Int
  <2> SUFFICES ASSUME NEW y \in Nat PROVE GainUpTo(lager, y) \in Int
    OBVIOUS
  <2>1. QED
    BY <1>1, SumType
<1>4. ASSUME NEW y \in Nat
      PROVE  GainUpTo(lager, y + 1) = GainUpTo(lager, y) + GainIn(lager, y + 1)
  <2> DEFINE next == y + 1
  <2>1. next \in Nat /\ next \in 1 .. next /\ (1 .. next) \ {next} = 1 .. y
    OBVIOUS
  <2>2. \A x \in 1 .. y : x \in 1 .. next
    OBVIOUS
  <2> HIDE DEF next
  <2>3. Sum(f(next), 1 .. next) = f(next)[next] + Sum(f(next), 1 .. y)
    <3>1. \A x \in 1 .. next : f(next)[x] \in Int
      BY <1>1, <2>1
    <3>2. Sum(f(next), 1 .. next) = f(next)[next] + Sum(f(next), (1 .. next) \ {next})
      BY <1>1, <2>1, <3>1, SumWithout
    <3>3. QED
      BY <2>1, <3>2
  <2>4. Sum(f(next), 1 .. y) = Sum(f(y), 1 .. y)
    <3>1. \A x \in 1 .. y : f(next)[x] = f(y)[x]
      BY <1>1, <2>1, <2>2
    <3>2. QED
      BY <1>1, <3>1, SumSame
  <2>5. f(next)[next] = GainIn(lager, next) /\ GainIn(lager, next) \in Int
    BY <1>1, <2>1
  <2>6. GainUpTo(lager, next) = Sum(f(next), 1 .. next) /\ GainUpTo(lager, y) = Sum(f(y), 1 .. y)
    BY <1>1, <2>1
  <2>7. GainUpTo(lager, y) \in Int
    BY <1>3
  <2>8. GainUpTo(lager, next) = GainUpTo(lager, y) + GainIn(lager, next)
    BY <2>3, <2>4, <2>5, <2>6, <2>7
  <2>9. QED
    BY <2>8 DEF next
<1>5. QED
  BY <1>2, <1>3, <1>4

\* Files that agree on the years up to one agree on the gain so far.
LEMMA GainUpToSame ==
  ASSUME NEW lager, NEW later, NEW n \in Nat,
         \A y \in 1 .. n : TaxYears!InYear(later, y) = TaxYears!InYear(lager, y)
  PROVE  \A y \in 0 .. n : GainUpTo(later, y) = GainUpTo(lager, y)
<1> SUFFICES ASSUME NEW y \in 0 .. n PROVE GainUpTo(later, y) = GainUpTo(lager, y)
  OBVIOUS
<1>1. \A x \in 1 .. y : GainIn(later, x) = GainIn(lager, x)
  BY DEF GainIn
<1>2. [x \in 1 .. y |-> GainIn(later, x)] = [x \in 1 .. y |-> GainIn(lager, x)]
  BY <1>1
<1>3. QED
  BY <1>2 DEF GainUpTo

\* A rounded value is within half a unit of the exact one, and even if it is
\* exactly half a unit away.
LEMMA HalfEvenIsNear ==
  ASSUME NEW a \in Int, NEW b \in Nat \ {0}
  PROVE  /\ TaxYears!HalfEven(a, b) \in Int
         /\ 2 * a <= 2 * (b * TaxYears!HalfEven(a, b)) + b
         /\ 2 * (b * TaxYears!HalfEven(a, b)) - b <= 2 * a
         /\ 2 * a = 2 * (b * TaxYears!HalfEven(a, b)) + b => TaxYears!HalfEven(a, b) % 2 = 0
         /\ 2 * (b * TaxYears!HalfEven(a, b)) - b = 2 * a => TaxYears!HalfEven(a, b) % 2 = 0
<1> DEFINE f == a \div b
           r == a % b
<1>1. f \in Int /\ r \in Int /\ a = b * f + r /\ 0 <= r /\ r < b
  OBVIOUS
<1>2. TaxYears!HalfEven(a, b) = IF 2 * r > b \/ (2 * r = b /\ f % 2 = 1) THEN f + 1 ELSE f
  BY DEF TaxYears!HalfEven
<1> HIDE DEF f, r
<1>3. b * (f + 1) = b * f + b
  BY <1>1
<1>4. f % 2 = 1 => (f + 1) % 2 = 0
  BY <1>1
<1>5. f % 2 \in {0, 1}
  BY <1>1
<1>6. b * f \in Int
  BY <1>1
<1>7. QED
  BY <1>1, <1>2, <1>3, <1>4, <1>5, <1>6

\* A tax at these rates is a part of the gain, and there is none on a loss.
LEMMA TaxIsAPart ==
  ASSUME NEW gain \in Int, NEW rate \in {TaxYears!AskRate, TaxYears!PalRate}
  PROVE  /\ TaxYears!Tax(gain, rate) \in Int /\ 0 <= TaxYears!Tax(gain, rate)
         /\ TaxYears!Tax(gain, rate) <= TaxYears!Floor0(gain)
         /\ gain <= 0 => TaxYears!Tax(gain, rate) = 0
<1>1. CASE gain <= 0
  BY <1>1 DEF TaxYears!Tax, TaxYears!Floor0, TaxYears!Greatest
<1>2. CASE gain > 0 /\ rate = TaxYears!AskRate
  <2>1. TaxYears!Tax(gain, rate) = TaxYears!HalfEven(gain * 17, 100)
    BY <1>2 DEF TaxYears!Tax, TaxYears!Times, TaxYears!AskRate
  <2> DEFINE h == TaxYears!HalfEven(gain * 17, 100)
  <2>2. h \in Int /\ 2 * (gain * 17) <= 2 * (100 * h) + 100
        /\ 2 * (100 * h) - 100 <= 2 * (gain * 17)
    BY HalfEvenIsNear
  <2> HIDE DEF h
  <2>3. 0 <= h /\ h <= gain
    BY <1>2, <2>2
  <2>4. QED
    BY <1>2, <2>1, <2>2, <2>3 DEF TaxYears!Floor0, TaxYears!Greatest, h
<1>3. CASE gain > 0 /\ rate = TaxYears!PalRate
  <2>1. TaxYears!Tax(gain, rate) = TaxYears!HalfEven(gain * 153, 1000)
    BY <1>3 DEF TaxYears!Tax, TaxYears!Times, TaxYears!PalRate
  <2> DEFINE h == TaxYears!HalfEven(gain * 153, 1000)
  <2>2. h \in Int /\ 2 * (gain * 153) <= 2 * (1000 * h) + 1000
        /\ 2 * (1000 * h) - 1000 <= 2 * (gain * 153)
    BY HalfEvenIsNear
  <2> HIDE DEF h
  <2>3. 0 <= h /\ h <= gain
    BY <1>3, <2>2
  <2>4. QED
    BY <1>3, <2>1, <2>2, <2>3 DEF TaxYears!Floor0, TaxYears!Greatest, h
<1>4. QED
  BY <1>1, <1>2, <1>3


\* The highest of the gains so far, with one year more.
LEMMA HighestNext ==
  ASSUME NEW lager, NEW n \in Nat, \A y \in Nat : GainUpTo(lager, y) \in Int,
         NEW best, HighestSoFar(lager, n, best),
         NEW next, next = best + TaxYears!Floor0(GainUpTo(lager, n + 1) - best)
  PROVE  HighestSoFar(lager, n + 1, next)
<1>1. \A x \in 0 .. n : x \in 0 .. (n + 1) /\ x \in Nat
  OBVIOUS
<1>2. \A x \in 0 .. (n + 1) : x \in 0 .. n \/ x = n + 1
  OBVIOUS
<1>3. best \in Int /\ GainUpTo(lager, n + 1) \in Int /\ n + 1 \in 0 .. (n + 1)
  BY <1>1 DEF HighestSoFar
<1>4. next = IF GainUpTo(lager, n + 1) > best THEN GainUpTo(lager, n + 1) ELSE best
  BY <1>3 DEF TaxYears!Floor0, TaxYears!Greatest
<1>5. best <= next /\ GainUpTo(lager, n + 1) <= next
  BY <1>3, <1>4
<1>6. \A x \in 0 .. (n + 1) : GainUpTo(lager, x) <= next
  <2> SUFFICES ASSUME NEW x \in 0 .. (n + 1) PROVE GainUpTo(lager, x) <= next
    OBVIOUS
  <2>1. CASE x = n + 1
    BY <1>5, <2>1
  <2>2. CASE x \in 0 .. n
    <3>1. GainUpTo(lager, x) <= best /\ GainUpTo(lager, x) \in Int
      BY <1>1, <2>2 DEF HighestSoFar
    <3>2. next \in Int
      BY <1>3, <1>4
    <3>3. QED
      BY <1>3, <1>5, <3>1, <3>2
  <2>3. QED
    BY <1>2, <2>1, <2>2
<1>7. \E x \in 0 .. (n + 1) : next = GainUpTo(lager, x)
  BY <1>1, <1>3, <1>4 DEF HighestSoFar
<1>8. QED
  BY <1>6, <1>7 DEF HighestSoFar

\* What is highest in one file is in every file of the same years.
LEMMA HighestSame ==
  ASSUME NEW lager, NEW later, NEW n \in Nat, NEW best, HighestSoFar(lager, n, best),
         \A y \in 0 .. n : GainUpTo(later, y) = GainUpTo(lager, y)
  PROVE  HighestSoFar(later, n, best)
  BY DEF HighestSoFar
-----------------------------------------------------------------------------
(* The steps. *)

\* A run in kroner prints the report itself.
LEMMA RunTells ==
  ASSUME TaxInv, NEW jurisdictions, NEW target, NEW fx, TaxYears!Run(jurisdictions, target, fx)
  PROVE  Told'
<1> DEFINE dk == IF "DK" \in jurisdictions THEN TaxYears!DkReport(filed, target, fx) ELSE TaxYears!NotAsked
           de == IF "DE" \in jurisdictions THEN TaxYears!DeReport(filed, target, fx) ELSE TaxYears!NotAsked
           r == TaxYears!SkatReport(filed, file.lager, file.ask, file.pal, prior)
<1> SUFFICES ASSUME printed' # TaxYears!Failed, printed'.dk # TaxYears!NotAsked, printed'.target = "DKK"
             PROVE  /\ printed'.dk.taxable = r.taxable
                    /\ printed'.dk.loss = r.loss
                    /\ printed'.dk.withheld = r.withheld
  BY DEF Told, TaxYears!Run, TaxYears!SkatReport
<1>1. printed' = IF TaxYears!Failed \in {dk, de} THEN TaxYears!Failed
                  ELSE [dk |-> dk, de |-> de, target |-> target]
  BY DEF TaxYears!Run, TaxYears!Reports
<1> HIDE DEF dk, de
<1>2. dk # TaxYears!Failed /\ printed'.dk = dk /\ printed'.target = target
  BY <1>1
<1>3. target = "DKK" /\ dk = TaxYears!DkReport(filed, "DKK", fx)
  BY <1>2 DEF dk
<1>4. \E rows : TaxYears!DkReport(filed, "DKK", fx) = TaxYears!Printed(r, rows, "DKK", "DKK", fx)
  BY DEF TaxYears!DkReport
<1>5. dk = [k \in DOMAIN r |-> r[k]]
  BY <1>2, <1>3, <1>4 DEF TaxYears!Printed, TaxYears!Converts, TaxYears!Convert
<1>6. DOMAIN r = {"gross", "taxable", "loss", "withheld"}
  BY DEF TaxYears!SkatReport
<1> HIDE DEF r
<1>7. QED
  BY <1>2, <1>5, <1>6

\* Finitely many funds have finitely many entries in a year.
LEMMA EntriesAreFinite ==
  ASSUME NEW S, IsFiniteSet(S), NEW f, f \in [S -> Range(f)], Range(f) = {f[x] : x \in S}
  PROVE  IsFiniteSet(Range(f))
<1>1. f \in Surjection(S, Range(f))
  BY DEF Surjection
<1>2. QED
  BY <1>1, FS_Surjection

\* The years filed stay what they are when the next one is entered.
LEMMA EnterAdds ==
  ASSUME TaxYears!TaxConstants, TaxInv, NEW end \in [TaxIsins \cup AskIsins \cup {Pension} -> Values],
         NEW flow \in TaxFlows, NEW months \in Months, TaxYears!Enter(end, flow, months)
  PROVE  /\ TaxShape'
         /\ \A y \in 1 .. filed : TaxYears!InYear(file'.lager, y) = TaxYears!InYear(file.lager, y)
<1>1. ASSUME NEW entries, NEW p, \A e \in entries : EntryOk(e)
      PROVE  TaxYears!Held(entries, p) \in Int
  BY <1>1 DEF TaxYears!Held, TaxYears!InYear, EntryOk
<1>2. ASSUME NEW p, \A e \in file.vorab : FundOk(e)
      PROVE  TaxYears!Held(file.vorab, p) \in Int
  BY <1>2 DEF TaxYears!Held, TaxYears!InYear, FundOk
<1>3. filed \in Nat /\ filed' = filed + 1
  BY DEF TaxInv, TaxShape, TaxYears!Enter
<1>4. ASSUME NEW e, EntryOk(e) PROVE EntryOk(e)'
  BY <1>3, <1>4 DEF EntryOk
<1>5. ASSUME NEW entries, \A e \in entries : EntryOk(e),
             NEW p \in TaxIsins \cup AskIsins \cup {Pension},
             NEW e, e = TaxYears!Entry(entries, p, end[p], flow)
      PROVE  EntryOk(e)' /\ e.year = filed + 1
  <2>1. end[p] \in Int /\ flow.in \in Int /\ flow.out \in Int /\ flow.dist \in Int
    BY DEF TaxYears!TaxConstants
  <2>2. TaxYears!Held(entries, p) \in Int
    BY <1>1, <1>5
  <2>3. QED
    BY <1>3, <1>5, <2>1, <2>2 DEF EntryOk, TaxYears!Entry
<1>6. /\ file'.lager = file.lager \cup {TaxYears!Entry(file.lager, p, end[p], flow) : p \in TaxIsins}
      /\ file'.ask = file.ask \cup {TaxYears!Entry(file.ask, p, end[p], flow) : p \in AskIsins}
      /\ file'.pal = file.pal \cup {TaxYears!Entry(file.pal, Pension, end[Pension], flow)}
      /\ file'.vorab = file.vorab \cup {TaxYears!Fund(file.vorab, p, end[p], flow, months) : p \in TaxIsins}
  BY DEF TaxYears!Enter
<1>7. IsFiniteSet(file'.lager) /\ IsFiniteSet(file'.ask)
  <2>1. IsFiniteSet({TaxYears!Entry(file.lager, p, end[p], flow) : p \in TaxIsins})
    <3>1. IsFiniteSet(TaxIsins)
      BY DEF TaxYears!TaxConstants, TaxYears!IsFiniteSet, IsFiniteSet
    <3> DEFINE f == [p \in TaxIsins |-> TaxYears!Entry(file.lager, p, end[p], flow)]
    <3>2. Range(f) = {TaxYears!Entry(file.lager, p, end[p], flow) : p \in TaxIsins}
      BY DEF Range
    <3>3. f \in [TaxIsins -> Range(f)] /\ Range(f) = {f[p] : p \in TaxIsins}
      BY DEF Range
    <3> HIDE DEF f
    <3>4. QED
      BY <3>1, <3>2, <3>3, EntriesAreFinite
  <2>2. IsFiniteSet({TaxYears!Entry(file.ask, p, end[p], flow) : p \in AskIsins})
    <3>1. IsFiniteSet(AskIsins)
      BY DEF TaxYears!TaxConstants, TaxYears!IsFiniteSet, IsFiniteSet
    <3> DEFINE f == [p \in AskIsins |-> TaxYears!Entry(file.ask, p, end[p], flow)]
    <3>2. Range(f) = {TaxYears!Entry(file.ask, p, end[p], flow) : p \in AskIsins}
      BY DEF Range
    <3>3. f \in [AskIsins -> Range(f)] /\ Range(f) = {f[p] : p \in AskIsins}
      BY DEF Range
    <3> HIDE DEF f
    <3>4. QED
      BY <3>1, <3>2, <3>3, EntriesAreFinite
  <2>3. IsFiniteSet(file.lager) /\ IsFiniteSet(file.ask)
    BY DEF TaxInv, TaxShape
  <2>4. \A S, T : IsFiniteSet(S) /\ IsFiniteSet(T) => IsFiniteSet(S \cup T)
    BY FS_Union
  <2>5. QED
    BY ONLY <1>6, <2>1, <2>2, <2>3, <2>4
<1>8. \A e \in file'.lager : EntryOk(e)' /\ (e \in file.lager \/ e.year = filed + 1)
  <2>1. \A e \in file.lager : EntryOk(e)
    BY DEF TaxInv, TaxShape
  <2>2. ASSUME NEW p \in TaxIsins, NEW e, e = TaxYears!Entry(file.lager, p, end[p], flow)
        PROVE  EntryOk(e)' /\ e.year = filed + 1
    BY <1>5, <2>1, <2>2
  <2>3. QED
    BY <1>4, <1>6, <2>1, <2>2
<1>9. \A e \in file'.ask : EntryOk(e)'
  <2>1. \A e \in file.ask : EntryOk(e)
    BY DEF TaxInv, TaxShape
  <2>2. ASSUME NEW p \in AskIsins, NEW e, e = TaxYears!Entry(file.ask, p, end[p], flow)
        PROVE  EntryOk(e)'
    BY <1>5, <2>1, <2>2
  <2>3. QED
    BY <1>4, <1>6, <2>1, <2>2
<1>10. \A e \in file'.pal :
           EntryOk(e)' /\ (e \in file.pal \/ (e = TaxYears!Entry(file.pal, Pension, end[Pension], flow)
                                              /\ e.year = filed + 1))
  <2>1. Pension \in TaxIsins \cup AskIsins \cup {Pension} /\ \A e \in file.pal : EntryOk(e)
    BY DEF TaxInv, TaxShape
  <2>2. ASSUME NEW e, e = TaxYears!Entry(file.pal, Pension, end[Pension], flow)
        PROVE  EntryOk(e)' /\ e.year = filed + 1
    BY <1>5, <2>1, <2>2
  <2>3. ASSUME NEW e \in file.pal PROVE EntryOk(e)'
    BY <1>4, <2>1
  <2>4. QED
    BY <1>6, <2>2, <2>3
<1>11. \A e, other \in file'.pal : e.year = other.year => e = other
  <2>1. \A e \in file.pal : e.year # filed + 1
    BY <1>3 DEF TaxInv, TaxShape, EntryOk
  <2>2. \A e, other \in file.pal : e.year = other.year => e = other
    BY DEF TaxInv, TaxShape
  <2>3. QED
    BY <1>10, <2>1, <2>2
<1>12. \A e \in file'.vorab : FundOk(e)'
  <2>1. ASSUME NEW p \in TaxIsins, NEW e, e = TaxYears!Fund(file.vorab, p, end[p], flow, months)
        PROVE  FundOk(e)'
    <3>1. end[p] \in Int /\ flow.dist \in Int /\ TaxYears!Held(file.vorab, p) \in Int
      BY <1>2 DEF TaxYears!TaxConstants, TaxInv, TaxShape
    <3>2. QED
      BY <1>3, <2>1, <3>1 DEF FundOk, TaxYears!Fund
  <2>2. ASSUME NEW e \in file.vorab PROVE FundOk(e)'
    BY <1>3 DEF TaxInv, TaxShape, FundOk
  <2>3. QED
    BY <1>6, <2>1, <2>2
<1>13. \A y \in 1 .. filed : TaxYears!InYear(file'.lager, y) = TaxYears!InYear(file.lager, y)
  BY <1>3, <1>6, <1>8 DEF TaxYears!InYear
<1>14. filed' \in Nat
  BY <1>3
<1>15. QED
  BY <1>7, <1>8, <1>9, <1>10, <1>11, <1>12, <1>13, <1>14 DEF TaxShape

\* Every year's gain is a whole number.
LEMMA GainsAreWhole ==
  ASSUME TaxInv
  PROVE  /\ \A y : IsFiniteSet(TaxYears!InYear(file.lager, y)) /\ GainIn(file.lager, y) \in Int
         /\ \A y \in Nat : GainUpTo(file.lager, y) \in Int
<1>1. IsFiniteSet(file.lager)
      /\ \A e \in file.lager : /\ e.start \in Int /\ e.end \in Int
                               /\ e.in \in Int /\ e.out \in Int /\ e.dist \in Int
  BY DEF TaxInv, TaxShape, EntryOk
<1>2. \A y : IsFiniteSet(TaxYears!InYear(file.lager, y)) /\ GainIn(file.lager, y) \in Int
  BY <1>1, GainInType
<1>3. QED
  BY <1>2, GainGrows

\* The report of the last year, in terms of the gains so far.
LEMMA ReportCarries ==
  ASSUME TaxInv, filed > 0, NEW r, r = TaxYears!SkatReport(filed, file.lager, file.ask, file.pal, prior)
  PROVE  /\ r.taxable = TaxYears!Floor0(GainUpTo(file.lager, filed) - taxed)
         /\ r.loss = TaxYears!Floor0(taxed - GainUpTo(file.lager, filed))
         /\ taxed \in Int
<1>1. filed \in Nat /\ filed - 1 \in Nat /\ (filed - 1) + 1 = filed
  BY DEF TaxInv, TaxShape
<1>2. GainUpTo(file.lager, filed) = GainUpTo(file.lager, filed - 1) + GainIn(file.lager, filed)
  <2>1. \A y \in Nat : GainIn(file.lager, y) \in Int
    BY GainsAreWhole
  <2>2. QED
    BY <1>1, <2>1, GainGrows
<1>3. GainUpTo(file.lager, filed - 1) \in Int /\ GainIn(file.lager, filed) \in Int
      /\ GainUpTo(file.lager, filed) \in Int
  BY <1>1, GainsAreWhole
<1>4. HighestSoFar(file.lager, filed - 1, taxed) /\ prior = taxed - GainUpTo(file.lager, filed - 1)
  BY DEF TaxInv, Carried
<1>5. taxed \in Int
  <2>1. PICK x \in 0 .. (filed - 1) : taxed = GainUpTo(file.lager, x)
    BY <1>4 DEF HighestSoFar
  <2>2. QED
    BY <1>1, <2>1, GainsAreWhole
<1>6. r.taxable = TaxYears!Floor0(GainIn(file.lager, filed) - prior)
      /\ r.loss = TaxYears!Floor0(-(GainIn(file.lager, filed) - prior))
  BY DEF TaxYears!SkatReport, GainIn
<1>7. GainIn(file.lager, filed) - prior = GainUpTo(file.lager, filed) - taxed
      /\ -(GainIn(file.lager, filed) - prior) = taxed - GainUpTo(file.lager, filed)
  BY <1>2, <1>3, <1>4, <1>5
<1>8. QED
  BY <1>5, <1>6, <1>7

\* The next year starts with what the last report carried forward.
LEMMA EnterCarries ==
  ASSUME TaxYears!TaxConstants, TaxInv, NEW end \in [TaxIsins \cup AskIsins \cup {Pension} -> Values],
         NEW flow \in TaxFlows, NEW months \in Months, TaxYears!Enter(end, flow, months)
  PROVE  Carried'
<1>1. filed \in Nat /\ filed' = filed + 1 /\ filed' > 0 /\ filed' - 1 = filed
  BY DEF TaxInv, TaxShape, TaxYears!Enter
<1>2. \A y \in 0 .. filed : GainUpTo(file'.lager, y) = GainUpTo(file.lager, y)
  <2>1. \A y \in 1 .. filed : TaxYears!InYear(file'.lager, y) = TaxYears!InYear(file.lager, y)
    BY EnterAdds
  <2>2. QED
    BY <1>1, <2>1, GainUpToSame
<1>3. \A y \in Nat : GainUpTo(file.lager, y) \in Int
  BY GainsAreWhole
<1>4. HighestSoFar(file.lager, filed, taxed') /\ prior' = taxed' - GainUpTo(file.lager, filed)
  <2>1. CASE filed = 0
    <3>1. taxed' = 0 /\ prior' = 0
      BY <2>1 DEF TaxYears!Enter
    <3>2. GainUpTo(file.lager, 0) = 0
      <4>1. \A y \in Nat : GainIn(file.lager, y) \in Int
        BY GainsAreWhole
      <4>2. QED
        BY <4>1, GainGrows
    <3>3. \A x \in 0 .. filed : x = 0
      BY <2>1
    <3>4. QED
      BY <2>1, <3>1, <3>2, <3>3 DEF HighestSoFar
  <2>2. CASE filed > 0
    <3> DEFINE r == TaxYears!SkatReport(filed, file.lager, file.ask, file.pal, prior)
               all == GainUpTo(file.lager, filed)
    <3>1. prior' = r.loss /\ taxed' = taxed + r.taxable
      BY <1>1, <2>2 DEF TaxYears!Enter, TaxInv, Told
    <3>2. r.taxable = TaxYears!Floor0(all - taxed) /\ r.loss = TaxYears!Floor0(taxed - all) /\ taxed \in Int
      BY <2>2, ReportCarries
    <3>3. all \in Int
      BY <1>1, <1>3
    <3>4. HighestSoFar(file.lager, filed - 1, taxed)
      BY <2>2 DEF TaxInv, Carried
    <3>5. filed - 1 \in Nat /\ (filed - 1) + 1 = filed
      BY <1>1, <2>2
    <3>6. taxed' = taxed + TaxYears!Floor0(all - taxed)
      BY <3>1, <3>2
    <3> HIDE DEF r
    <3>7. HighestSoFar(file.lager, filed, taxed')
      BY <1>3, <3>4, <3>5, <3>6, HighestNext
    <3>8. prior' = taxed' - all
      <4> HIDE DEF all
      <4>1. QED
        BY <3>1, <3>2, <3>3 DEF TaxYears!Floor0, TaxYears!Greatest
    <3>9. QED
      BY <3>7, <3>8
  <2>3. QED
    BY <1>1, <2>1, <2>2
<1>5. HighestSoFar(file'.lager, filed, taxed')
  BY <1>1, <1>2, <1>4, HighestSame
<1>6. GainUpTo(file'.lager, filed) = GainUpTo(file.lager, filed)
  BY <1>1, <1>2
<1>7. QED
  BY <1>1, <1>4, <1>5, <1>6 DEF Carried

\* Every step keeps the books.
LEMMA TaxStep ==
  ASSUME TaxYears!TaxConstants, TaxInv, [TaxYears!Next]_(TaxYears!taxVars)
  PROVE  TaxInv'
<1>1. ASSUME NEW end \in [TaxIsins \cup AskIsins \cup {Pension} -> Values],
             NEW flow \in TaxFlows, NEW months \in Months, TaxYears!Enter(end, flow, months)
      PROVE  TaxInv'
  <2>1. TaxShape'
    BY <1>1, EnterAdds
  <2>2. Carried'
    BY <1>1, EnterCarries
  <2>3. Told'
    BY <1>1 DEF TaxYears!Enter, Told
  <2>4. QED
    BY <2>1, <2>2, <2>3 DEF TaxInv
<1>2. ASSUME NEW jurisdictions, NEW target, NEW fx, TaxYears!Run(jurisdictions, target, fx)
      PROVE  TaxInv'
  <2>1. Told'
    BY <1>2, RunTells
  <2>2. TaxShape' /\ Carried'
    BY <1>2 DEF TaxYears!Run, TaxInv, TaxShape, EntryOk, FundOk, Carried, HighestSoFar
  <2>3. QED
    BY <2>1, <2>2 DEF TaxInv
<1>3. ASSUME UNCHANGED TaxYears!taxVars PROVE TaxInv'
  BY <1>3 DEF TaxYears!taxVars, TaxInv, TaxShape, EntryOk, FundOk, Carried, HighestSoFar, Told
<1>4. QED
  BY <1>1, <1>2, <1>3 DEF TaxYears!Next

-----------------------------------------------------------------------------
(* What the books give. *)

\* A printed report of a state is one of a year that was filed.
LEMMA HighWaterMark ==
  ASSUME TaxInv
  PROVE  TaxYears!TaxesHighWaterMark
<1> DEFINE all == {TaxYears!Cumulative(y) : y \in 0 .. filed}
           r == TaxYears!SkatReport(filed, file.lager, file.ask, file.pal, prior)
           best == taxed + printed.dk.taxable
<1> SUFFICES ASSUME printed # TaxYears!Failed, printed.dk # TaxYears!NotAsked, printed.target = "DKK"
             PROVE  best = TaxYears!Max(all)
  BY DEF TaxYears!TaxesHighWaterMark
<1>1. filed \in Nat /\ filed > 0 /\ filed - 1 \in Nat /\ (filed - 1) + 1 = filed
  BY DEF TaxInv, TaxShape, Carried
<1>2. \A y \in Nat : GainUpTo(file.lager, y) \in Int
  BY GainsAreWhole
<1>3. printed.dk.taxable = r.taxable
  BY DEF TaxInv, Told
<1>4. best = taxed + TaxYears!Floor0(GainUpTo(file.lager, filed) - taxed)
  BY <1>1, <1>3, ReportCarries
<1>5. HighestSoFar(file.lager, filed - 1, taxed)
  BY <1>1 DEF TaxInv, Carried
<1> HIDE DEF best, r
<1>6. HighestSoFar(file.lager, filed, best)
  BY <1>1, <1>2, <1>4, <1>5, HighestNext
<1>7. \A y : TaxYears!Cumulative(y) = GainUpTo(file.lager, y)
  BY DEF TaxYears!Cumulative, TaxYears!CapitalIncome, GainUpTo, GainIn
<1>8. best \in all /\ \A x \in all : x <= best
  BY <1>6, <1>7 DEF HighestSoFar
<1>9. \A x \in all : x \in Int
  BY <1>2, <1>7
<1> HIDE DEF all
<1>10. best \in all /\ \A x \in all : best >= x
  BY <1>8, <1>9
<1>11. \A x \in all : (\A y \in all : x >= y) => x = best
  BY <1>9, <1>10
<1>12. QED
  BY <1>10, <1>11 DEF TaxYears!Max

\* What an account gained is what its balances and flows say.
LEMMA AccountGains ==
  ASSUME NEW S, IsFiniteSet(S),
         \A e \in S : /\ e.start \in Int /\ e.end \in Int
                     /\ e.in \in Int /\ e.out \in Int /\ e.dist \in Int
  PROVE  /\ TaxYears!TotalGain(S) \in Int
         /\ TaxYears!TotalGain(S) = TaxYears!SumFunction([e \in S |-> e.end + e.out - e.start - e.in])
                           + TaxYears!SumFunction([e \in S |-> e.dist])
<1> DEFINE whole == [e \in S |-> TaxYears!LagerGain(e)]
           moved == [e \in S |-> e.end + e.out - e.start - e.in]
           dist == [e \in S |-> e.dist]
<1>1. \A e \in S : /\ whole[e] \in Int /\ moved[e] \in Int /\ dist[e] \in Int
                  /\ whole[e] = moved[e] + dist[e]
  BY DEF TaxYears!LagerGain
<1>2. /\ DOMAIN whole = S /\ DOMAIN moved = S /\ DOMAIN dist = S
      /\ TaxYears!TotalGain(S) = TaxYears!SumFunction(whole)
  BY DEF TaxYears!TotalGain
<1> HIDE DEF whole, moved, dist
<1>3. Sum(whole, S) = Sum(moved, S) + Sum(dist, S)
  BY <1>1, SumPlus
<1>4. Sum(whole, S) \in Int
  BY <1>1, SumType
<1>5. TaxYears!SumFunction(whole) = Sum(whole, S) /\ TaxYears!SumFunction(moved) = Sum(moved, S)
      /\ TaxYears!SumFunction(dist) = Sum(dist, S)
  BY <1>2, SumFunctionIs
<1>6. QED
  BY <1>2, <1>3, <1>4, <1>5 DEF moved, dist

\* A pension account has one row a year, or none.
LEMMA PensionRow ==
  ASSUME NEW S, \A e, other \in S : e = other,
         \A e \in S : e.start \in Int /\ e.end \in Int /\ e.in \in Int /\ e.out \in Int
  PROVE  LET gain == TaxYears!SumFunction([e \in S |-> e.end + e.out - e.start - e.in])
             tax == TaxYears!SumFunction([e \in S |-> TaxYears!PalResult(e).tax])
         IN  /\ gain \in Int /\ tax \in Int /\ 0 <= tax /\ tax <= TaxYears!Floor0(gain)
             /\ gain <= 0 => tax = 0
<1> DEFINE gains == [e \in S |-> e.end + e.out - e.start - e.in]
           taxes == [e \in S |-> TaxYears!PalResult(e).tax]
<1>1. DOMAIN gains = S /\ DOMAIN taxes = S
  OBVIOUS
<1>2. \A e \in S : /\ gains[e] \in Int /\ gains[e] = TaxYears!PalReturn(e)
                   /\ taxes[e] = TaxYears!Tax(TaxYears!PalReturn(e), TaxYears!PalRate)
  BY DEF TaxYears!PalReturn, TaxYears!PalResult
<1> HIDE DEF gains, taxes
<1>3. TaxYears!SumFunction(gains) = Sum(gains, S) /\ TaxYears!SumFunction(taxes) = Sum(taxes, S)
  BY <1>1, SumFunctionIs
<1>4. CASE S = {}
  <2>1. IsFiniteSet(S)
    BY <1>4, FS_EmptySet
  <2>2. Sum(gains, S) = 0 /\ Sum(taxes, S) = 0
    BY <1>4, <2>1, SumZero
  <2>3. QED
    BY <1>3, <2>2 DEF gains, taxes, TaxYears!Floor0, TaxYears!Greatest
<1>5. CASE S # {}
  <2>1. PICK e \in S : S = {e}
    BY <1>5
  <2>2. gains[e] \in Int /\ taxes[e] = TaxYears!Tax(gains[e], TaxYears!PalRate)
    BY <1>2
  <2>3. /\ taxes[e] \in Int /\ 0 <= taxes[e] /\ taxes[e] <= TaxYears!Floor0(gains[e])
        /\ gains[e] <= 0 => taxes[e] = 0
    BY <2>2, TaxIsAPart
  <2>4. Sum(gains, S) = gains[e] /\ Sum(taxes, S) = taxes[e]
    <3>1. IsFiniteSet(S)
      BY <2>1, FS_Singleton
    <3>2. (\A y \in S \ {e} : gains[y] = 0) /\ \A y \in S \ {e} : taxes[y] = 0
      BY <2>1
    <3>3. QED
      BY <2>2, <2>3, <3>1, <3>2, SumOne
  <2>5. QED
    BY <1>3, <2>2, <2>3, <2>4 DEF gains, taxes
<1>6. QED
  BY <1>4, <1>5

\* An account is taxed on what it gained as a whole.
LEMMA Netted ==
  ASSUME TaxInv
  PROVE  TaxYears!NettedBeforeTaxed
<1> DEFINE ask == TaxYears!InYear(file.ask, filed)
           pal == TaxYears!InYear(file.pal, filed)
           r == TaxYears!SkatReport(filed, file.lager, file.ask, file.pal, prior)
           askGain == TaxYears!SumFunction([e \in ask |-> e.end + e.out - e.start - e.in])
                      + TaxYears!SumFunction([e \in ask |-> e.dist])
           palGain == TaxYears!SumFunction([e \in pal |-> e.end + e.out - e.start - e.in])
           askRow == IF ask = {} THEN 0 ELSE TaxYears!AskResult(ask).tax
           palRow == TaxYears!SumFunction([e \in pal |-> TaxYears!PalResult(e).tax])
<1> SUFFICES ASSUME printed # TaxYears!Failed, printed.dk # TaxYears!NotAsked, printed.target = "DKK"
             PROVE  /\ (askGain <= 0 /\ palGain <= 0) => printed.dk.withheld = 0
                    /\ printed.dk.withheld <= TaxYears!Floor0(askGain) + TaxYears!Floor0(palGain)
  BY DEF TaxYears!NettedBeforeTaxed
<1>1. printed.dk.withheld = askRow + palRow
  BY DEF TaxInv, Told, TaxYears!SkatReport
<1>2. /\ TaxYears!TotalGain(ask) \in Int /\ TaxYears!TotalGain(ask) = askGain
  <2>1. ask \in SUBSET file.ask /\ IsFiniteSet(file.ask)
    BY DEF TaxYears!InYear, TaxInv, TaxShape
  <2>2. IsFiniteSet(ask)
    BY <2>1, FS_Subset
  <2>3. \A e \in ask : /\ e.start \in Int /\ e.end \in Int
                       /\ e.in \in Int /\ e.out \in Int /\ e.dist \in Int
    BY <2>1 DEF TaxInv, TaxShape, EntryOk
  <2> HIDE DEF ask
  <2>4. QED
    BY <2>2, <2>3, AccountGains
<1>3. /\ palGain \in Int /\ palRow \in Int /\ 0 <= palRow /\ palRow <= TaxYears!Floor0(palGain)
      /\ palGain <= 0 => palRow = 0
  <2>1. \A e, other \in pal : e = other
    BY DEF TaxYears!InYear, TaxInv, TaxShape
  <2>2. \A e \in pal : e.start \in Int /\ e.end \in Int /\ e.in \in Int /\ e.out \in Int
    BY DEF TaxYears!InYear, TaxInv, TaxShape, EntryOk
  <2> HIDE DEF pal
  <2>3. QED
    BY <2>1, <2>2, PensionRow
<1>4. /\ askRow \in Int /\ 0 <= askRow /\ askRow <= TaxYears!Floor0(askGain)
      /\ askGain <= 0 => askRow = 0
  <2>1. TaxYears!AskResult(ask).tax = TaxYears!Tax(askGain, TaxYears!AskRate)
    BY <1>2 DEF TaxYears!AskResult
  <2>2. 0 <= TaxYears!Floor0(askGain)
    BY <1>2 DEF TaxYears!Floor0, TaxYears!Greatest
  <2> HIDE DEF ask, askGain
  <2>3. QED
    BY <1>2, <2>1, <2>2, TaxIsAPart
<1>5. 0 <= TaxYears!Floor0(askGain) /\ TaxYears!Floor0(askGain) \in Int /\ TaxYears!Floor0(palGain) \in Int
  BY <1>2, <1>3 DEF TaxYears!Floor0, TaxYears!Greatest
<1> HIDE DEF askGain, palGain, askRow, palRow
<1>6. QED
  BY <1>1, <1>2, <1>3, <1>4, <1>5

\* A lump sum, the part of it that is taxable and the tax, each rounded.
InOrder(lump, part) ==
  /\ 0 <= TaxYears!HalfEven(part * 211, (12000 * 20 * 800))
  /\ TaxYears!HalfEven(part * 211, (12000 * 20 * 800)) <= TaxYears!HalfEven(part, (12000 * 20))
  /\ TaxYears!HalfEven(part, (12000 * 20)) <= TaxYears!HalfEven(lump, 12000)
  /\ TaxYears!HalfEven(lump, 12000) \in Int
  /\ 12000 * TaxYears!HalfEven(lump, 12000) <= lump + 6000
  /\ lump = 0 => TaxYears!HalfEven(lump, 12000) = 0

\* The rounded shares of a lump sum stay in their order: the lump sum, the part of
\* it that is not exempt, and the tax on that.
LEMMA SharesStayInOrder ==
  ASSUME NEW lump \in Nat, NEW part \in Nat, part <= 20 * lump
  PROVE  InOrder(lump, part)
<1> DEFINE l == TaxYears!HalfEven(lump, 12000)
           p == TaxYears!HalfEven(part, (12000 * 20))
           t == TaxYears!HalfEven(part * 211, (12000 * 20 * 800))
<1>1. /\ l \in Int
      /\ 2 * lump <= 2 * (12000 * l) + 12000 /\ 2 * (12000 * l) - 12000 <= 2 * lump
      /\ 2 * lump = 2 * (12000 * l) + 12000 => l % 2 = 0
  BY HalfEvenIsNear
<1>2. /\ p \in Int
      /\ 2 * part <= 2 * ((12000 * 20) * p) + (12000 * 20) /\ 2 * ((12000 * 20) * p) - (12000 * 20) <= 2 * part
      /\ 2 * ((12000 * 20) * p) - (12000 * 20) = 2 * part => p % 2 = 0
  BY HalfEvenIsNear
<1>3. /\ t \in Int
      /\ 2 * (part * 211) <= 2 * ((12000 * 20 * 800) * t) + (12000 * 20 * 800)
      /\ 2 * ((12000 * 20 * 800) * t) - (12000 * 20 * 800) <= 2 * (part * 211)
  BY HalfEvenIsNear
<1> HIDE DEF l, p, t
<1>4. 0 <= t /\ 0 <= p /\ 0 <= l
  BY <1>1, <1>2, <1>3
<1>5. t <= p
  BY <1>2, <1>3, <1>4
<1>6. p <= l
  <2>1. p <= l + 1
    BY <1>1, <1>2
  <2>2. p # l + 1
    <3> SUFFICES ASSUME p = l + 1 PROVE FALSE
      OBVIOUS
    <3>1. 2 * lump = 2 * (12000 * l) + 12000 /\ 2 * ((12000 * 20) * p) - (12000 * 20) = 2 * part
      BY <1>1, <1>2
    <3>2. l % 2 = 0 /\ p % 2 = 0
      BY <1>1, <1>2, <3>1
    <3>3. QED
      BY <1>1, <3>2
  <2>3. QED
    BY <1>1, <1>2, <2>1, <2>2
<1>7. 12000 * l <= lump + 6000
  BY <1>1
<1>8. lump = 0 => l = 0
  BY <1>1
<1>9. QED
  BY <1>1, <1>4, <1>5, <1>6, <1>7, <1>8 DEF InOrder, l, p, t

\* Germany's lump sum stays within the growth and the deemed yield.
LEMMA WithinGrowth ==
  ASSUME TaxYears!TaxConstants, TaxInv
  PROVE  TaxYears!VorabWithinGrowth
<1> SUFFICES ASSUME NEW e \in TaxYears!InYear(file.vorab, filed), filed \in DOMAIN Basiszins
             PROVE  LET r == TaxYears!Vorab(e)
                    IN  /\ 0 <= r.tax /\ r.tax <= r.taxable /\ r.taxable <= r.lump
                        /\ r.lump > 0 => /\ r.lump * TaxYears!VorabUnit <= r.growth + TaxYears!VorabUnit \div 2
                                         /\ (r.lump + e.dist) * TaxYears!VorabUnit
                                               <= r.deemed + TaxYears!VorabUnit \div 2
  BY DEF TaxYears!VorabWithinGrowth
<1> DEFINE deemed == e.start * TaxYears!Floor0(Basiszins[e.year]) * 7 * e.months
           growth == (e.end - e.start + e.dist) * 12000
           lump == TaxYears!Least(TaxYears!Floor0(deemed - e.dist * 12000), TaxYears!Floor0(growth))
           quote == 20 - Quote[e.isin]
           part == lump * quote
<1>1. e \in file.vorab /\ e.year = filed /\ FundOk(e)
  BY DEF TaxYears!InYear, TaxInv, TaxShape
<1>2. Basiszins[e.year] \in Int /\ e.months \in Int /\ e.start \in Int /\ e.end \in Int /\ e.dist \in Int
      /\ quote \in 0 .. 20
  <2>1. Basiszins[e.year] \in Int
    BY <1>1 DEF TaxYears!TaxConstants
  <2>2. Quote[e.isin] \in 0 .. 20 /\ e.months \in Int
    <3>1. e.isin \in TaxIsins /\ e.months \in Months
      BY <1>1 DEF FundOk
    <3>2. Months \subseteq Nat /\ \A p \in TaxIsins : Quote[p] \in 0 .. 20
      BY DEF TaxYears!TaxConstants
    <3>3. Quote[e.isin] \in 0 .. 20
      BY <3>1, <3>2
    <3>4. e.months \in Int
      <4>1. \A m \in Nat : m \in Int
        OBVIOUS
      <4>2. QED
        BY ONLY <3>1, <3>2, <4>1, Zenon
    <3>5. QED
      BY <3>3, <3>4
  <2>3. e.start \in Int /\ e.end \in Int /\ e.dist \in Int
    BY <1>1 DEF FundOk
  <2>4. quote \in 0 .. 20
    <3> HIDE DEF lump
    <3>1. QED
      BY <2>2
  <2> HIDE DEF deemed, growth, lump, quote, part
  <2>5. QED
    BY <2>1, <2>2, <2>3, <2>4
<1>3. deemed \in Int /\ growth \in Int
  <2>1. TaxYears!Floor0(Basiszins[e.year]) \in Int
    BY <1>2 DEF TaxYears!Floor0, TaxYears!Greatest
  <2> HIDE DEF quote, part, lump
  <2>2. QED
    BY <1>2, <2>1
<1>4. TaxYears!Vorab(e) = [deemed |-> deemed, growth |-> growth, lump |-> TaxYears!HalfEven(lump, 12000),
                  taxable |-> TaxYears!HalfEven(part, (12000 * 20)),
                  tax |-> TaxYears!HalfEven(part * 211, (12000 * 20 * 800))]
  BY DEF TaxYears!Vorab, TaxYears!VorabUnit, TaxYears!Twentieths, TaxYears!AbgeltRate
<1> HIDE DEF deemed, growth, quote
<1>5. lump \in Nat
  BY <1>2, <1>3 DEF TaxYears!Least, TaxYears!Floor0, TaxYears!Greatest
<1>6. /\ lump > 0 => lump <= growth /\ lump <= deemed - e.dist * 12000
  BY <1>2, <1>3 DEF TaxYears!Least, TaxYears!Floor0, TaxYears!Greatest
<1> HIDE DEF lump
<1>7. part \in Nat /\ part <= 20 * lump
  BY <1>2, <1>5
<1> HIDE DEF part
<1>8. InOrder(lump, part)
  BY <1>5, <1>7, SharesStayInOrder
<1>9. TaxYears!HalfEven(lump, 12000) > 0 => /\ 12000 * TaxYears!HalfEven(lump, 12000) <= growth + 6000
                                  /\ 12000 * (TaxYears!HalfEven(lump, 12000) + e.dist) <= deemed + 6000
  BY <1>2, <1>3, <1>6, <1>5, <1>8 DEF InOrder
<1>10. TaxYears!VorabUnit = 12000 /\ TaxYears!VorabUnit \div 2 = 6000
  BY DEF TaxYears!VorabUnit
<1>11. QED
  BY <1>2, <1>3, <1>4, <1>8, <1>9, <1>10 DEF InOrder

-----------------------------------------------------------------------------
(* The ABIS list. *)

\* The rows stored for an instrument: one for each tax year.
AbisRows(i, rows) ==
  /\ \A o \in rows : o.isin = i /\ o.year \in AbisYears /\ o.listed \in BOOLEAN
  /\ \A o, other \in rows : o.year = other.year => o = other

\* The transaction is about to write the rows after[i] of each instrument i of M:
\* whole rows, never none where there were some, of which it has read the newest.
TxnOf(M, after) ==
  /\ \A i \in M : AbisRows(i, after[i]) /\ (listing[i] # {} => after[i] # {})
  /\ txn.rows = {<<i, after[i]>> : i \in M}
  /\ txn.latest = UNION {Abis!Latest(after[i]) : i \in M}

AbisTxn == txn = Abis!NoTxn \/ \E M \in SUBSET AbisIsins : \E after : TxnOf(M, after)

AbisShape ==
  /\ listing = [i \in AbisIsins |-> listing[i]]
  /\ \A i \in AbisIsins : AbisRows(i, listing[i])
  /\ treatment \in [AbisIsins -> {"none", "lagerbeskatning", "realisation"}]
  /\ source \in [AbisIsins -> {"none", "abis", "manual"}]
  /\ chosen \in [AbisIsins -> {"none", "lagerbeskatning", "realisation"}]
  /\ \A i \in AbisIsins : treatment[i] = "none" <=> source[i] = "none"

AbisInv == AbisShape /\ AbisTxn /\ Abis!TreatmentFollowsListing /\ Abis!OverrideSurvivesImports

\* Whole rows that are some have a newest one.
LEMMA SomeLatest ==
  ASSUME Abis!AbisConstants, NEW i, NEW rows, AbisRows(i, rows), rows # {}
  PROVE  Abis!Latest(rows) # {}
<1> DEFINE years == {o.year : o \in rows}
<1>1. years \in SUBSET AbisYears /\ years # {}
  BY DEF AbisRows
<1>2. IsFiniteSet(years) /\ years \subseteq Int
  <2>1. IsFiniteSet(AbisYears) /\ AbisYears \subseteq Int
    BY DEF Abis!AbisConstants, Abis!IsFiniteSet, IsFiniteSet
  <2> HIDE DEF years
  <2>2. QED
    BY <1>1, <2>1, FS_Subset
<1> HIDE DEF years
<1>3. PICK y \in years : \A z \in years : z <= y
  BY <1>1, <1>2, HasGreatest
<1>4. PICK o \in rows : o.year = y
  BY DEF years
<1>5. o \in Abis!Latest(rows)
  BY <1>3, <1>4 DEF Abis!Latest, years
<1>6. QED
  BY <1>5

\* The observations of a list say one thing of an instrument and a year.
LEMMA ObservationsAreRows ==
  ASSUME Abis!AbisConstants, NEW records \in Lists, NEW i \in AbisIsins
  PROVE  AbisRows(i, {o \in Abis!Observations(records) : o.isin = i})
<1> DEFINE Of(j) == {r \in records : r.isin = j}
           Registered(j) == UNION {r.registered : r \in Of(j)}
           Unregistered(j) == UNION {r.unregistered : r \in Of(j)}
           named == {r.isin : r \in records}
<1>1. Registered(i) \subseteq AbisYears /\ Unregistered(i) \subseteq AbisYears
  BY DEF Abis!AbisConstants
<1>2. Abis!Observations(records) =
        UNION {{Abis!Observation(j, y, TRUE) : y \in Registered(j)}
               \cup {Abis!Observation(j, y, FALSE) : y \in Unregistered(j) \ Registered(j)}
               : j \in named}
  BY DEF Abis!Observations
<1> HIDE DEF Registered, Unregistered, named
<1>3. ASSUME NEW o \in Abis!Observations(records), o.isin = i
      PROVE  \/ o.listed = TRUE /\ \E y \in Registered(i) : o = Abis!Observation(i, y, TRUE)
             \/ o.listed = FALSE /\ \E y \in Unregistered(i) \ Registered(i) :
                                         o = Abis!Observation(i, y, FALSE)
  BY <1>2, <1>3 DEF Abis!Observation
<1>4. QED
  <2> DEFINE rows == {o \in Abis!Observations(records) : o.isin = i}
  <2>1. \A o \in rows : /\ o = Abis!Observation(i, o.year, o.listed)
                        /\ o.listed = TRUE => o.year \in Registered(i)
                        /\ o.listed = FALSE => o.year \in Unregistered(i) \ Registered(i)
                        /\ o.listed \in BOOLEAN
    <3> SUFFICES ASSUME NEW o \in rows
                 PROVE  /\ o = Abis!Observation(i, o.year, o.listed)
                        /\ o.listed = TRUE => o.year \in Registered(i)
                        /\ o.listed = FALSE => o.year \in Unregistered(i) \ Registered(i)
                        /\ o.listed \in BOOLEAN
      OBVIOUS
    <3>1. CASE \E y \in Registered(i) : o = Abis!Observation(i, y, TRUE)
      BY <3>1 DEF Abis!Observation
    <3>2. CASE \E y \in Unregistered(i) \ Registered(i) : o = Abis!Observation(i, y, FALSE)
      BY <3>2 DEF Abis!Observation
    <3>3. QED
      BY <1>3, <3>1, <3>2
  <2>2. \A o \in rows : o.isin = i /\ o.year \in AbisYears
    BY <1>1, <2>1
  <2> HIDE DEF rows
  <2>3. \A o, other \in rows : o.year = other.year => o.listed = other.listed
    BY <2>1
  <2>4. QED
    BY <2>1, <2>2, <2>3 DEF AbisRows, rows

\* An upsert of whole rows over whole rows leaves whole rows, not fewer.
LEMMA UpsertedRows ==
  ASSUME NEW i, NEW rows, NEW seen, AbisRows(i, rows), AbisRows(i, seen)
  PROVE  AbisRows(i, Abis!Upserted(rows, seen)) /\ (rows # {} => Abis!Upserted(rows, seen) # {})
  BY DEF AbisRows, Abis!Upserted

\* An import's statements up to the last prepare what AbisTxn says.
LEMMA LoadKeeps ==
  ASSUME Abis!AbisConstants, AbisInv, NEW records \in Lists, Abis!Load(records)
  PROVE  AbisInv'
<1> DEFINE after == [i \in AbisIsins |->
                      Abis!Upserted(listing[i], {o \in Abis!Observations(records) : o.isin = i})]
           matched == {r.isin : r \in records}
<1>1. matched \in SUBSET AbisIsins
  BY DEF Abis!AbisConstants
<1>2. ASSUME NEW i \in matched
      PROVE  AbisRows(i, after[i]) /\ (listing[i] # {} => after[i] # {})
  <2>1. i \in AbisIsins /\ AbisRows(i, listing[i])
    BY <1>1 DEF AbisInv, AbisShape
  <2>2. after[i] = Abis!Upserted(listing[i], {o \in Abis!Observations(records) : o.isin = i})
    BY <2>1
  <2>3. AbisRows(i, {o \in Abis!Observations(records) : o.isin = i})
    BY <2>1, ObservationsAreRows
  <2>4. QED
    BY <2>1, <2>2, <2>3, UpsertedRows
<1>3. /\ txn' = [rows |-> {<<i, after[i]>> : i \in matched},
                 latest |-> UNION {Abis!Latest(after[i]) : i \in matched}]
      /\ UNCHANGED <<listing, treatment, source, chosen, reopened>>
  BY <1>1 DEF Abis!Load
<1> HIDE DEF after, matched
<1>4. PICK A : A = after
  OBVIOUS
<1>5. TxnOf(matched, A)'
  BY <1>2, <1>3, <1>4 DEF TxnOf
<1>6. AbisTxn'
  BY <1>1, <1>5 DEF AbisTxn
<1>7. QED
  BY <1>3, <1>6 DEF AbisInv, AbisShape, AbisRows, Abis!TreatmentFollowsListing,
     Abis!LatestListed, Abis!Latest, Abis!OverrideSurvivesImports

\* A transaction stays what it is while the rows stored stay.
LEMMA TxnStays ==
  ASSUME AbisTxn, listing' = listing, txn' = txn \/ txn' = Abis!NoTxn
  PROVE  AbisTxn'
<1>1. CASE txn' = Abis!NoTxn
  BY <1>1 DEF AbisTxn, Abis!NoTxn
<1>2. CASE txn = Abis!NoTxn /\ txn' = txn
  BY <1>2 DEF AbisTxn, Abis!NoTxn
<1>3. CASE txn' = txn /\ \E M \in SUBSET AbisIsins : \E after : TxnOf(M, after)
  <2>1. PICK M \in SUBSET AbisIsins : \E after : TxnOf(M, after)
    BY <1>3
  <2>2. PICK after : TxnOf(M, after)
    BY <2>1
  <2>3. TxnOf(M, after)'
    BY <1>3, <2>2 DEF TxnOf
  <2>4. QED
    BY <2>3 DEF AbisTxn
<1>4. QED
  BY <1>1, <1>2, <1>3 DEF AbisTxn

\* The commit replaces the rows the transaction upserted, and the treatments of
\* the instruments it saw unless a person chose them meanwhile.
LEMMA CommitKeeps ==
  ASSUME Abis!AbisConstants, AbisInv, Abis!Commit
  PROVE  AbisInv'
<1> DEFINE listed == {o.isin : o \in {o \in txn.latest : o.listed}}
           seen == {o.isin : o \in txn.latest}
           touched == {i \in seen : Abis!MayRefresh(i)}
<1>1. PICK M \in SUBSET AbisIsins : \E after : TxnOf(M, after)
  BY DEF AbisInv, AbisTxn, Abis!Commit
<1>2. PICK after :
        /\ \A i \in M : AbisRows(i, after[i]) /\ (listing[i] # {} => after[i] # {})
        /\ txn.rows = {<<i, after[i]>> : i \in M}
        /\ txn.latest = UNION {Abis!Latest(after[i]) : i \in M}
  BY <1>1 DEF TxnOf
<1>3. \A i \in M : \A o \in Abis!Latest(after[i]) : o \in after[i] /\ o.isin = i
  BY <1>2 DEF Abis!Latest, AbisRows
<1>4. \A i : i \in seen <=> i \in M /\ Abis!Latest(after[i]) # {}
  BY <1>2, <1>3
<1>5. \A i : i \in listed <=> i \in M /\ \E o \in Abis!Latest(after[i]) : o.listed
  BY <1>2, <1>3
<1>6. /\ listing' = [i \in AbisIsins |->
           IF \E row \in txn.rows : row[1] = i
           THEN (CHOOSE row \in txn.rows : row[1] = i)[2] ELSE listing[i]]
      /\ treatment' = [i \in AbisIsins |->
           IF i \notin touched THEN treatment[i]
           ELSE IF i \in listed THEN "lagerbeskatning" ELSE "none"]
      /\ source' = [i \in AbisIsins |->
           IF i \notin touched THEN source[i]
           ELSE IF i \in listed THEN "abis" ELSE "none"]
      /\ reopened' = reopened \ touched
      /\ txn' = Abis!NoTxn
      /\ chosen' = chosen
  BY DEF Abis!Commit
<1>7. \A i \in AbisIsins : listing'[i] = IF i \in M THEN after[i] ELSE listing[i]
  <2> SUFFICES ASSUME NEW i \in AbisIsins
               PROVE  listing'[i] = IF i \in M THEN after[i] ELSE listing[i]
    OBVIOUS
  <2>1. \A row \in txn.rows : row[1] = i => row = <<i, after[i]>> /\ i \in M
    BY <1>2
  <2>2. i \in M => <<i, after[i]>> \in txn.rows
    BY <1>2
  <2>3. CASE i \in M
    BY <1>6, <2>1, <2>2, <2>3
  <2>4. CASE i \notin M
    BY <1>6, <2>1, <2>4
  <2>5. QED
    BY <2>3, <2>4
<1> HIDE DEF listed, seen, touched
<1>8. \A i : i \in touched <=> i \in seen /\ source[i] \in {"none", "abis"}
  BY DEF touched, Abis!MayRefresh
<1>9. AbisShape'
  BY <1>2, <1>6, <1>7 DEF AbisInv, AbisShape, AbisRows
<1>10. \A i \in AbisIsins : Abis!LatestListed(i)' <=> IF i \in M THEN i \in listed ELSE Abis!LatestListed(i)
  <2> SUFFICES ASSUME NEW i \in AbisIsins
               PROVE  Abis!LatestListed(i)' <=> IF i \in M THEN i \in listed ELSE Abis!LatestListed(i)
    OBVIOUS
  <2>1. Abis!LatestListed(i)' <=> \E o \in Abis!Latest(listing'[i]) : o.listed
    BY DEF Abis!LatestListed, Abis!Latest
  <2>2. QED
    BY <1>5, <1>7, <2>1 DEF Abis!LatestListed
<1>11. Abis!TreatmentFollowsListing'
  <2> SUFFICES ASSUME NEW i \in AbisIsins
               PROVE  /\ source'[i] = "abis" => treatment'[i] = "lagerbeskatning" /\ Abis!LatestListed(i)'
                      /\ source'[i] = "none" /\ Abis!LatestListed(i)' => i \in reopened'
    BY DEF Abis!TreatmentFollowsListing
  <2>1. CASE i \in touched
    BY <1>4, <1>5, <1>6, <1>8, <1>10, <2>1
  <2>2. CASE i \notin touched /\ i \notin M
    BY <1>6, <1>10, <2>2 DEF AbisInv, Abis!TreatmentFollowsListing
  <2>3. CASE i \notin touched /\ i \in M
    <3>1. CASE source[i] = "manual"
      BY <1>6, <2>3, <3>1
    <3>2. CASE source[i] # "manual"
      <4>1. i \notin seen
        BY <1>8, <2>3, <3>2 DEF AbisInv, AbisShape
      <4>2. after[i] = {}
        BY <1>2, <1>4, <2>3, <4>1, SomeLatest
      <4>3. ~Abis!LatestListed(i) /\ ~Abis!LatestListed(i)'
        BY <1>2, <1>7, <2>3, <4>2 DEF Abis!LatestListed, Abis!Latest
      <4>4. QED
        BY <1>6, <2>3, <4>3 DEF AbisInv, Abis!TreatmentFollowsListing
    <3>3. QED
      BY <3>1, <3>2
  <2>4. QED
    BY <2>1, <2>2, <2>3
<1>12. Abis!OverrideSurvivesImports'
  BY <1>6, <1>8 DEF AbisInv, Abis!OverrideSurvivesImports
<1>13. QED
  BY <1>6, <1>9, <1>11, <1>12 DEF AbisInv, AbisTxn, Abis!NoTxn

\* Nothing else changes a row, and a person's choice stands from then on.
LEMMA ChoiceKeeps ==
  ASSUME AbisInv, NEW i \in AbisIsins,
         \/ \E t \in {"lagerbeskatning", "realisation"} : Abis!ApplyManualOverride(i, t)
         \/ Abis!ClearManualOverride(i)
  PROVE  AbisInv'
<1>1. UNCHANGED <<listing, txn>>
  BY DEF Abis!ApplyManualOverride, Abis!ClearManualOverride
<1>2. AbisTxn' /\ \A j \in AbisIsins : Abis!LatestListed(j)' <=> Abis!LatestListed(j)
  BY <1>1, TxnStays DEF AbisInv, Abis!LatestListed, Abis!Latest
<1>3. CASE \E t \in {"lagerbeskatning", "realisation"} : Abis!ApplyManualOverride(i, t)
  BY <1>1, <1>2, <1>3 DEF Abis!ApplyManualOverride, AbisInv, AbisShape, AbisRows,
     Abis!TreatmentFollowsListing, Abis!OverrideSurvivesImports
<1>4. CASE Abis!ClearManualOverride(i)
  BY <1>1, <1>2, <1>4 DEF Abis!ClearManualOverride, AbisInv, AbisShape, AbisRows,
     Abis!TreatmentFollowsListing, Abis!OverrideSurvivesImports
<1>5. QED
  BY <1>3, <1>4

\* The ABIS list, step by step.
LEMMA AbisStep ==
  ASSUME Abis!AbisConstants, AbisInv, [Abis!Next]_(Abis!abisVars)
  PROVE  AbisInv'
<1>1. CASE \E records \in Lists : Abis!Load(records)
  BY <1>1, LoadKeeps
<1>2. CASE Abis!Commit
  BY <1>2, CommitKeeps
<1>3. CASE Abis!Rollback \/ UNCHANGED Abis!abisVars
  <2>1. UNCHANGED <<listing, treatment, source, chosen, reopened>> /\ (txn' = Abis!NoTxn \/ txn' = txn)
    BY <1>3 DEF Abis!Rollback, Abis!abisVars
  <2>2. AbisTxn'
    BY <2>1, TxnStays DEF AbisInv
  <2>3. QED
    BY <2>1, <2>2 DEF AbisInv, AbisShape, AbisRows, Abis!TreatmentFollowsListing,
       Abis!LatestListed, Abis!Latest, Abis!OverrideSurvivesImports
<1>4. CASE \E i \in AbisIsins :
             \/ \E t \in {"lagerbeskatning", "realisation"} : Abis!ApplyManualOverride(i, t)
             \/ Abis!ClearManualOverride(i)
  BY <1>4, ChoiceKeeps
<1>5. QED
  BY <1>1, <1>2, <1>3, <1>4 DEF Abis!Next
-----------------------------------------------------------------------------
(* The programs together. *)

\* What each program's state is while it runs.
ProgramInv ==
  /\ program = "tax lots" => LotInv
  /\ program = "tax report" => TaxInv
  /\ program = "abis" => AbisInv

\* Every program begins within its invariant.
LEMMA ProgramsBegin == TaxInit => ProgramInv
<1> SUFFICES ASSUME TaxInit PROVE ProgramInv
  OBVIOUS
<1>1. ASSUME program = "tax lots" PROVE LotInv
  <2>1. Lots!Init /\ Lots!LotConstants
    BY <1>1, TaxAssumption DEF TaxInit, Starts
  <2>2. QED
    BY <2>1, LotInit
<1>2. ASSUME program = "tax report" PROVE TaxInv
  <2>1. TaxYears!Init
    BY <1>2 DEF TaxInit, Starts
  <2>2. IsFiniteSet({})
    BY FS_EmptySet
  <2>3. QED
    BY <2>1, <2>2 DEF TaxYears!Init, TaxYears!Empty, TaxInv, TaxShape, Carried, Told
<1>3. ASSUME program = "abis" PROVE AbisInv
  <2>1. Abis!Init
    BY <1>3 DEF TaxInit, Starts
  <2>2. QED
    BY <2>1 DEF Abis!Init, AbisInv, AbisShape, AbisRows, AbisTxn, Abis!TreatmentFollowsListing,
                Abis!LatestListed, Abis!Latest, Abis!OverrideSurvivesImports
<1>4. QED
  BY <1>1, <1>2, <1>3 DEF ProgramInv

\* A step of the programs is one of the program that runs, or none of its.
LEMMA ProgramSteps ==
  ASSUME [TaxNext]_taxProgramVars
  PROVE  /\ program' = program
         /\ program = "tax lots" => [Lots!Next]_(Lots!lotVars)
         /\ program = "tax report" => [TaxYears!Next]_(TaxYears!taxVars)
         /\ program = "abis" => [Abis!Next]_(Abis!abisVars)
<1>1. CASE TaxNext
  BY <1>1 DEF TaxNext
<1>2. CASE UNCHANGED taxProgramVars
  BY <1>2 DEF taxProgramVars, Lots!lotVars, TaxYears!taxVars, Abis!abisVars
<1>3. QED
  BY <1>1, <1>2

\* Every program stays within its invariant.
LEMMA ProgramsKeep == ProgramInv /\ [TaxNext]_taxProgramVars => ProgramInv'
<1> SUFFICES ASSUME ProgramInv, [TaxNext]_taxProgramVars PROVE ProgramInv'
  OBVIOUS
<1>1. program' = program
  BY ProgramSteps
<1>2. ASSUME program = "tax lots" PROVE LotInv'
  <2>1. [Lots!Next]_(Lots!lotVars) /\ LotInv
    BY <1>2, ProgramSteps DEF ProgramInv
  <2>2. QED
    BY <2>1, TaxAssumption, LotStep
<1>3. ASSUME program = "tax report" PROVE TaxInv'
  <2>1. [TaxYears!Next]_(TaxYears!taxVars) /\ TaxInv
    BY <1>3, ProgramSteps DEF ProgramInv
  <2>2. QED
    BY <2>1, TaxAssumption, TaxStep
<1>4. ASSUME program = "abis" PROVE AbisInv'
  <2>1. [Abis!Next]_(Abis!abisVars) /\ AbisInv
    BY <1>4, ProgramSteps DEF ProgramInv
  <2>2. QED
    BY <2>1, TaxAssumption, AbisStep
<1>5. QED
  BY <1>1, <1>2, <1>3, <1>4 DEF ProgramInv

\* The inductive invariant holds throughout, whichever program runs.
THEOREM ProgramInvariance == TaxSpec => []ProgramInv
  BY ProgramsBegin, ProgramsKeep, PTL DEF TaxSpec

\* Every krone paid for shares stays accounted for, as open cost, as cost deducted from
\* a gain or as dust, whatever is bought, sold, split and merged and however averages and
\* ratios round; and the book never holds a negative number of shares (lots.py).
THEOREM CostStays ==
  TaxSpec => [](program = "tax lots" => Lots!TypeOK /\ Lots!CostIsConserved)
<1>1. ProgramInv => (program = "tax lots" => Lots!TypeOK /\ Lots!CostIsConserved)
  BY LotTypes DEF ProgramInv, LotInv
<1>2. QED
  BY <1>1, ProgramInvariance, PTL

\* What a run of years taxes is its high-water mark, accounts are taxed on what they
\* gained as a whole, and the German lump sum stays within growth and deemed yield
\* (tax/report_dk.py, tax/de_vorab.py).
THEOREM YearsAreNetted ==
  TaxSpec => [](program = "tax report" => /\ TaxYears!TaxesHighWaterMark
                                          /\ TaxYears!NettedBeforeTaxed
                                          /\ TaxYears!VorabWithinGrowth)
<1>1. ProgramInv => (program = "tax report" => /\ TaxYears!TaxesHighWaterMark
                                               /\ TaxYears!NettedBeforeTaxed
                                               /\ TaxYears!VorabWithinGrowth)
  BY TaxAssumption, HighWaterMark, Netted, WithinGrowth DEF ProgramInv
<1>2. QED
  BY <1>1, ProgramInvariance, PTL

\* Both together: the run's invariant, for every household and lot book.
THEOREM TaxesStayNetted == TaxSpec => []TaxesAreNetted
<1>1. (program = "tax lots" => Lots!TypeOK /\ Lots!CostIsConserved)
      /\ (program = "tax report" => /\ TaxYears!TaxesHighWaterMark
                                    /\ TaxYears!NettedBeforeTaxed
                                    /\ TaxYears!VorabWithinGrowth)
      => TaxesAreNetted
  BY DEF TaxesAreNetted
<1>2. QED
  BY <1>1, CostStays, YearsAreNetted, PTL

\* A sale leaves the average cost of the remaining shares as it was, up to the
\* rounding of that average on the shares sold (lots.py _apply_sell).
THEOREM SalesKeepAverage == TaxSpec => SaleKeepsAverage
<1>1. ProgramInv /\ [TaxNext]_taxProgramVars
        => [program = "tax lots" => Lots!KeepsAverage]_taxProgramVars
  <2> SUFFICES ASSUME ProgramInv, [TaxNext]_taxProgramVars, program = "tax lots"
               PROVE  Lots!KeepsAverage
    OBVIOUS
  <2>1. [Lots!Next]_(Lots!lotVars) /\ LotInv
    BY ProgramSteps DEF ProgramInv
  <2>2. QED
    BY <2>1, TaxAssumption, AverageStep
<1>2. QED
  BY <1>1, ProgramInvariance, PTL DEF TaxSpec, SaleKeepsAverage

\* A manual override stays until a person clears it, whichever lists are imported and
\* wherever an import fails, and every other treatment follows the newest listing
\* (tax/abis/loader.py).
THEOREM OverridesSurvive == TaxSpec => []OverrideSurvivesImports
<1>1. ProgramInv => OverrideSurvivesImports
  BY DEF ProgramInv, OverrideSurvivesImports, AbisInv, AbisShape, AbisRows, Abis!TypeOK
<1>2. QED
  BY <1>1, ProgramInvariance, PTL
=============================================================================
