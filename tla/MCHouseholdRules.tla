--------------------------- MODULE MCHouseholdRules ---------------------------
(* An instance of HouseholdRules for TLC: one movement the bank has sent    *)
(* and one it may send later, one label, two merchants, two categories of   *)
(* spending, one open form.                                                 *)
EXTENDS HouseholdRules, TLC
CONSTANTS t1, t2, l1, m1, m2, c1, c2, e1
MCTxns == {t1, t2}
MCFresh == {t2}
MCLabels == {l1}
MCMerchants == {m1, m2}
MCCats == {c1, c2}
MCAmounts == {-2, -3}
MCOpening == -2
MCEditors == {e1}
MCSymmetry == Permutations(MCMerchants) \cup Permutations(MCCats)
=============================================================================
