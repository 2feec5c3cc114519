\* Two movements, two merchants, two categories, one open form, four writes.
SPECIFICATION Spec
CONSTANTS
  t1 = t1
  t2 = t2
  l1 = l1
  m1 = m1
  m2 = m2
  c1 = c1
  c2 = c2
  e1 = e1
  None = None
  Txns <- MCTxns
  Fresh <- MCFresh
  Labels <- MCLabels
  Merchants <- MCMerchants
  Cats <- MCCats
  IncomeCats = {}
  Amounts <- MCAmounts
  Editors <- MCEditors
  Opening <- MCOpening
  MaxWrites = 4
INVARIANTS TypeOK RuleWorkIsCurrent ConservesSource ActiveIsUnanimous
PROPERTIES DecisionsAreSeen AppliedAsPreviewed
CHECK_DEADLOCK FALSE
SYMMETRY MCSymmetry
