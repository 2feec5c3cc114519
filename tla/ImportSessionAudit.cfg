\* The audit claim, with overlapping requests.
SPECIFICATION Spec
CONSTANTS
  r1 = r1
  r2 = r2
  Free = Free
  NoRow = NoRow
  Requests <- MCRequests
  Rows <- MCRows
  MaxEdits = 1
  MaxCrashes = 1
SYMMETRY MCSymmetry
PROPERTY CommittedIsFinal
