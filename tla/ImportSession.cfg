\* Two overlapping requests of any kind on one session.
SPECIFICATION Spec
CONSTANTS
  r1 = r1
  r2 = r2
  Free = Free
  NoRow = NoRow
  Requests <- MCRequests
  Rows <- MCRows
  MaxEdits = 1
  MaxCrashes = 1
SYMMETRY MCSymmetry
INVARIANTS TypeOK UploadIsKept OnlyReviewedRowsLoaded OverdueIsNeverLoaded CommittedIsLoadedAlone
PROPERTY CommittedIsFinalAlone
