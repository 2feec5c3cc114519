\* Two links, two overlapping requests, two history windows, one restart.
SPECIFICATION Spec
CONSTANTS
  k1 = k1
  k2 = k2
  r1 = r1
  r2 = r2
  a1 = a1
  a2 = a2
  None = None
  BadCode = BadCode
  Conns <- MCConns
  Requests <- MCRequests
  Accounts <- MCAccounts
  Windows = 2
  MaxCrashes = 1
INVARIANTS TypeOK AuthorizedHasSession SpentConsentIsStored StatusTellsSessionAlone SyncCoversAllAccounts
