\* Two workers that may crash or be stopped at any point, one account that may
\* be deleted and registered again under them.
SPECIFICATION Spec
CONSTANTS
  Workers = {w1, w2}
  Mortal = {w1, w2}
  Accounts = {1}
  OrgMembers = {}
  ScanIds = {1, 2}
  MaxClock = 3
  LeaseTtl = 1
  CronPeriod = 2
  NoWorker = NoWorker
SYMMETRY WorkerSymmetry
INVARIANTS
  TypeOK
  RunningRowIsHeld
  NoSharedLiveScan
  LeaseExclusive
PROPERTY
  LedgerSpec
