\* A worker that is stopped during a scan and comes back.
SPECIFICATION FairSpec
CONSTANTS
  Workers = {w1}
  Mortal = {w1}
  Accounts = {1}
  OrgMembers = {}
  ScanIds = {1, 2}
  MaxClock = 2
  LeaseTtl = 1
  CronPeriod = 1
  NoWorker = NoWorker
PROPERTY
  ScansRunOnSchedule
