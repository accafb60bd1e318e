\* One worker that stays up, two accounts that share its queue, one of them a
\* member of the organization.
SPECIFICATION FairSpec
CONSTANTS
  Workers = {w1}
  Mortal = {}
  Accounts = {1, 2}
  OrgMembers = {1}
  ScanIds = {1, 2}
  MaxClock = 2
  LeaseTtl = 1
  CronPeriod = 1
  NoWorker = NoWorker
PROPERTIES
  EveryScanSettles
  DueAccountIsScanned
