SPECIFICATION FairSpec
CONSTANTS
  f1 = f1
  f2 = f2
  acct = acct
  east = east
  Workers = {w1, w2}
  Accounts = {acct}
  Findings = {f1}
  Owner <- OfAcct
  Home <- EastAndGlobal
  Regions = {east}
  SupIds = {1}
  MaxClock = 2
INVARIANTS
  TypeOK
  RowsAgree
  HistoryInOrder
  SuppressionsInForce
PROPERTIES
  SeenGrows
  LapsedReopens
