SPECIFICATION FairSpec
CONSTANTS
  Workers = {w1, w2}
  Regions = {east}
  Scans = {1, 2, 3}
INVARIANTS
  TypeOK
  OutcomeTrue
  DiffChain
  SecretsBorrowed
  FindingsFollow
PROPERTY
  SecretsScrubbed
