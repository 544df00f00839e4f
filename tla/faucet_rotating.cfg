SPECIFICATION FairSpec
CHECK_DEADLOCK FALSE
CONSTANTS
  Claims = {c1}
  Accounts = {a1}
  Signable = {a1}
  PRIZE = 3
  MAX_STALE_RETRIES = 1
  Unsupported = {2}
  Amounts = {3}
  InitialPool = 6
  MaxRotations = 2
  MaxTransfers = 2
INVARIANTS
  RotatingMeansOthersClaimed
