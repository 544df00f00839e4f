SPECIFICATION FairSpec
CHECK_DEADLOCK FALSE
CONSTANTS
  Claims = {c1, c2}
  Accounts = {a1, a2}
  Signable = {a1}
  PRIZE = 3
  MAX_STALE_RETRIES = 1
  Unsupported = {2}
  Amounts = {3}
  InitialPool = 6
  MaxRotations = 2
  MaxTransfers = 1
INVARIANTS
  TypeOK
  OneDropPerClaim
  RefusalsAreFinal
  GivesUpOnlyWhenDisturbed
  OkMeansPaid
PROPERTIES
  EveryClaimEnds
