SPECIFICATION StoresSpec
CONSTANTS
  Devices = {d1, pwa}
  ViewOnly = {pwa}
  Enrollments = {e1, e2}
  MaxLost = 1
  None = None
  Procs = {p1, p2, p3}
  Wallets = {w1, w2}
  Labels = {l1, l2}
  Absent = Absent
  Empty = Empty
  Garbled = Garbled
  PwaCalls = {c1, c2, c3}
  a1 = a1
  a2 = a2
  a3 = a3
  blob1 = blob1
  blob2 = blob2
  Ids = {a1, a2, a3}
  Blobs = {blob1, blob2}
  AccountsOf <- MCAccountsOf
  NoRecord = NoRecord
SYMMETRY Symmetry
INVARIANTS
  StoresTypeOK
  AccountsSurvive
  AccountsAreHandedOutOnce
  UnreadableHasReason
  RecordsBelongTogether
  WatchedStaysListed
  RestoredWithItsOwnShares
  ReadyMeansBackedUp
  FailureHasReason
CHECK_DEADLOCK FALSE
