SPECIFICATION CallsSpec
CHECK_DEADLOCK FALSE
CONSTANTS
  ByteBase = 2
  IdBytes = 3
  RegistryId <- MCRegistryId
  FieldSets <- MCFieldSets
  DappArgs <- MCDappArgs
  Entries <- MCEntries
  ForeignData <- MCForeignData
  TextCut = 2
  SummaryCut = 10
  Requests = {r1, r2, r3}
  Programs = {p1, p2}
  Registered = {p1}
  TTL = 1
  MaxTime = 3
  MaxOutstanding = 3
  None = None
  Seeds = {s1, s2}
  KeyLens = {0, 32, 33}
  Users = {u1, u2}
  Payloads <- PayloadsEdge
  MaxInFlight = 2
  NoRecord = NoRecord
INVARIANTS
  TypeOK
  NothingRunsUnapproved
  ShownIsUndecided
  BuiltCallsReachTheirGuest
  ModalShowsWhatIsSigned
  LookupIsTheEntryOrNull
PROPERTIES
  OnlyAnotherRequestSilencesOne
  BookSpec
