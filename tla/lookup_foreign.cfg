CONSTANTS
  ByteBase = 2
  IdBytes = 3
  RegistryId <- MCRegistryId
  FieldSets <- MCFieldSets
  DappArgs <- MCDappArgs
  Entries <- MCEntries
  ForeignData <- MCForeignData
  TextCut = 2
  SummaryCut = 10
SPECIFICATION CodecSpec
INVARIANT
  ForeignAccountsAreNull
CHECK_DEADLOCK FALSE
