SPECIFICATION FairSpec
CONSTANTS
  Registries = {reg}
  HookPrograms = {ptr}
  ForeignPrograms = {ext}
  Subjects = {ptr}
  Accounts = {a1}
  DefaultProgram = zero
  Names <- NamesEdge
  Metas <- MetasOdd
  Stamps = {0}
  DataCap = 4096
  NA = NA
  NoEntry = NoEntry
  NoCall = NoCall
INVARIANTS
  TypeOK
  EntryMatchesPda
  ChainedCallsNameTheirCaller
PROPERTIES
  OnlyTheProgramWritesItsDeployerEntry
  OnlyTheAuthorWritesItsAttestation
  BookSpec
  HookRegistrationLands
