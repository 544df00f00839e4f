SPECIFICATION FairSpec
CONSTANTS
  Tasks = {t1, t2}
  Seeds = {s1, s2}
  Items = {i1, i2}
  BaseItems = {root}
  Torn = Torn
  NoVault = NoVault
  Nothing = Nothing
INVARIANTS
  TypeOK
  ConfirmedWritesAreStored
  SessionHoldsTheStoredVault
PROPERTIES
  EveryCallSettles
