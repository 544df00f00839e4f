SPECIFICATION Spec
CONSTANTS
  Tasks = {t1}
  Seeds = {s1}
  Items = {i1}
  BaseItems = {root}
  Torn = Torn
  NoVault = NoVault
  Nothing = Nothing
PROPERTIES
  OnboardingMeansNoVault
