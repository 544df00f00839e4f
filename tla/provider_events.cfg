SPECIFICATION FairSpec
CHECK_DEADLOCK FALSE
CONSTANTS
  Calls = {c1, c2}
  ExecCalls = {}
  Submissions = {c1}
  MaxPages = 1
  MaxDrains = 2
  None = None
PROPERTIES
  ConfirmationsAreHeard
