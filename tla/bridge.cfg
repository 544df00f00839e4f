SPECIFICATION FairSpec
CHECK_DEADLOCK FALSE
CONSTANTS
  Calls = {c1, c2}
  ExecCalls = {c1}
  Submissions = {c2}
  MaxPages = 2
  MaxDrains = 2
  None = None
INVARIANTS
  TypeOK
  AnswersFindTheirCall
  OutcomesAreTrue
PROPERTIES
  ServiceSpec
  EveryCallSettles
