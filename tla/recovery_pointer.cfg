SPECIFICATION Spec
CONSTANTS
  Devices = {d1}
  ViewOnly = {}
  Enrollments = {e1}
  MaxLost = 1
  None = None
INVARIANTS
  PublishedPointerResolves
