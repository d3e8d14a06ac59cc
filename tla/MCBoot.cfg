CONSTANTS
  p1 = p1
  p2 = p2
  Processes = {p1, p2}
  Tables = 2
  Version = Version
  Old = Old
  Configured = Configured
  Nobody = Nobody
  MaxCrashes = 1
  MaxDeletes = 1
  MaxEdits = 2

SPECIFICATION MCSpec

INVARIANT
  ServesAWholeDatabase

PROPERTY
  ComesUpAndRepairs

CHECK_DEADLOCK FALSE
