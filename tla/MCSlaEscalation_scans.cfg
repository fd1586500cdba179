SPECIFICATION Spec
CONSTANTS
  t1 = t1
  t2 = t2
  u1 = u1
  None = None
  Tasks = {t1, t2}
  Users = {u1}
  Days = 3
  ScanLimit = 1
  MaxEdits = 1
  MaxFaults = 1
INVARIANTS
  LevelsAreEscalated
PROPERTIES
  LevelsOnlyRise
  OverdueIsSeen
CHECK_DEADLOCK FALSE
