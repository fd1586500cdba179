SPECIFICATION Spec
CONSTANTS
  r1 = r1
  r2 = r2
  None = None
  Rules = {r1, r2}
  Horizon = 3
  TickLimit = 1
  MaxToggles = 1
  MaxFaults = 1
INVARIANTS
  RepeatedOnlyByFault
  FiringsAreAnswered
  CatchesUpOnce
PROPERTIES
  DueIsServed
CHECK_DEADLOCK FALSE
