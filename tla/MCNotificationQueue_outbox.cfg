SPECIFICATION Spec
CONSTANTS
  k1 = k1
  k2 = k2
  k3 = k3
  Keys = {k1, k2, k3}
  MaxAttempts = 2
  BatchSize = 2
  MaxConcurrent = 2
  MaxRequeues = 1
  MaxFaults = 1
INVARIANTS
  CopiesAreCurrent
  RepeatedOnlyIfUnrecorded
  GivenUpForCause
PROPERTIES
  KeepsPromise
SYMMETRY Symmetry
CHECK_DEADLOCK FALSE

