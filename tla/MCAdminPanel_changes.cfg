SPECIFICATION Spec
CONSTANTS
  u1 = u1
  u2 = u2
  h1 = h1
  h2 = h2
  None = None
  Users = {u1, u2}
  Configured = {u1}
  Handlers = {h1, h2}
  MaxUpdates = 4
  MaxFaults = 1
INVARIANTS
  ConfirmedOnce
  ChangesAreLogged
  FlagInForceIsStored
PROPERTIES
  AdminRemains
SYMMETRY Symmetry
CHECK_DEADLOCK FALSE
