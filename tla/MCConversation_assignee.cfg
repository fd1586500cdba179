SPECIFICATION Spec
CONSTANTS
  None = None
  old = old
  new = new
  ann = ann
  bob = bob
  plain = plain
  forAnn = forAnn
  forSome = forSome
  Several = Several
  Keys = {old, new}
  InitialTasks <- MCInitialTasks
  Employees = {ann, bob}
  Texts = {plain, forAnn, forSome}
  Named <- MCNamed
  Views = {}
  MaxEvents = 1
PROPERTY
  AssignedAsShown
CHECK_DEADLOCK FALSE
