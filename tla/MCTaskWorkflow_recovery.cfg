SPECIFICATION Spec
CONSTANTS
  None = None
  creator = creator
  ann = ann
  bob = bob
  boss = boss
  recordA = recordA
  recordB = recordB
  h1 = h1
  h2 = h2
  Users <- MCUsers
  Employees <- MCEmployees
  Role <- MCRole
  Resolutions <- MCResolutions
  Accounts <- MCReturning
  Requestable <- MCCancelOnly
  Creator <- creator
  Handlers = {h1, h2}
  Ops = {"create", "status", "reassign", "link", "deliver"}
  MaxVersion = 2
  MaxComments = 1
  MaxFaults = 1
SYMMETRY Symmetry
INVARIANTS
  AssigneeMatchesDirectory
  AssigneeNotified
PROPERTIES
  TerminalFrozen
