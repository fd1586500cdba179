SPECIFICATION Spec
CONSTANTS
  None = None
  creator = creator
  ann = ann
  bob = bob
  boss = boss
  recordA = recordA
  recordB = recordB
  h1 = h1
  h2 = h2
  Users <- MCTeam
  Employees <- MCEmployees
  Role <- MCTeamRole
  Resolutions <- MCTeamResolutions
  Accounts <- MCNoAccounts
  Requestable <- MCRequestable
  Creator <- creator
  Handlers = {h1, h2}
  Ops = {"create", "status", "block", "reassign"}
  MaxVersion = 3
  MaxComments = 1
  MaxFaults = 0
SYMMETRY Symmetry
INVARIANTS
  NoInheritedProgress
  OffersAgreeWithUseCases
  OnlyApproversComplete
  AuditFaithful
PROPERTIES
  ImplementsBoard
