SPECIFICATION Spec
CONSTANTS
  None = None
  old = old
  new = new
  ann = ann
  bob = bob
  plain = plain
  forAnn = forAnn
  forSome = forSome
  Several = Several
  Keys = {old, new}
  InitialTasks <- MCInitialTasks
  Employees = {ann}
  Texts = {forAnn, forSome}
  Named <- MCNamed
  Views = {"MenuHelp"}
  MaxEvents = 2
INVARIANTS
  PromptsMatchSession
  ButtonsAreAlive
  FinishedDraftsAreClosed
PROPERTIES
  GuidedTextWasShown
VIEW ScreensView
CHECK_DEADLOCK FALSE
