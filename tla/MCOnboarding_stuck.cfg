SPECIFICATION OnboardingSpec
CONSTANTS
  room = room
  name1 = name1
  name2 = name2
  employee = employee
  Rooms = {room}
  Names = {name1, name2}
  Matches = {employee}
  Nothing = Nothing
  FirstRow <- MCLegacy
  MaxFailures = 0
PROPERTIES
  NobodyIsStuck
CHECK_DEADLOCK FALSE
