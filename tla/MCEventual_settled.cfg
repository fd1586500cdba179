SPECIFICATION EventualSpec
CONSTANTS
  k1 = k1
  k2 = k2
  Keys = {k1, k2}
  MaxAttempts = 3
  BatchSize = 1
  MaxConcurrent = 1
  MaxRequeues = 1
  MaxFaults = 1
  room = room
  name1 = name1
  employee = employee
  namesake = namesake
  Rooms = {room}
  Names = {name1}
  Matches = {employee, namesake}
  Nothing = Nothing
  FirstRow = Nothing
  MaxFailures = 2
PROPERTIES
  EventuallySettled
  LinkedIsRecovered
CHECK_DEADLOCK FALSE
