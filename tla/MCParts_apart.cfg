SPECIFICATION MCSpec
CONSTANTS
  ann = ann
  bob = bob
  h1 = h1
  h2 = h2
  h3 = h3
  chat1 = chat1
  chat2 = chat2
  m1 = m1
  m2 = m2
  m3 = m3
  t1 = t1
  t2 = t2
  x = x
  y = y
  Chats = {chat1, chat2}
  Updates = {m1, m2, m3}
  ChatOf <- MCChatOf
  Workers = {h1, h2}
  Capacity = 2
  NoUpdate = NoUpdate
  MaxEffects = 2
  MaxDeliveries = 2
  MaxRestarts = 1
  Rooms = {h1, h2}
  Names = {x, y}
  Matches = {x, y}
  Nothing = Nothing
  FirstRow = Nothing
  MaxFailures = 1
  Staff = {ann, bob}
  Chores = {t1, t2}
  Author <- MCAuthor
  DueOn <- MCDueOn
  Nobody = Nobody
  FetchLimit = 1
  AlertEvery = 2
  LastDay = 3
  MaxChanges = 2
  MaxStops = 1
  Callers = {h1, h2, h3}
  Threshold = 2
  OpenFor = 2
  MaxAttempts = 3
  LastTick = 5
  MaxCalls = 4
  Clients = {h1, h2, h3}
  Files = {x, y}
  MaxRuns = 5
  LastTask = 3
  PageSize = 1
  MaxMoves = 1
  Shapes <- MCShapes
  TaskUids = {t1, t2}
  Numbers = {"17", "42"}
  Nonces = {t1}
  Flags = {t2}
  NoCursor = NoCursor
INVARIANTS
  ChatsAreSerial
  HandledOnce
  ToldOnce
  EveryoneIsTold
  ServiceIsSpared
  OneStart
  ListedExactlyOnce
  ButtonsMeanWhatTheySay
PROPERTIES
  AnswersAreKept
SYMMETRY Symmetry
CHECK_DEADLOCK FALSE
