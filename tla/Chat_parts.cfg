CONSTANTS
  chat = chat
  other = other
  Paths = {chat, other}
  Limit <- TwoLimits
  Window <- OneWindow
  Modes = {"sliding", "token", "fixed", "redis"}
  Pending = {a, b}
  Asked <- AskedFor
  MaxTime <- Horizon
  MaxPerTick = 3
  c1 = c1
  c2 = c2
  a1 = a1
  a2 = a2
  a3 = a3
  a4 = a4
  a5 = a5
  Clients <- TwoClients
  Addresses <- FiveAddresses
  SessionIds <- ThreeIds
  Agents <- CoreAndPricing
  Queries <- SomeQueries
  MaxSessions = 2
  MaxTurns = 3
SPECIFICATION ChatSpec
SYMMETRY Interchangeable
INVARIANTS
  LimitsHold
  RetryAfterIsEnough
  TurnsAreSound
PROPERTIES
  ToolsUsedIsHonest
  CountIsOfTheSession
  HistoriesAreKept
CHECK_DEADLOCK FALSE
