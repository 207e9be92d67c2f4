CONSTANTS
  c1 = c1
  c2 = c2
  c3 = c3
  c4 = c4
  f1 = f1
  f2 = f2
  Clients <- FourTasks
  MaxSize = 3
  MaxPolls = 2
  NoOne = NoOne
  Callers <- ThreeTasks
  FlightKeys <- TwoFlights
  Cancellable <- ThreeTasks
  MaxFlights = 2
  Requesters <- FourTasks
  Threshold = 2
  Recovery = 2
  MaxFailures = 5
  Keys = {k1, k2, k3}
  Values = {v1, v2}
  Missing = Missing
  L1Size = 2
  MaxUses = 5
SPECIFICATION SharedSpec
INVARIANTS
  PoolIsSound
  OneHolderPerConnection
  SlotsAccounted
  RegistryIsSound
  OneLeaderPerKey
  TakenKeyIsLed
  OutcomeIsShared
  StateMatchesCount
  DictionaryIsSound
PROPERTIES
  WaitEnds
  LockIsFreed
  LeaseSpec
  WaiterReturns
  Recovers
  EvictsLeastRecent
CHECK_DEADLOCK FALSE
