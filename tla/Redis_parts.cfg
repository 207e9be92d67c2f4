CONSTANTS
  k1 = k1
  k2 = k2
  Keys = {k1, k2}
  Tasks = {t1, t2}
  Prefix <- TwoPrefixes
  MaxVersion = 2
  L1Size = 1
  Users = {u1, u2}
  Dicts = {d1, d2, d3}
  MaxMessages = 2
  MaxAdds = 3
SPECIFICATION RedisSpec
INVARIANTS
  TiersAreSound
  HistoriesAreSound
  HistoryInOrder
PROPERTIES
  EventuallyCurrent
CHECK_DEADLOCK FALSE
