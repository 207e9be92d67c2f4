SPECIFICATION Spec
CONSTANTS
  c1 = c1
  c2 = c2
  Calls = {c1, c2}
  Docs = {"d1", "d2", "d3"}
  Queries = {"q", "r"}
  Content <- MCContent
  Tag <- MCTag
  Score <- MCScore
  Limit = 1
  IndexLimit = 3
  MaxChanges = 2
SYMMETRY MCSymmetry
INVARIANTS
  RankingIsSound
  TopHitSurvives
  BuiltTwiceOnlyByOverlap
CHECK_DEADLOCK FALSE
