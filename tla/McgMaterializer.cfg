SPECIFICATION FairPackSpec
CONSTANTS
  p1 = p1
  p2 = p2
  NoFile = NoFile
  Packers = {p1, p2}
  NumShards = 2
  Routed <- FirstRouted
  MaxVersion = 3
  PackUsages <- AloneOrPair
INVARIANTS CompleteIsExact
PROPERTIES CompleteIsFinal PackStopsForCause
CHECK_DEADLOCK FALSE
