SPECIFICATION Spec
CONSTANT Cases <- MCCases
INVARIANTS
  RaceFree
  TileExact
