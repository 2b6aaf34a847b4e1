SPECIFICATION Spec
CONSTANTS
  Sms = 188
  Calls <- MCCalls
  Plans <- MCPlans
  MaxBlocks = 2
  MaxBound = 1
INVARIANTS
  LaunchFits
  BarrierClean
  ScalesOfCall
  PlannedScratchSuffices
PROPERTIES
  FrozenPoolFixed
