SPECIFICATION Spec
CONSTANTS
  Sms = 188
  Calls <- MeasuredCalls
  Plans <- MeasuredPlans
  MaxBlocks = 2
  MaxBound = 1
INVARIANTS
  PlannedScratchSuffices
