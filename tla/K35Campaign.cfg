SPECIFICATION FairSpec
CONSTANTS
  w1 = w1
  w2 = w2
  p1 = p1
  p2 = p2
  Workers = {w1, w2}
  Procs = {p1, p2}
  NoClaim = NoClaim
  Plan = 1
  NumLayers = 2
  NumExperts = 2
  WorkerOf <- OwnIds
  Usages = {TRUE, FALSE}
  MaxRecoverySeq = 3
INVARIANTS TypeOK Census SameLayerSameClaim NeverRefused CompletedIntact
PROPERTIES LedgerSpec EveryLayerCompletes
