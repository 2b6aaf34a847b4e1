SPECIFICATION FairSpec
CONSTANTS
  w1 = w1
  w2 = w2
  p1 = p1
  p2 = p2
  Workers = {w1, w2}
  Procs = {p1, p2}
  WorkerOf <- OwnIds
  NoClaim = NoClaim
  Recoverer = Recoverer
  Free = Free
  NumLayers = 1
  Usages = {TRUE, FALSE}
  InOrder = TRUE
  MaxPlan = 2
  MaxSeq = 4
INVARIANTS ChainLinked CompletedOnDisk
PROPERTIES AppendOnly RecoveryUnwedges
