SPECIFICATION FairSpec
CONSTANTS
  p1 = p1
  p2 = p2
  w1 = w1
  w2 = w2
  c1 = c1
  c2 = c2
  None = None
  Procs = {p1, p2}
  Workers = {w1, w2}
  Codecs = {c1, c2}
  NumExperts = 2
  MaxPlan = 2
  Usages <- PlainOrMixed
INVARIANTS QualifiedOnDisk QualifiedForPlan SealedByOneClaim
PROPERTIES MtpQualifies
