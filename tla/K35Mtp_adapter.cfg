SPECIFICATION Spec
CONSTANTS
  p1 = p1
  p2 = p2
  w1 = w1
  w2 = w2
  c1 = c1
  c2 = c2
  None = None
  Procs = {p1}
  Workers = {w1}
  Codecs = {c1}
  NumExperts = 2
  MaxPlan = 2
  Usages <- Replanned
INVARIANTS AdapterAssertsVerified
