SPECIFICATION Spec
CONSTANTS
  r1 = r1
  r2 = r2
  Reqs <- TwoReqs
  Configs <- DraftConfigs
  None = None
  Null = Null
  Pad = Pad
  Stale = Stale
  Junk = Junk
INVARIANTS DraftReadsItsContext ContextKept ProposalsAreOwn AttentionPlanned
SYMMETRY Symmetry
