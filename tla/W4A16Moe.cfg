SPECIFICATION Spec
CONSTANTS
  CtaIds <- MCCtaIds
  SenseWidth = 2
  Launches <- MCLaunches
  Cap = 3
  MaxLaunches = 2
INVARIANTS ResultExact WorkspaceClean
PROPERTIES ImplementsPhases KernelCompletes
