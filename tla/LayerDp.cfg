SPECIFICATION DpSpec
CONSTANTS
    N = 5
    Budget = 3
    Unreached = Unreached
    Gains <- MeasuredGains
INVARIANTS
    DpTypeOK
    NeverCorrupt
    ExactBudget
    SelectionOptimal
CHECK_DEADLOCK FALSE
