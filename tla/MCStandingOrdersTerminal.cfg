CONSTANTS
    Orders = {1}
    Existing = {1}
    a = a
    c1 = c1
    c2 = c2
    c3 = c3
    Members = {a}
    TrigOf <- Wiring
    ActOf <- Wiring
    Terms <- TwoTerms
    Controls = {c1, c2}
    MaxTurns = 4
    MaxAsks = 1
    MaxFaults = 1
SPECIFICATION OrderSpec
CHECK_DEADLOCK FALSE
PROPERTY TerminalIsForGood
