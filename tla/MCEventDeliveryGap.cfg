\* A connection lost while its replay is under way.
CONSTANTS
    MaxSeq = 4
    Past = 2
    Floor = 1
    PageSize = 1
    Costly <- MCCostly
    MaxFaults = 1
SPECIFICATION Spec
INVARIANT DroppedSocketLosesNothing
CHECK_DEADLOCK FALSE
