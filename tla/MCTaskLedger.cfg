\* Five commands, any three at once, with two crashes.
CONSTANTS
    s1 = s1
    s2 = s2
    turn = turn
    h1 = h1
    h2 = h2
    alice = alice
    bob = bob
    Members = {alice, bob}
    Origin = alice
    Commands = {s1, s2, turn, h1, h2}
    Kind <- MCKind
    MaxActive = 3
    MaxCrashes = 2
SPECIFICATION Spec
INVARIANTS
    RowFromLog
    CreatedOnce
    QuietHistory
PROPERTIES
    HolderMovesByHandoff
\* The commands are finitely many: a task nobody touches any more is not a deadlock.
CHECK_DEADLOCK FALSE
