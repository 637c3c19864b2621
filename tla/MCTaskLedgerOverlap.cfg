\* A summon, a turn and a handoff, no crash: overlapping is enough.
CONSTANTS
    s1 = s1
    s2 = s2
    turn = turn
    h1 = h1
    h2 = h2
    alice = alice
    bob = bob
    Members = {alice, bob}
    Origin = alice
    Commands = {s1, turn, h1}
    Kind <- MCHandover
    MaxActive = 2
    MaxCrashes = 0
SPECIFICATION Spec
INVARIANT RowIsRebuildable
CHECK_DEADLOCK FALSE
