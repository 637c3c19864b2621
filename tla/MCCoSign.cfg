\* Three calls on a twice-asked summon and a write, with faults, a restart and a changed mandate.
CONSTANTS
    summonA = summonA
    summonB = summonB
    write = write
    merge = merge
    turn = turn
    post = post
    nothing = nothing
    c1 = c1
    c2 = c2
    c3 = c3
    c4 = c4
    h1 = h1
    h2 = h2
    Decisions = {summonA, summonB, write}
    Kind <- MCKind
    Things = {turn, post}
    ThingOf <- MCThingOf
    Calls = {c1, c2, c3}
    Asked = {c1, c2, c3}
    Faulty = {c1, c2, c3}
    Mandates = {h1, h2}
    MaxRestarts = 1
SPECIFICATION Spec
SYMMETRY CallSymmetry
INVARIANTS
    ReleaseInHand
    RecordsAreEarned
PROPERTIES
    OneShot
    AnsweredAsRuled
\* The calls are finitely many: a room nobody signs in any more is not a deadlock.
CHECK_DEADLOCK FALSE
