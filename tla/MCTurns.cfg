\* Three turns of one member and one of another; the second success reaches the ceiling.
\* Three calls on a write and on an action nobody can execute.
CONSTANTS
    t1 = t1
    t2 = t2
    t3 = t3
    t4 = t4
    m1 = m1
    m2 = m2
    Turns = {t1, t2, t3, t4}
    Members = {m1, m2}
    Faulty = {t1}
    MemberOf <- MCMemberOf
    Ceiling = 2
    MaxRestarts = 1
    write = write
    merge = merge
    post = post
    nothing = nothing
    c1 = c1
    c2 = c2
    c3 = c3
    h1 = h1
SPECIFICATION TurnsSpec
INVARIANTS
    SlotHasTurn
    EndsAreTold
    ContinuedOnce
PROPERTIES
    CeilingCloses
    SlotFreed
    AnswersSettle
\* Every turn ends and the calls are finitely many: a finished room is not a deadlock.
CHECK_DEADLOCK FALSE
