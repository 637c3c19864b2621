\* Three turns of one member: the tail of the first frees the slot of the second.
CONSTANTS
    t1 = t1
    t2 = t2
    t3 = t3
    t4 = t4
    m1 = m1
    m2 = m2
    Turns = {t1, t2, t3}
    Members = {m1}
    Faulty = {}
    MemberOf <- MCSameMember
    Ceiling = 2
    MaxRestarts = 0
SPECIFICATION Spec
INVARIANTS
    OneTurnPerMember
\* Every turn ends: a finished room is not a deadlock.
CHECK_DEADLOCK FALSE
