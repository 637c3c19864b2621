\* Small instances of each: two standing orders over four turns with two commands and a fault, three
\* raises over two days, two notifications to two devices, three
\* token requests over two grants, one lease with two operations and two reports, two codes for one
\* seat and three people, a browser with two open pages and one code.
SPECIFICATION Spec
CHECK_DEADLOCK FALSE
CONSTANTS
    c1 = c1
    c2 = c2
    c3 = c3
    d1 = d1
    bot = bot
    x = x
    y = y
    n1 = n1
    n2 = n2
    p1 = p1
    p2 = p2
    g1 = g1
    g2 = g2
    t1 = t1
    t2 = t2
    t3 = t3
    k1 = k1
    l1 = l1
    o1 = o1
    o2 = o2
    q1 = q1
    q2 = q2
    m1 = m1
    m2 = m2
    r1 = r1
    r2 = r2
    r3 = r3
    h1 = h1
    h2 = h2
    guest = guest
    amy = amy
    e1 = e1
    e2 = e2
    u1 = u1
    u2 = u2
    s1 = s1
    prince = prince
    Orders = {1, 2}
    Existing = {1}
    Members = {amy}
    TrigOf <- Wiring
    ActOf <- Wiring
    Terms <- TwoTerms
    Controls = {e1, e2}
    MaxTurns = 4
    MaxAsks = 2
    MaxFaults = 1
    Calls = {c1, c2, c3}
    Raisers = {bot}
    Abouts = {x, y}
    Humans = {1, 2}
    AboutOf <- Subject
    RaiserOf <- RaisedBy
    UrgencyOf <- Urgency
    Limit = 1
    Lowerings = {d1}
    MaxDays = 1
    MaxIntCrashes = 1
    Principals = {p1, p2}
    Endpoints = {1, 2}
    Allowed = {1}
    Notices = {n1, n2}
    PrincipalOf <- Whose
    Throttle = 1
    MaxHours = 1
    MaxPushFaults = 1
    Grants = {g1, g2}
    TokenCalls = {t1, t2, t3}
    McpCalls = {k1}
    Pairs = {1, 2, 3}
    MaxLogouts = 1
    LeaseIds = {l1}
    HostOps = {o1, o2}
    Needs <- Asks
    Reports = {q1, q2}
    Passed = {q1}
    MaxTicks = 1
    Mints = {m1, m2}
    SeatOf <- ForSeat
    Redeems = {r1, r2, r3}
    CodeOf <- Presents
    MaxFailures = 1
    Posts = {h1, h2}
    Guests = {guest}
    Tabs = {u1, u2}
    Sessions = {s1}
    Deployments = {prince, NoToken}
    NoToken = NoToken
    MaxAddresses = 1
    MaxBrowserFaults = 1
INVARIANTS
    TypeOK
    BoundsHold
    InterruptsHold
    DevicesHold
    GrantIsOneChain
    LeaseIsTrue
    SeatsHold
PROPERTIES
    WhatEndsStaysEnded
