\* The gate: mandates with up to three host grants, of narrow and wide globs, with and without a
\* condition. The chains: two roots, two emissions, one fault. The asks: each sent twice at most.
\* The windows: two things happen while they are read, on one connection. The doors: one hit a window.
CONSTANTS
    rA = rA
    rB = rB
    merge = merge
    push = push
    run = run
    agent = agent
    other = other
    tests = tests
    bot = bot
    sol = sol
    joe = joe
    amy = amy
    who = who
    noName = noName
    loop = loop
    nobody = nobody
    noLoop = noLoop
    node = node
    e1 = e1
    e2 = e2
    h1 = h1
    h2 = h2
    w1 = w1
    w2 = w2
    promote = promote
    presume = presume
    pJoe = pJoe
    pAmy = pAmy
    noPrincipal = noPrincipal
    c1 = c1
    kJoe = kJoe
    kBot = kBot
    m1 = m1
    s1 = s1
    s2 = s2
    s3 = s3
    order = order
    pushing = pushing
    ticket = ticket
    anything = anything
    act1 = act1
    act2 = act2
    redeem = redeem
    tJoe = tJoe
    tToo = tToo
    lBot = lBot
    tool1 = tool1
    tool2 = tool2
    hostOp = hostOp
    here = here
    there = there
    AbstractTypes = {merge}
    HostTypes = {push, run}
    ShellTypes = {run}
    Resources = {rA, rB}
    Globs <- MCGlobs
    Facts = {tests}
    Members = {agent, other}
    MaxGrants = 3
    Bots = {bot, sol}
    People = {joe}
    Names = {sol, bot, who}
    Unnamed = noName
    Matches <- NameOf
    Nobody = nobody
    Granted <- MaySummonWith
    Loops = {loop}
    Fires <- FiresOn
    Summons <- ThenSummons
    Creator <- MadeBy
    NoLoop = noLoop
    MaxRoots = 2
    MaxEmit = 2
    MaxChainFaults = 1
    Asks = {1, 2, node, e1, e2}
    SubjectOf <- ForWhom
    ByOf <- ByWhom
    VerdictsOf <- MaySay
    Mentions = {1, 2}
    Emissions <- Emits
    TurnAsks <- EmittedIds
    Signers = {h1, h2}
    MAX_ACTIONS_PER_TURN = 2
    MaxSends = 2
    MaxAskFaults = 1
    Turns = {w1, w2}
    Promotes = {promote, presume}
    PrincipalOf <- Whose
    Rooted = {w1}
    ItemOf <- Promoted
    ByHuman = {promote}
    Verbatim = {}
    Stores <- Notes
    Conns = {c1}
    Limit = 2
    RecentTurns = 1
    OwnItems = 2
    PromoteItems = 2
    NoPrincipal = noPrincipal
    MaxChanges = 2
    MaxWindowFaults = 0
    HttpCalls = {order, pushing, ticket, anything, act1, act2, redeem, tool1, tool2, hostOp}
    DoorsOf <- Doors
    CredOf <- Shows
    Creds = {kJoe, kBot, tJoe, tToo, lBot}
    KindOf <- Kinds
    AddressOf <- From
    MemberOf <- Holder
    Humans = {joe}
    Machines = {m1}
    MaxHits = 1
    WindowMs = 2
    MaxKeys = 1
    Sockets = {s1, s2, s3}
    TicketFor <- Opens
    ForRoom = {s1, s2}
    Frames <- Sent
    MaxBeats = 3
    MaxClock = 5
SPECIFICATION DoorsSpec
INVARIANTS
    DoorsTypeOK
    VerdictIsMeant
    ChainsHold
    ProposalsHold
    WindowsHold
    DoorsHold
PROPERTIES
    VerdictsMove
\* A proposal that was answered and a turn that was shown its window have nothing left to do.
CHECK_DEADLOCK FALSE
