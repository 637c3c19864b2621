\* Three posts of the page, a call of the door with its retry or a second call, and an agent's; two documents for a room that holds one, and two calls that take one back, two briefings and a clear; three
\* folds of two processes over six messages; three commitments under two anchors and two damages.
SPECIFICATION Spec
CHECK_DEADLOCK FALSE
CONSTANTS
    u1 = u1
    u2 = u2
    v1 = v1
    v2 = v2
    b1 = b1
    b2 = b2
    k1 = k1
    f1 = f1
    f2 = f2
    f3 = f3
    a1 = a1
    a2 = a2
    d1 = d1
    d2 = d2
    d3 = d3
    d4 = d4
    i1 = i1
    i2 = i2
    i3 = i3
    ann = ann
    joe = joe
    bot = bot
    sol = sol
    who = who
    Uploads = {u1, u2}
    SizeOf <- Size
    RoomCap = 1
    Removals = {v1, v2}
    DocumentOf <- TakenBack
    Sets = {b1, b2}
    Clears = {k1}
    MaxPaperFaults = 1
    Folds = {f1, f2, f3}
    ProcessOf <- Process2
    MaxMessages = 6
    Window = 1
    Trigger = 1
    MaxFold = 3
    Commitments = {1, 2, 3}
    Resolutions = {2}
    Anchors = {a1, a2}
    MaxDamages = 2
    MaxAnchorCrashes = 1
    PagePosts = {1, 2, 3}
    DoorPosts = {d1, d2, d3, d4}
    IdOf <- CallId
    AuthorOf <- Caller
    NamesOf <- NamesIn
    Agents = {bot, sol}
    Bot = bot
    Person = ann
    Stranger = who
    ScanLimit = 2
    TagLimit = 1
    MaxConns = 2
    MaxPostFaults = 1
INVARIANTS
    TypeOK
    PostsHold
    PapersAgree
    MemoryIsWhole
    AuditHolds
