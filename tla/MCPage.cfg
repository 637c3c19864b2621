\* Two rows of the past, two to come, a lost connection, a restart, a failed open, a replayed send.
\* The stories of a room, with two presses: a card, a blocked action, an interrupt, turns, a task, an order.
CONSTANTS
    MaxSeq = 4
    Past = 2
    Floor = 1
    PageSize = 1
    Costly <- MCCostly
    MaxFaults = 2
    joe = joe
    jan = jan
    amy = amy
    sol = sol
    ours = ours
    theirs = theirs
    nobody = nobody
    card = card
    block = block
    chip = chip
    reply = reply
    job = job
    routine = routine
    said = said
    route = route
    brief = brief
    Viewers = {joe, jan, amy, sol}
    Persons = {joe, jan, amy}
    Side <- Sides
    Cards = {card, block}
    SignerOf <- Signs
    NoSigner = nobody
    Chips = {chip}
    Addressee <- ToldTo
    Replies = {reply}
    Jobs = {job}
    Routines = {routine}
    MakerOf <- Made
    Lines = {said}
    Unlisted = {route}
    Tools = {brief}
    Stories <- StoriesOf
    WatchedBy <- Watched
    RunBy <- Run
    MaxRecord = 5
    MaxPieces = 2
    MaxClicks = 2
SPECIFICATION PageSpec
INVARIANTS
    OpenSocketMissesNothing
    GapsHaveACause
    MeterNeverLow
    CursorIsShown
    ScreensHold
PROPERTIES
    CatchesUp
\* The rows are finitely many: a quiet room is not a deadlock.
CHECK_DEADLOCK FALSE
