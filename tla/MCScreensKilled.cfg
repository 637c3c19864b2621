\* The stories of a room, with two presses: a card, a blocked action, an interrupt, turns, a task, an order.
CONSTANTS
    joe = joe
    jan = jan
    amy = amy
    sol = sol
    ours = ours
    theirs = theirs
    nobody = nobody
    card = card
    block = block
    chip = chip
    reply = reply
    job = job
    routine = routine
    said = said
    route = route
    brief = brief
    Viewers = {joe, jan, amy, sol}
    Persons = {joe, jan, amy}
    Side <- Sides
    Cards = {card, block}
    SignerOf <- Signs
    NoSigner = nobody
    Chips = {chip}
    Addressee <- ToldTo
    Replies = {reply}
    Jobs = {job}
    Routines = {routine}
    MakerOf <- Made
    Lines = {said}
    Unlisted = {route}
    Tools = {brief}
    Stories <- StoriesOf
    WatchedBy <- Watched
    RunBy <- Run
    MaxRecord = 5
    MaxPieces = 2
    MaxClicks = 2
SPECIFICATION ScreensSpec
INVARIANTS
    LiveRoomIsNotKilled
CHECK_DEADLOCK FALSE
