------------------------------- MODULE Screens -------------------------------
(***************************************************************************)
(* What the people of a room see and can press: the room page's fold of    *)
(* the events it holds into items (apps/web/app/r/[id]/Room.tsx), the      *)
(* controls on a decision's card, on an interrupt's chip and on the page   *)
(* of standing orders (DecisionCard.tsx, InterruptChip.tsx,                *)
(* loops/LoopsScreen.tsx), the frames they send, and what the page does    *)
(* with a refusal (refusals.ts).                                           *)
(*                                                                         *)
(* Abstracted: a command is one step of the server, since CoSign,          *)
(* Interrupts and StandingOrders have its awaits; events reach a page in   *)
(* any order, since EventDelivery has the reasons; the mandate a decision  *)
(* was ruled on stays in force (CoSign has the restart that changes it);   *)
(* of what an item shows, its text, state, resolution, urgency or status.  *)
(***************************************************************************)
EXTENDS Naturals, Sequences, FiniteSets, SequencesExt

CONSTANTS
    Viewers,        \* the members who look at the room, each with one page
    Persons,        \* the ones of kind human
    Side,           \* [Viewers -> principals]
    Cards,          \* decisions
    SignerOf,       \* [Cards -> principals, or NoSigner for what nobody can sign]
    NoSigner,
    Chips,          \* interrupts
    Addressee,      \* [Chips -> Viewers]
    Replies,        \* turns of agents
    Jobs,           \* tasks
    Routines,       \* standing orders
    MakerOf,        \* [Routines -> Viewers]
    Lines,          \* what is a row of its own: messages, promotions, briefings, summons of agents
    Unlisted,       \* what gets no row: summons of humans, routes, summaries, documents
    Tools,          \* frames of the room tools: a briefing, a document
    Stories,        \* sets of things; a behaviour is about one of them
    WatchedBy,      \* [Stories -> sets of viewers]: who has the page of the room
    RunBy,          \* [Stories -> sets of viewers]: who has the page of standing orders
    MaxRecord,      \* bound: the events of the room
    MaxPieces,      \* bound: the pieces of a turn's text
    MaxClicks       \* bound: what the viewers press

Things == Cards \cup Chips \cup Replies \cup Jobs \cup Routines \cup Lines \cup Unlisted

ASSUME ScreensAssumption ==
    /\ Persons \subseteq Viewers
    /\ \A i \in Chips : Addressee[i] \in Viewers
    /\ \A o \in Routines : MakerOf[o] \in Viewers
    /\ \A s \in Stories : s \subseteq Things /\ WatchedBy[s] \subseteq Viewers /\ RunBy[s] \subseteq Viewers
    /\ MaxRecord \in Nat /\ MaxPieces \in Nat /\ MaxClicks \in Nat
\* A thing is of one kind and not the row of a transfer, and no member is the nobody who cannot sign.
Kinds == <<Cards, Chips, Replies, Jobs, Routines, Lines, Unlisted>>
ASSUME KindsAssumption ==
    /\ \A i, j \in DOMAIN Kinds : i # j => Kinds[i] \cap Kinds[j] = {}
    /\ "handoff" \notin Things
    /\ \A v \in Viewers : Side[v] # NoSigner

VARIABLES
    story,      \* what this behaviour is about
    record,     \* the room's events in the order of their seq
    lapsed,     \* the decisions whose window has passed
    screen,     \* Viewers -> the page: what it holds, where it starts, its socket, its end
    loopsPage,  \* Viewers -> the page of standing orders: what it was given, and what was pressed
    frames,     \* Viewers -> what is sent and not yet handled
    clicks      \* how often anything was pressed

screenVars == <<story, record, lapsed, screen, loopsPage, frames, clicks>>

Terminal == {"REVOKED", "EXPIRED", "LIMIT_REACHED"}
Lower == [BLOCKER |-> "DECISION", DECISION |-> "FYI"]
Controls == [does : {"APPROVED", "DENIED"}, of : Cards] \cup [does : {"lower"}, of : Chips]
            \cup [does : {"pause", "resume", "revoke", "edit"}, of : Routines]
            \cup [does : {"set"}, of : Tools]
            \cup [does : {"create"}, of : Routines, dial : {1, 2}, ends : BOOLEAN]
NoPress == [does |-> "nothing"]

EventsOf(x) == {n \in DOMAIN record : record[n].of = x}
Begun(x) == EventsOf(x) # {}
InHand(v) == {screen[v].events[i] : i \in DOMAIN screen[v].events}

ScreensTypeOK ==
    /\ story \in Stories
    /\ \A n \in DOMAIN record : record[n].of \in story
    /\ lapsed \subseteq Cards
    /\ \A v \in Viewers : /\ screen[v].events \in Seq(DOMAIN record)
                          /\ screen[v].up \in {"no", "opening", "yes"} /\ screen[v].stopped \in BOOLEAN
                          /\ screen[v].refused \in BOOLEAN /\ screen[v].banner \in BOOLEAN
                          /\ loopsPage[v].asked \in Controls \cup {NoPress}
                          /\ frames[v] \in Seq(Controls)
    /\ clicks \in 0..MaxClicks

ScreensInit ==
    /\ story \in Stories
    /\ record = <<>> /\ lapsed = {} /\ clicks = 0
    /\ screen = [v \in Viewers |-> [open |-> FALSE, events |-> <<>>, oldest |-> 0, up |-> "no",
                                    stopped |-> FALSE, refused |-> FALSE, banner |-> FALSE]]
    /\ loopsPage = [v \in Viewers |-> [given |-> <<>>, asked |-> NoPress, error |-> FALSE]]
    /\ frames = [v \in Viewers |-> <<>>]

-----------------------------------------------------------------------------
(* The fold of the events into items (buildItems). *)

Begins == {"line", "decision", "task.created", "order.created", "interrupt.raised", "agent.turn.started"}
Changes == {"decision.resolved", "task.state", "task.handoff", "order.status",
            "interrupt.downgraded", "agent.turn.completed"}

Item(x, is) == [of |-> x, is |-> is]

\* What an event makes of the item it is about.
Changed(item, e) ==
    IF e.of # item.of THEN item
    ELSE CASE e.type = "agent.turn.delta" -> [item EXCEPT !.is = Append(@, e.says)]
           [] e.type \in Changes -> [item EXCEPT !.is = e.says]
           [] OTHER -> item

\* Mutant: the text of a turn whose start is not in hand is dropped.
AddedIfBegun(items, e) ==
    IF e.type \in Begins THEN <<Item(e.of, e.says)>>
    ELSE IF e.type = "task.handoff" THEN <<Item("handoff", e.says)>> ELSE <<>>

\* The rows an event adds: its own, that of a transfer, and that of a turn whose start is not in hand.
Added(items, e) ==
    IF \/ e.type \in Begins
       \/ e.type = "agent.turn.completed" /\ \A i \in DOMAIN items : items[i].of # e.of
    THEN <<Item(e.of, e.says)>>
    ELSE IF e.type = "task.handoff" THEN <<Item("handoff", e.says)>> ELSE <<>>

FoldedIn(items, e) == [i \in DOMAIN items |-> Changed(items[i], e)] \o Added(items, e)

Items(v) == FoldLeft(LAMBDA items, n : FoldedIn(items, record[n]), <<>>, screen[v].events)

-----------------------------------------------------------------------------
(* What can be pressed. *)

\* Mutant: whoever is of the principal, an agent too.
IsSignerOfSide(v, d) == SignerOf[d] # NoSigner /\ Side[v] = SignerOf[d]

\* DecisionCard: the human bound to the principal the decision names.
IsSigner(v, d) == SignerOf[d] # NoSigner /\ v \in Persons /\ Side[v] = SignerOf[d]

OnCards(v) ==
    {[does |-> how, of |-> Items(v)[i].of] : how \in {"APPROVED", "DENIED"},
        i \in {j \in DOMAIN Items(v) : /\ Items(v)[j].of \in Cards /\ Items(v)[j].is = "pending"
                                       /\ IsSigner(v, Items(v)[j].of)}}

\* InterruptChip: canDowngrade.
OnChips(v) ==
    {[does |-> "lower", of |-> Items(v)[i].of] :
        i \in {j \in DOMAIN Items(v) : /\ Items(v)[j].of \in Chips /\ Items(v)[j].is # "FYI"
                                       /\ Addressee[Items(v)[j].of] = v}}

\* LoopsScreen: what the row of an order offers.
OnRow(v, given, c) ==
    \/ c.does = "pause" /\ given[c.of] = "ACTIVE"
    \/ c.does = "resume" /\ MakerOf[c.of] = v /\ given[c.of] = "PAUSED"
    \/ c.does \in {"revoke", "edit"} /\ MakerOf[c.of] = v /\ given[c.of] \notin Terminal

\* CreateForm: hasRequiredEndBound.
OnForm(c) == c.dial = 1 \/ c.ends

\* To humans, unless a request is out.
OnLoops(v) ==
    LET given == loopsPage[v].given
        rows == [does : {"pause", "resume", "revoke", "edit"}, of : DOMAIN given]
        forms == [does : {"create"}, of : {o \in Routines \cap story : MakerOf[o] = v /\ ~Begun(o)},
                  dial : {1, 2}, ends : BOOLEAN]
    IN  IF v \notin Persons \/ loopsPage[v].asked # NoPress THEN {}
        ELSE {c \in rows : OnRow(v, given, c)} \cup {c \in forms : OnForm(c)}

\* The room tools are there for humans.
OnTools(v) == IF v \in Persons THEN [does : {"set"}, of : Tools] ELSE {}

Offered(v) == OnCards(v) \cup OnChips(v) \cup OnTools(v)

\* attentionMessage: a decision on the page waits for the viewer's principal.
CalledFor(v) ==
    /\ v \in Persons
    /\ \E i \in DOMAIN Items(v) : /\ Items(v)[i].of \in Cards /\ Items(v)[i].is = "pending"
                                  /\ SignerOf[Items(v)[i].of] = Side[v]

-----------------------------------------------------------------------------
(* The room. *)

\* What a log last says of a thing.
StateIn(log, x) ==
    LET of == {n \in DOMAIN log : log[n].of = x /\ log[n].type \in Changes \cup Begins}
    IN  log[CHOOSE n \in of : \A m \in of : m <= n].says
Is(x) == StateIn(record, x)
StatusesIn(log) == [o \in {r \in Routines : \E n \in DOMAIN log : log[n].of = r} |-> StateIn(log, o)]

Event(x, type, says) == [of |-> x, type |-> type, says |-> says]
Append1(e) == Len(record) < MaxRecord /\ record' = Append(record, e)

\* The first event of a thing.
Begin(x) ==
    /\ x \in story \ Routines /\ ~Begun(x)
    /\ Append1(CASE x \in Cards -> Event(x, "decision", "pending")
                 [] x \in Chips -> Event(x, "interrupt.raised", "BLOCKER")
                 [] x \in Replies -> Event(x, "agent.turn.started", <<>>)
                 [] x \in Jobs -> Event(x, "task.created", "submitted")
                 [] x \in Lines -> Event(x, "line", "said")
                 [] OTHER -> Event(x, "unlisted", "nothing"))
    /\ UNCHANGED <<story, lapsed, screen, loopsPage, frames, clicks>>

Pieces(t) == Cardinality({n \in EventsOf(t) : record[n].type = "agent.turn.delta"})

\* What agents and the system append about what has begun.
Proceeds(x) ==
    /\ Begun(x)
    /\ \/ /\ x \in Replies /\ Is(x) # "whole" /\ Pieces(x) < MaxPieces
          /\ Append1(Event(x, "agent.turn.delta", Pieces(x) + 1))
       \/ /\ x \in Replies /\ Is(x) # "whole"
          /\ Append1(Event(x, "agent.turn.completed", "whole"))
       \/ /\ x \in Jobs /\ \E s \in {"working", "done"} : s # Is(x) /\ Append1(Event(x, "task.state", s))
       \/ /\ x \in Jobs /\ Append1(Event(x, "task.handoff", "submitted"))
       \/ /\ x \in Routines /\ Is(x) = "ACTIVE"
          /\ \E s \in {"PAUSED", "LIMIT_REACHED"} : Append1(Event(x, "order.status", s))
    /\ UNCHANGED <<story, lapsed, screen, loopsPage, frames, clicks>>

Lapse(d) ==
    /\ d \in story /\ Begun(d) /\ Is(d) = "pending" /\ d \notin lapsed
    /\ lapsed' = lapsed \cup {d}
    /\ UNCHANGED <<story, record, screen, loopsPage, frames, clicks>>

-----------------------------------------------------------------------------
(* The room page. *)

\* Mutant: what arrives is put at the end.
SortedAsCome(events) == events

\* sort((a, b) => a.seq - b.seq), which is stable: every event has its place.
Before(events, j, i) == events[j] < events[i] \/ (events[j] = events[i] /\ j < i)
Place(events, i) == 1 + Cardinality({j \in DOMAIN events : Before(events, j, i)})
Sorted(events) == [k \in DOMAIN events |-> events[CHOOSE i \in DOMAIN events : Place(events, i) = k]]

\* The window above whatever the room's summary covers; then the socket.
OpenPage(v) == \E floor \in 0..Len(record) :
    /\ ~screen[v].open
    /\ screen' = [screen EXCEPT ![v].open = TRUE, ![v].events = Sorted(SetToSeq(floor + 1..Len(record))),
                                ![v].oldest = IF floor = Len(record) THEN 0 ELSE floor + 1]
    /\ UNCHANGED <<story, record, lapsed, loopsPage, frames, clicks>>

\* Mutant: a frame is shown whether or not it was seen.
NewAnyway(v, n) == TRUE

\* seenRef.
New(v, n) == n \notin InHand(v)

\* An event off the socket, or off its replay, late or again.
Arrive(v, n) ==
    /\ screen[v].open /\ New(v, n) /\ Len(screen[v].events) < 2 * MaxRecord
    /\ screen' = [screen EXCEPT ![v].events = Sorted(Append(@, n))]
    /\ UNCHANGED <<story, record, lapsed, loopsPage, frames, clicks>>

\* A page of older events, up to the oldest.
LoadEarlier(v) == \E from \in 1..screen[v].oldest - 1 :
    /\ screen[v].open /\ ~screen[v].stopped /\ screen[v].oldest > 1
    /\ LET fresh == (from..screen[v].oldest - 1) \ InHand(v)
       IN  screen' = [screen EXCEPT ![v].events = Sorted(SetToSeq(fresh) \o @),
                                    ![v].oldest = IF fresh = {} THEN @ ELSE Min(fresh)]
    /\ UNCHANGED <<story, record, lapsed, loopsPage, frames, clicks>>

\* onopen; after a refusal the page does not connect again.
GoUp(v) ==
    /\ screen[v].open /\ screen[v].up = "no" /\ ~screen[v].stopped
    /\ screen' = [screen EXCEPT ![v].up = "opening"]
    /\ UNCHANGED <<story, record, lapsed, loopsPage, frames, clicks>>

Accept(v) ==
    /\ screen[v].up = "opening"
    /\ screen' = [screen EXCEPT ![v].up = "yes"]
    /\ UNCHANGED <<story, record, lapsed, loopsPage, frames, clicks>>

\* The handshake is refused, and the socket closed with what is on it: the page stops.
Refuse(v) ==
    /\ screen[v].up = "opening"
    /\ screen' = [screen EXCEPT ![v].up = "no", ![v].stopped = TRUE, ![v].refused = TRUE]
    /\ frames' = [frames EXCEPT ![v] = <<>>]
    /\ UNCHANGED <<story, record, lapsed, loopsPage, clicks>>

\* The connection is lost with what is on it.
GoDown(v) ==
    /\ screen[v].up # "no"
    /\ screen' = [screen EXCEPT ![v].up = "no"] /\ frames' = [frames EXCEPT ![v] = <<>>]
    /\ UNCHANGED <<story, record, lapsed, loopsPage, clicks>>

\* signDecision, downgrade, sendFrame: nothing without an open socket; the tools clear the banner.
Click(v, c) ==
    /\ screen[v].up # "no" /\ clicks < MaxClicks /\ c \in Offered(v)
    /\ clicks' = clicks + 1
    /\ frames' = [frames EXCEPT ![v] = Append(@, c)]
    /\ screen' = [screen EXCEPT ![v].banner = @ /\ c.does # "set"]
    /\ UNCHANGED <<story, record, lapsed, loopsPage>>

-----------------------------------------------------------------------------
(* The server. *)

\* The command refuses whoever pressed it.
NotTheirs(v, c) ==
    \/ c.does \in {"APPROVED", "DENIED"} /\ (v \notin Persons \/ SignerOf[c.of] # Side[v])
    \/ c.does = "lower" /\ Addressee[c.of] # v
    \/ c.does \in {"create", "pause", "resume", "revoke", "edit"} /\ v \notin Persons
    \/ c.does \in {"resume", "revoke", "edit"} /\ MakerOf[c.of] # v

\* The command refuses since the thing is not what it was.
MovedOn(c) ==
    \/ c.does \in {"APPROVED", "DENIED"} /\ (Is(c.of) # "pending" \/ c.of \in lapsed)
    \/ c.does = "lower" /\ Is(c.of) = "FYI"
    \/ c.does = "pause" /\ Is(c.of) # "ACTIVE"
    \/ c.does = "resume" /\ Is(c.of) # "PAUSED"
    \/ c.does \in {"revoke", "edit"} /\ Is(c.of) \in Terminal

\* unboundedDial.
Unbounded(c) == c.does = "create" /\ c.dial > 1 /\ ~c.ends

\* Whether the command is refused: a tool's, or the terms of an order, may be for reasons of their own.
Verdicts(v, c) ==
    IF NotTheirs(v, c) \/ MovedOn(c) \/ Unbounded(c) THEN {"refused"}
    ELSE IF c.does \in {"set", "edit", "create"} THEN {"refused", "done"} ELSE {"done"}

\* The event of a command that was not refused.
Effect(c) ==
    IF c.does \in {"APPROVED", "DENIED"} THEN Append1(Event(c.of, "decision.resolved", c.does))
    ELSE IF c.does = "lower" THEN Append1(Event(c.of, "interrupt.downgraded", Lower[Is(c.of)]))
    ELSE IF c.does \in {"set", "edit"} THEN UNCHANGED record
    ELSE IF c.does = "create" THEN Append1(Event(c.of, "order.created", "ACTIVE"))
    ELSE Append1(Event(c.of, "order.status", CASE c.does = "pause" -> "PAUSED" [] c.does = "resume" -> "ACTIVE"
                                               [] c.does = "revoke" -> "REVOKED"))

\* Mutant: no refusal is listed.
IsCommandRefusalNone(c) == FALSE

\* isCommandRefusal: of the controls of the room page only the tools' refusals are listed.
IsCommandRefusal(c) == c.does = "set"

\* The error frame of a refused command: a banner, or the end of the page.
ShowError(v, c) ==
    IF IsCommandRefusal(c) THEN [screen EXCEPT ![v].banner = TRUE]
    ELSE [screen EXCEPT ![v].stopped = TRUE]

\* The next frame of a socket. A tool's command is done or refused (RoomPapers has the reasons).
Handle(v) ==
    /\ frames[v] # <<>> /\ screen[v].up = "yes"
    /\ LET c == Head(frames[v])
       IN  \/ "refused" \in Verdicts(v, c) /\ screen' = ShowError(v, c) /\ UNCHANGED record
           \/ "done" \in Verdicts(v, c) /\ Effect(c) /\ UNCHANGED screen
    /\ frames' = [frames EXCEPT ![v] = Tail(@)]
    /\ UNCHANGED <<story, lapsed, loopsPage, clicks>>

-----------------------------------------------------------------------------
(* The page of standing orders. *)

\* The page is rendered with the orders as they are.
OpenLoops(v) ==
    /\ Routines \cap story # {} /\ loopsPage[v].asked = NoPress /\ loopsPage[v].given # StatusesIn(record)
    /\ loopsPage' = [loopsPage EXCEPT ![v] = [given |-> StatusesIn(record), asked |-> NoPress, error |-> FALSE]]
    /\ UNCHANGED <<story, record, lapsed, screen, frames, clicks>>

\* mutate: busy until the answer.
Press(v, c) ==
    /\ clicks < MaxClicks /\ c \in OnLoops(v)
    /\ clicks' = clicks + 1
    /\ loopsPage' = [loopsPage EXCEPT ![v].asked = c, ![v].error = FALSE]
    /\ UNCHANGED <<story, record, lapsed, screen, frames>>

\* The command, and its answer: a refusal is shown over the old rows, a success renders the page again.
Answer(v) ==
    LET c == loopsPage[v].asked IN
    /\ c # NoPress
    /\ \/ /\ "refused" \in Verdicts(v, c) /\ UNCHANGED record
          /\ loopsPage' = [loopsPage EXCEPT ![v].asked = NoPress, ![v].error = TRUE]
       \/ /\ "done" \in Verdicts(v, c) /\ Effect(c)
          /\ loopsPage' = [loopsPage EXCEPT ![v].asked = NoPress, ![v].given = StatusesIn(record')]
    /\ UNCHANGED <<story, lapsed, screen, frames, clicks>>

\* The request ends without an answer, before or after the command was done.
LoseAnswer(v) ==
    LET c == loopsPage[v].asked IN
    /\ c # NoPress
    /\ loopsPage' = [loopsPage EXCEPT ![v].asked = NoPress, ![v].error = TRUE]
    /\ UNCHANGED record \/ ("done" \in Verdicts(v, c) /\ Effect(c))
    /\ UNCHANGED <<story, lapsed, screen, frames, clicks>>

ScreensNext ==
    \/ \E x \in Things : Begin(x) \/ Proceeds(x)
    \/ \E d \in Cards : Lapse(d)
    \/ \E v \in WatchedBy[story] :
        \/ OpenPage(v) \/ (\E n \in DOMAIN record : Arrive(v, n)) \/ LoadEarlier(v)
        \/ GoUp(v) \/ Accept(v) \/ Refuse(v) \/ GoDown(v)
        \/ (\E c \in Offered(v) : Click(v, c)) \/ Handle(v)
    \/ \E v \in RunBy[story] :
        OpenLoops(v) \/ (\E c \in OnLoops(v) : Press(v, c)) \/ Answer(v) \/ LoseAnswer(v)

ScreensSpec == ScreensInit /\ [][ScreensNext]_screenVars

-----------------------------------------------------------------------------
(* What the log says of a thing: the whole text of a turn that has ended,   *)
(* else its pieces in order; of anything else what was last said of it.     *)
Ended(t) == \E n \in EventsOf(t) : record[n].type = "agent.turn.completed"
Truth(x) == IF x \in Replies /\ ~Ended(x) THEN [j \in 1..Pieces(x) |-> j] ELSE Is(x)

(* In whatever order events arrive, and however the window and the older    *)
(* pages cut the log (Room.tsx:112-124): a thing whose first event is in    *)
(* hand is on the page, each thing once, and when all of its events are in  *)
(* hand the page says what the log says; the end of a turn is enough to     *)
(* show all of it, and an answer in hand is never shown as pending.         *)
ScreenIsTrue == \A v \in WatchedBy[story] :
    LET items == Items(v)
        things == {i \in DOMAIN items : items[i].of \in Things}
    IN  /\ \A i, j \in things : items[i].of = items[j].of => i = j
        /\ \A n \in InHand(v) : record[n].type \in Begins \cup {"agent.turn.completed"} =>
            \E i \in things : /\ items[i].of = record[n].of
                              /\ record[n].type = "agent.turn.completed" => items[i].is = "whole"
        /\ \A i \in things : EventsOf(items[i].of) \subseteq InHand(v) => items[i].is = Truth(items[i].of)
        /\ \A i \in things : items[i].of \in Cards /\ Cardinality(EventsOf(items[i].of) \cap InHand(v)) > 1
                            => items[i].is # "pending"
        /\ \A i \in things : items[i].of \notin Unlisted

(* "Showing the button to the right person is UX" (DecisionCard.tsx:35):    *)
(* what a page offers, the server refuses only because the thing has moved  *)
(* on since, never because of who the viewer is; and to who holds all of a  *)
(* thing's events, or was given the orders as they are, only for the time;  *)
(* and a new order that the form lets through has its end.                  *)
OfferedIsTheirs ==
    /\ \A v \in WatchedBy[story] : \A c \in OnCards(v) \cup OnChips(v) :
        /\ ~NotTheirs(v, c)
        /\ EventsOf(c.of) \subseteq InHand(v) /\ c.of \notin lapsed => ~MovedOn(c)
    /\ \A v \in RunBy[story] : \A c \in OnLoops(v) :
        /\ ~NotTheirs(v, c) /\ ~Unbounded(c)
        /\ loopsPage[v].given = StatusesIn(record) => ~MovedOn(c)

(* The page calls its viewer exactly when a card on it can be signed        *)
(* (Room.tsx:505-509), and however many pages are stale a decision is       *)
(* answered once.                                                           *)
CalledWhenNeeded ==
    /\ \A v \in WatchedBy[story] : CalledFor(v) <=> OnCards(v) # {}
    /\ \A d \in Cards \cap story : Cardinality({n \in EventsOf(d) : record[n].type = "decision.resolved"}) <= 1

(* A page that only used its tools lives on after their refusals: it stops  *)
(* for a refused handshake or a card that was pressed too late.             *)
StopsForCause == \A v \in WatchedBy[story] : screen[v].stopped =>
    screen[v].refused \/ \E n \in DOMAIN record : record[n].of \in Cards \cup Chips

ScreensHold == ScreensTypeOK /\ ScreenIsTrue /\ OfferedIsTheirs /\ CalledWhenNeeded /\ StopsForCause

(* "Killing a live room over one is the A4-F1 shape in reverse" and "These  *)
(* are the refusals the room's OWN controls can provoke" (refusals.ts:      *)
(* 21-26): a page whose handshake was not refused is not stopped.           *)
LiveRoomIsNotKilled == \A v \in Viewers : screen[v].stopped => screen[v].refused
=============================================================================
