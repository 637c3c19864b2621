---------------------------- MODULE EventDelivery ----------------------------
(***************************************************************************)
(* From the log to the screen: rows of one room are inserted and then      *)
(* published on the in-process bus; a page loads its window of history,    *)
(* opens a socket that replays what lies past its cursor and follows the   *)
(* bus, and reconnects when the socket is lost (api/server.ts 2050-2188,   *)
(* api/bus.ts, apps/web/app/r/[id]/Room.tsx).                              *)
(*                                                                         *)
(* An event is its sequence number: BIGSERIAL hands the number out when an *)
(* INSERT begins, so rows may commit, and be published, out of order.  One *)
(* page is enough, no code relates two.  Payloads, backoff times and the   *)
(* frames a client sends are left out; a cost is one unit.                 *)
(***************************************************************************)
EXTENDS Naturals, Sequences, FiniteSets

CONSTANTS
    MaxSeq,        \* bound: the rows inserted
    Past,          \* the rows already published when the page opens
    Floor,         \* what the room's summary covers (roomWindowFloor)
    PageSize,      \* the limit of an older page
    Costly,        \* the rows that carry a cost
    MaxFaults      \* bound: connections lost, restarts, opens that throw, sends made twice, writers
                   \*        that fail after their row

Events == 1..MaxSeq

ASSUME BoundsAssumption ==
    /\ MaxSeq \in Nat /\ Past \in 0..MaxSeq
    /\ PageSize \in Nat \ {0}
    /\ Costly \subseteq Events
    /\ MaxFaults \in Nat
\* The row of a summary lies above what it covers.
ASSUME FloorAssumption == Floor \in Nat /\ (Floor = 0 \/ Floor < Past)

VARIABLES
    row,           \* where the row of each number is on its way
    socket,        \* the await at which the socket's open handler is suspended
    after,         \* the cursor the socket was opened with
    helloSeq,      \* what the handler's lastSeq query answered, until the hello is sent
    backlog,       \* what its eventsAfter query has read and not yet answered
    wire,          \* the frames sent and not yet received
    page,          \* what the client is doing
    window,        \* the recent events fetched, before they are shown
    seen,          \* seenRef, which is also what is on the screen
    cursor,        \* lastSeqRef
    oldest,        \* oldestSeqRef
    hasOlder,
    baselineSeq,   \* the meter's baseline, from the last hello: a number
    baselineSpend, \*    and the costly rows it sums
    faults,        \* how many there were
    overtaken,     \* history: a row committed or was published before a lower one
    ahead,         \* history: this connection delivered a live frame before its replay
    skipped        \* history: such a connection ended before its replay did

server == <<socket, after, helloSeq, backlog>>
client == <<page, window, seen, cursor, oldest, hasOlder, baselineSeq, baselineSpend>>
vars == <<row, server, wire, client, faults, overtaken, ahead, skipped>>

Opening == {"ticket", "room", "lastSeq", "spend", "backlog", "replay"}
Subscribed == Opening \cup {"live", "failed"}
Frames == [type : {"hello", "live", "replay", "error"},
           seqs : SUBSET Events, seq : 0..MaxSeq, spent : SUBSET Costly]

TypeOK ==
    /\ row \in [Events -> {"unborn", "inserting", "aborted", "committed", "published", "orphaned", "silent"}]
    /\ socket \in Subscribed \cup {"none"}
    /\ after \in 0..MaxSeq /\ helloSeq \in 0..MaxSeq
    /\ backlog \subseteq Events
    /\ wire \in Seq(Frames)
    /\ page \in {"fetching", "fetched", "waiting", "ticketed", "up", "refused"}
    /\ window \subseteq Events /\ seen \subseteq Events
    /\ cursor \in 0..MaxSeq /\ oldest \in 0..MaxSeq /\ hasOlder \in BOOLEAN
    /\ baselineSeq \in 0..MaxSeq /\ baselineSpend \subseteq Costly
    /\ faults \in 0..MaxFaults
    /\ overtaken \in BOOLEAN /\ ahead \in BOOLEAN /\ skipped \in BOOLEAN
    \* The bus has a listener for the page only while the page holds the socket.
    /\ socket # "none" => page = "up"

Durable == {e \in Events : row[e] \in {"committed", "published", "orphaned", "silent"}}
Newest(S) == IF S = {} THEN 0 ELSE CHOOSE e \in S : \A d \in S : d <= e
Lowest(S) == IF S = {} THEN 0 ELSE CHOOSE e \in S : \A d \in S : e <= d
OnWire == UNION {wire[i].seqs : i \in DOMAIN wire}

Init ==
    /\ row = [e \in Events |-> IF e <= Past THEN "published" ELSE "unborn"]
    /\ socket = "none" /\ after = 0 /\ helloSeq = 0 /\ backlog = {}
    /\ wire = <<>>
    /\ page = "fetching"
    /\ window = {} /\ seen = {}
    /\ cursor = 0 /\ oldest = 0 /\ hasOlder = FALSE
    /\ baselineSeq = 0 /\ baselineSpend = {}
    /\ faults = 0
    /\ overtaken = FALSE /\ ahead = FALSE /\ skipped = FALSE

Fault == faults < MaxFaults /\ faults' = faults + 1
Send(f) == wire' = Append(wire, f)
Hello(seq, spent) == [type |-> "hello", seqs |-> {}, seq |-> seq, spent |-> spent]
Carry(type, S) == [type |-> type, seqs |-> S, seq |-> 0, spent |-> {}]
Error == [type |-> "error", seqs |-> {}, seq |-> 0, spent |-> {}]

-----------------------------------------------------------------------------
(* The log. *)

Overtakes(e, slow) == overtaken' = (overtaken \/ \E d \in Events : d < e /\ row[d] \in slow)

\* nextval: numbers are given out in order.
Insert(e) ==
    /\ row[e] = "unborn"
    /\ \A d \in Events : d < e => row[d] # "unborn"
    /\ row' = [row EXCEPT ![e] = "inserting"]
    /\ UNCHANGED <<server, wire, client, faults, overtaken, ahead, skipped>>

Commit(e) ==
    /\ row[e] = "inserting"
    /\ row' = [row EXCEPT ![e] = "committed"]
    /\ Overtakes(e, {"inserting"})
    /\ UNCHANGED <<server, wire, client, faults, ahead, skipped>>

\* A conflict (the row was there already) or an error uses the number up.
Abort(e) ==
    /\ row[e] = "inserting"
    /\ row' = [row EXCEPT ![e] = "aborted"]
    /\ UNCHANGED <<server, wire, client, faults, overtaken, ahead, skipped>>

\* Mutant: the bus is heard only when the replay is done.
FanLate(e) == IF socket = "live" THEN Send(Carry("live", {e})) ELSE UNCHANGED wire

\* bus.publish: the listener of a subscribed socket sends at once.
Fan(e) == IF socket \in Subscribed THEN Send(Carry("live", {e})) ELSE UNCHANGED wire

\* Mutant: the row is sent out while its INSERT runs.
PublishEarly(e) ==
    /\ row[e] = "inserting"
    /\ Fan(e)
    /\ Overtakes(e, {"inserting", "committed"})
    /\ UNCHANGED <<row, server, client, faults, ahead, skipped>>

\* The writer resumes from its INSERT and publishes the row.
Publish(e) ==
    /\ row[e] = "committed"
    /\ row' = [row EXCEPT ![e] = "published"]
    /\ Fan(e)
    /\ Overtakes(e, {"inserting", "committed"})
    /\ UNCHANGED <<server, client, faults, ahead, skipped>>

\* The writer fails after its row and before it publishes it: the UPDATE that follows the event of
\* handoffTask, transitionTask or downgradeInterrupt throws.  (promoteContent never publishes its own.)
\* The row is in the log, the process and the sockets live on, and nobody is told.
Withhold(e) ==
    /\ Fault
    /\ row[e] = "committed"
    /\ row' = [row EXCEPT ![e] = "silent"]
    /\ UNCHANGED <<server, wire, client, overtaken, ahead, skipped>>

\* A message sent again resolves to the row that is there, which is published again.
Republish(e) ==
    /\ Fault
    /\ e \in Durable
    /\ Fan(e)
    /\ Overtakes(e, {"inserting", "committed"})
    /\ UNCHANGED <<row, server, client, ahead, skipped>>

-----------------------------------------------------------------------------
(* The socket's open handler: one step for each await of `accepted`.  Only the last query is
   cut in two, at its read and at its answer: what is published in between goes out before the replay,
   and for the others nothing tells the two moments apart. *)

SocketStep(from, to) == socket = from /\ socket' = to

ConsumeTicket ==
    /\ SocketStep("ticket", "room")
    /\ UNCHANGED <<row, after, helloSeq, backlog, wire, client, faults, overtaken, ahead, skipped>>

\* The ticket has expired: unsubscribed, told, closed.
RefuseTicket ==
    /\ SocketStep("ticket", "none")
    /\ Send(Error)
    /\ UNCHANGED <<row, after, helloSeq, backlog, client, faults, overtaken, ahead, skipped>>

RoomAccess ==
    /\ SocketStep("room", "lastSeq")
    /\ UNCHANGED <<row, after, helloSeq, backlog, wire, client, faults, overtaken, ahead, skipped>>

ReadLastSeq ==
    /\ SocketStep("lastSeq", "spend")
    /\ helloSeq' = Newest(Durable)
    /\ UNCHANGED <<row, after, backlog, wire, client, faults, overtaken, ahead, skipped>>

\* Mutant: the room's spend stops short of the number the client is told.
SpendBefore ==
    /\ SocketStep("spend", "backlog")
    /\ Send(Hello(helloSeq, {e \in Durable \cap Costly : e < helloSeq}))
    /\ helloSeq' = 0
    /\ UNCHANGED <<row, after, backlog, client, faults, overtaken, ahead, skipped>>

\* roomSpend is not scoped to helloSeq; then the hello goes out.
ReadSpend ==
    /\ SocketStep("spend", "backlog")
    /\ Send(Hello(helloSeq, Durable \cap Costly))
    /\ helloSeq' = 0
    /\ UNCHANGED <<row, after, backlog, client, faults, overtaken, ahead, skipped>>

\* eventsAfter reads the rows; its answer is on the way while the bus goes on.
QueryBacklog ==
    /\ SocketStep("backlog", "replay")
    /\ backlog' = {e \in Durable : e > after}
    /\ UNCHANGED <<row, after, helloSeq, wire, client, faults, overtaken, ahead, skipped>>

\* The answer, sent in order.
SendBacklog ==
    /\ SocketStep("replay", "live")
    /\ IF backlog = {} THEN UNCHANGED wire ELSE Send(Carry("replay", backlog))
    /\ backlog' = {}
    /\ UNCHANGED <<row, after, helloSeq, client, faults, overtaken, ahead, skipped>>

\* A query throws: logged, and the socket stays open and subscribed.
OpenFails ==
    /\ Fault
    /\ socket \in Opening
    /\ socket' = "failed"
    /\ backlog' = {}
    /\ UNCHANGED <<row, after, helloSeq, wire, client, overtaken, ahead, skipped>>

-----------------------------------------------------------------------------
(* The page. *)

FetchWindow ==
    /\ page = "fetching"
    /\ page' = "fetched"
    /\ window' = {e \in Durable : e > Floor}
    /\ UNCHANGED <<row, server, wire, seen, cursor, oldest, hasOlder, baselineSeq, baselineSpend,
                   faults, overtaken, ahead, skipped>>

\* The history cannot be had: connect anyway, from 0.
FetchFails ==
    /\ page \in {"fetching", "fetched"}
    /\ page' = "waiting"
    /\ window' = {}
    /\ UNCHANGED <<row, server, wire, seen, cursor, oldest, hasOlder, baselineSeq,
                   baselineSpend, faults, overtaken, ahead, skipped>>

\* Mutant: older rows are looked for below the floor, not below the first row shown.
WindowClosed ==
    /\ page = "fetched"
    /\ page' = "waiting"
    /\ seen' = window
    /\ cursor' = Newest(window)
    /\ oldest' = Lowest(window)
    /\ hasOlder' = \E d \in Durable : d < Floor
    /\ window' = {}
    /\ UNCHANGED <<row, server, wire, baselineSeq, baselineSpend, faults, overtaken, ahead, skipped>>

\* hasEventsBefore answers, and the page shows the window.
ShowWindow ==
    /\ page = "fetched"
    /\ page' = "waiting"
    /\ seen' = window
    /\ cursor' = Newest(window)
    /\ oldest' = Lowest(window)
    /\ hasOlder' = (window # {} /\ \E d \in Durable : d < Lowest(window))
    /\ window' = {}
    /\ UNCHANGED <<row, server, wire, baselineSeq, baselineSpend, faults, overtaken, ahead, skipped>>

\* eventsBefore: the highest rows below the oldest shown.
OlderPage ==
    {e \in Durable : e < oldest /\ Cardinality({d \in Durable : e < d /\ d < oldest}) < PageSize}

\* One older page; nothing but late rows can change below the oldest, so it is one step.
LoadOlder ==
    /\ page \in {"waiting", "ticketed", "up"}
    /\ hasOlder /\ oldest > 1
    /\ LET fresh == OlderPage \ seen
       IN  /\ seen' = seen \cup fresh
           /\ oldest' = IF fresh = {} THEN oldest ELSE Lowest(fresh)
    /\ hasOlder' = (OlderPage # {} /\ \E d \in Durable : d < Lowest(OlderPage))
    /\ UNCHANGED <<row, server, wire, page, window, cursor, baselineSeq, baselineSpend, faults,
                   overtaken, ahead, skipped>>

\* A ticket for every attempt; a failed exchange is tried again.
FetchTicket ==
    /\ page = "waiting"
    /\ page' = "ticketed"
    /\ UNCHANGED <<row, server, wire, window, seen, cursor, oldest, hasOlder, baselineSeq,
                   baselineSpend, faults, overtaken, ahead, skipped>>

\* The socket opens with the cursor; the server subscribes it before anything else.
Dial ==
    /\ page = "ticketed"
    /\ page' = "up"
    /\ socket' = "ticket"
    /\ after' = cursor
    /\ ahead' = FALSE
    /\ UNCHANGED <<row, helloSeq, backlog, wire, window, seen, cursor, oldest, hasOlder, baselineSeq,
                   baselineSpend, faults, overtaken, skipped>>

\* The replay of this connection is not all received.
ReplayPending ==
    \/ page = "up" /\ socket # "live"
    \/ \E i \in DOMAIN wire : wire[i].type = "replay"

\* The next event of the head frame: a set is sent in the order of its numbers.
ReceiveEvent ==
    /\ page = "up" /\ wire # <<>>
    /\ LET f == Head(wire)
           e == Lowest(f.seqs)
       IN  /\ f.seqs # {}
           /\ wire' = IF f.seqs = {e} THEN Tail(wire)
                      ELSE <<Carry(f.type, f.seqs \ {e})>> \o Tail(wire)
           /\ seen' = seen \cup {e}
           /\ cursor' = IF e \notin seen /\ e > cursor THEN e ELSE cursor
           /\ ahead' = (ahead \/ (f.type = "live" /\ ReplayPending))
    /\ UNCHANGED <<row, server, page, window, oldest, hasOlder, baselineSeq, baselineSpend, faults,
                   overtaken, skipped>>

\* Re-baseline on every hello.
ReceiveHello ==
    /\ page = "up" /\ wire # <<>> /\ Head(wire).type = "hello"
    /\ baselineSeq' = Head(wire).seq
    /\ baselineSpend' = Head(wire).spent
    /\ wire' = Tail(wire)
    /\ UNCHANGED <<row, server, page, window, seen, cursor, oldest, hasOlder, faults, overtaken,
                   ahead, skipped>>

\* A refused handshake is final.
ReceiveError ==
    /\ page = "up" /\ wire # <<>> /\ Head(wire).type = "error"
    /\ page' = "refused"
    /\ wire' = Tail(wire)
    /\ skipped' = (skipped \/ ahead)
    /\ UNCHANGED <<row, server, window, seen, cursor, oldest, hasOlder, baselineSeq, baselineSpend,
                   faults, overtaken, ahead>>

\* Mutant: a socket that closes is not dialled again.
CloseForGood ==
    /\ UNCHANGED page
    /\ socket' = "none"
    /\ after' = 0 /\ helloSeq' = 0 /\ backlog' = {}
    /\ wire' = <<>>
    /\ skipped' = (skipped \/ (page = "up" /\ ahead /\ ReplayPending))

\* onclose: what was on the wire is gone, and the page dials again after a wait.
Close ==
    /\ page' = IF page = "up" THEN "waiting" ELSE page
    /\ socket' = "none"
    /\ after' = 0 /\ helloSeq' = 0 /\ backlog' = {}
    /\ wire' = <<>>
    /\ skipped' = (skipped \/ (page = "up" /\ ahead /\ ReplayPending))

\* The connection is lost, or the heartbeat gives it up.
Break ==
    /\ Fault
    /\ page = "up"
    /\ Close
    /\ UNCHANGED <<row, window, seen, cursor, oldest, hasOlder, baselineSeq, baselineSpend,
                   overtaken, ahead>>

\* The process ends: rows still being inserted are rolled back (or were committed just before),
\* and nobody publishes those that were committed.
Restart ==
    /\ Fault
    /\ row' = [e \in Events |-> CASE row[e] = "inserting" -> "aborted"
                                  [] row[e] = "committed" -> "orphaned"
                                  [] OTHER -> row[e]]
    /\ Close
    /\ UNCHANGED <<window, seen, cursor, oldest, hasOlder, baselineSeq, baselineSpend, overtaken,
                   ahead>>

-----------------------------------------------------------------------------
Handler == ConsumeTicket \/ RoomAccess \/ ReadLastSeq \/ ReadSpend \/ QueryBacklog \/ SendBacklog
Follow == FetchWindow \/ ShowWindow \/ FetchTicket \/ Dial
Receive == ReceiveEvent \/ ReceiveHello \/ ReceiveError

Next ==
    \/ \E e \in Events : Insert(e) \/ Commit(e) \/ Abort(e) \/ Publish(e) \/ Withhold(e) \/ Republish(e)
    \/ Handler \/ RefuseTicket \/ OpenFails
    \/ Follow \/ FetchFails \/ LoadOlder
    \/ Receive \/ Break \/ Restart

\* Every await settles, timers fire, and a connection that is not lost delivers.  A history request
\* settles one way or the other; nothing is assumed of faults, breaks, restarts and readers.
Fairness ==
    /\ WF_vars(\E e \in Events : Commit(e) \/ Abort(e) \/ Publish(e))
    /\ WF_vars(Handler \/ RefuseTicket)
    /\ WF_vars(Follow \/ FetchFails)
    /\ WF_vars(Receive)

Spec == Init /\ [][Next]_vars
FairSpec == Spec /\ Fairness

-----------------------------------------------------------------------------
(* Properties. *)

\* "Subscribe before replay so no event committed during replay is missed" (server.ts:2065): once
\* the handler is through, every published row past the socket's cursor is on the screen or on its
\* way, in whatever order rows commit and are published around the queries.
OpenSocketMissesNothing ==
    socket = "live" =>
        \A e \in Events : e > after /\ row[e] \in {"published", "orphaned"} => e \in seen \cup OnWire

\* The cursor never passes an event that the page cannot show, unless rows overtook each other, or a
\* connection ended between a live frame and the replay that should have come before it, or the event
\* is one that its writer failed to publish: a later one takes the cursor past it.
GapsHaveACause ==
    ~overtaken /\ ~skipped =>
        \A e \in Durable : e <= cursor =>
            \/ e \in seen
            \/ e < oldest /\ hasOlder
            \/ ReplayPending /\ ahead /\ e > after
            \/ row[e] = "silent"

\* What the page shows as spent is never low: a costly event on the screen is in the baseline or
\* past it.  (It can be high: roomSpend may sum a row that is past the hello's number.)
MeterNeverLow ==
    ~overtaken => \A e \in seen \cap Costly : e \in baselineSpend \/ e > baselineSeq

\* The screen is never ahead of the log ("Persist before fan-out"), nor the cursor of the screen.
CursorIsShown == seen \subseteq Durable /\ (cursor = 0 \/ cursor \in seen)

\* A page that is refused, or sits on a socket whose open failed, waits for nothing.
GaveUp == page = "refused" \/ socket = "failed"

\* However often the connection is lost, the page's cursor reaches the end of the log again, but for
\* rows whose writer failed to publish them after the page's last hello (those of before it are in the
\* replay): unless the page was refused or sits on a socket whose open failed.
CatchesUp == []<>(\/ page = "refused" \/ socket = "failed"
                  \/ cursor >= Newest({e \in Durable : row[e] # "silent" \/ e <= baselineSeq}))

\* "The server replays from Postgres, so a dropped socket never loses a receipt" (architecture
\* bible:528): even when rows come in order, whatever lies at or below the cursor of a page that
\* was not refused has been received, can be paged in, or is still to be replayed; rows that nobody
\* published are left out, no socket need be dropped for those.
DroppedSocketLosesNothing ==
    ~overtaken /\ page # "refused" =>
        \A e \in Durable : e <= cursor /\ row[e] # "silent" =>
            \/ e \in seen
            \/ e < oldest /\ hasOlder
            \/ ReplayPending /\ e > after
=============================================================================
