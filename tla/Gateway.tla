------------------------------- MODULE Gateway -------------------------------
(***************************************************************************)
(* The doors of the api (server.ts): every route is a row of checks, made  *)
(* in order and each against what the database says at that moment, and    *)
(* then what it does; the sliding windows that throttle some of them; the  *)
(* tickets that open sockets, the frames that a socket runs one after the  *)
(* other as the member of its ticket, and its heartbeat.                   *)
(*                                                                         *)
(* What a command does is the other modules'; here it runs or is refused   *)
(* (over a socket it may throw; a request that throws has a 500 and is     *)
(* left out). Which rows a socket sees is EventDelivery's. Credentials do  *)
(* not come back to life, and members do not leave rooms: no code does     *)
(* either. A lease that lapsed may come back: its life is Leases'.         *)
(***************************************************************************)
EXTENDS Naturals, Sequences, FiniteSets

CONSTANTS
    HttpCalls,      \* the requests over http
    DoorsOf,       \* [HttpCalls -> sets of doors]: where each may go
    CredOf,        \* [HttpCalls -> Creds]: what they present; it may prove nothing
    Creds,         \* the members' own, the OAuth access tokens and the lease tokens
    KindOf,        \* [Creds -> which]
    AddressOf,     \* [HttpCalls -> the address it comes from]
    MemberOf,      \* [Creds -> members]
    Humans,        \* the members that are
    Machines,      \* the processes of the api
    MaxHits,       \* redeemMax, actionMax, oauthMax: what a window lets through
    WindowMs,      \* the length of a window
    MaxKeys,       \* the keys a throttle holds before it sweeps, 20_000
    Sockets,
    TicketFor,     \* [Sockets -> HttpCalls]: whose ticket each presents
    ForRoom,       \* the sockets that ask for the room their ticket names
    Frames,        \* [Sockets -> what a page may send: sequences of frames]
    MaxBeats,      \* bound: the beats that are counted for a silent peer
    MaxClock       \* bound

Callers == {MemberOf[c] : c \in Creds}

ASSUME DoorsAssumption ==
    /\ KindOf \in [Creds -> {"static", "oauth", "lease"}]
    /\ CredOf \in [HttpCalls -> Creds] /\ TicketFor \in [Sockets -> HttpCalls]
    /\ MaxHits \in Nat /\ WindowMs \in Nat \ {0} /\ MaxKeys \in Nat /\ ForRoom \subseteq Sockets
    /\ MaxClock \in Nat /\ WindowMs <= MaxClock

VARIABLES
    clock,
    creds,     \* the credentials that are live
    admitted,  \* the members of the room
    requests,  \* [HttpCalls -> where each is, how it was answered]
    hits,      \* [Machines -> the hits of each key]
    passed,    \* the same for those let through, of all times
    tickets,   \* [HttpCalls -> the ticket it was given]
    sockets

doorVars == <<clock, creds, admitted, requests, hits, passed, tickets, sockets>>

-----------------------------------------------------------------------------
(* The doors. *)

\* What each checks before it acts, in order. The order routes share orderRouteMember, those of a
\* device pushMember; what a command refuses is its own affair.
RosterDoor == <<"credential", "access">>
OrdersDoor == <<"credential", "access">>
OrderCreateDoor == <<"credential", "access", "command">>
OrderControlDoor == <<"credential", "access", "shape", "command">>
OrderEditDoor == <<"credential", "access", "command">>
PushMember == <<"credential", "human">>
SubscribeDoor == PushMember \o <<"shape">>
UnsubscribeDoor == PushMember \o <<"shape">>
PushSendsDoor == PushMember
DevicesDoor == PushMember
ActionDoor == <<"credential", "throttle", "shape", "exists", "command">>
DecisionDoor == <<"credential", "exists">>
ReceiptDoor == <<"credential", "exists">>
LeaseDoor == <<"credential", "shape">>
LeasesDoor == <<"credential">>
LeaseRevokeDoor == <<"credential">>
HeartbeatDoor == <<"credential">>
NodeOpDoor == <<"lease", "throttle", "shape", "hostOp", "scope", "exists", "command">>
CheckReportDoor == <<"lease", "shape", "access">>
TicketDoor == <<"credential", "shape">>
RedeemDoor == <<"throttle", "shape", "command">>
CreateRoomDoor == <<"credential">>
RoomDoor == <<"credential", "access", "exists">>
HistoryDoor == <<"credential", "access">>
MessageDoor == <<"credential", "access", "shape">>
InterruptDoor == <<"credential", "access", "shape", "exists", "command">>
RegisterDoor == <<"throttle", "shape">>
AuthorizeDoor == <<"shape">>
ConsentDoor == <<"throttle", "shape", "credential">>
TokenDoor == <<"shape", "command">>
RevokeDoor == <<>>
PushKeyDoor == <<"configured">>
\* /health, /internal/warmup and the two documents of /.well-known.
OpenDoor == <<>>

\* POST /mcp and its tools (mcp.ts): a tool's refusal is the text of its answer, here its status.
McpDoor == <<"credential", "throttle">>
RoomsTool == McpDoor
TagsTool == McpDoor
ReadTool == McpDoor \o <<"shape", "access", "exists">>
PostTool == McpDoor \o <<"shape", "access">>
RequestTool == McpDoor \o <<"shape", "access", "command">>
RespondTool == McpDoor \o <<"shape", "access", "command">>
RaiseTool == McpDoor \o <<"shape", "access", "command">>
ReceiptTool == McpDoor \o <<"shape", "exists">>

Checks == [
    roster |-> RosterDoor, orders |-> OrdersDoor, orderCreate |-> OrderCreateDoor,
    orderControl |-> OrderControlDoor, orderEdit |-> OrderEditDoor, subscribe |-> SubscribeDoor,
    unsubscribe |-> UnsubscribeDoor, pushSends |-> PushSendsDoor, devices |-> DevicesDoor,
    action |-> ActionDoor, decision |-> DecisionDoor, receipt |-> ReceiptDoor, lease |-> LeaseDoor,
    leases |-> LeasesDoor, leaseRevoke |-> LeaseRevokeDoor, ticket |-> TicketDoor,
    redeem |-> RedeemDoor, createRoom |-> CreateRoomDoor, room |-> RoomDoor, history |-> HistoryDoor,
    interrupt |-> InterruptDoor, register |-> RegisterDoor, authorize |-> AuthorizeDoor,
    consent |-> ConsentDoor, token |-> TokenDoor, mcpRooms |-> RoomsTool, mcpTags |-> TagsTool,
    mcpRead |-> ReadTool, mcpPost |-> PostTool, mcpRequest |-> RequestTool, mcpRespond |-> RespondTool,
    mcpRaise |-> RaiseTool, mcpReceipt |-> ReceiptTool, heartbeat |-> HeartbeatDoor,
    nodeOp |-> NodeOpDoor, checkReport |-> CheckReportDoor, message |-> MessageDoor,
    revoke |-> RevokeDoor, pushKey |-> PushKeyDoor, open |-> OpenDoor]
ASSUME RoutesAssumption == DoorsOf \in [HttpCalls -> SUBSET DOMAIN Checks]

McpTools == {"mcpRooms", "mcpTags", "mcpRead", "mcpPost", "mcpRequest", "mcpRespond", "mcpRaise", "mcpReceipt"}

\* What a door takes for a proof of who asks: /mcp an OAuth token too, a node's doors its lease alone.
Takes(door) ==
    CASE door \in McpTools -> {"static", "oauth"}
      [] door \in {"heartbeat", "nodeOp", "checkReport"} -> {"lease"}
      [] OTHER -> {"static"}

\* orderRefusalStatus; the hand that was raised too often or to nobody; redeemRoomCode; the grants.
CommandStatuses(door) ==
    CASE door \in {"orderCreate", "orderControl", "orderEdit"} -> {400, 403, 404}
      [] door = "interrupt" -> {422, 429}
      [] door = "redeem" -> {400, 404}
      [] door = "token" -> {400}
      [] OTHER -> {422}

\* The statuses that a refusal may have; /authorize sends the browser back with what is wrong.
StatusesOfCheck(door, check) ==
    CASE check \in {"credential", "lease"} -> {401}
      [] check \in {"access", "exists"} -> {404}
      [] check \in {"human", "scope"} -> {403}
      [] check = "throttle" -> {429}
      [] check = "hostOp" -> {422}
      [] check = "configured" -> {503}
      [] check = "shape" -> IF door = "authorize" THEN {302, 400} ELSE {400}
      [] check = "command" -> CommandStatuses(door)

NotSent == [door |-> "none", at |-> 0, machine |-> "none", status |-> 0, why |-> "none", live |-> FALSE, in |-> FALSE]
NoTicket == [state |-> "none", member |-> "none"]
NoSocket == [at |-> "closed", room |-> FALSE, actor |-> "none", subscribed |-> FALSE, alive |-> TRUE,
             peer |-> "there", beats |-> 0, queue |-> <<>>, ran |-> <<>>, answered |-> 0]

DoorInit ==
    /\ clock = WindowMs
    /\ creds \in SUBSET Creds /\ admitted \in SUBSET Callers
    /\ requests = [r \in HttpCalls |-> NotSent]
    /\ hits = [m \in Machines |-> [k \in {} |-> <<>>]]
    /\ passed = {}
    /\ tickets = [r \in HttpCalls |-> NoTicket]
    /\ sockets = [s \in Sockets |-> NoSocket]

Member(r) == MemberOf[CredOf[r]]
Pending(r) == requests[r].door # "none" /\ requests[r].at \in 1..Len(Checks[requests[r].door])
Check(r) == Checks[requests[r].door][requests[r].at]
Proven(r) == CredOf[r] \in creds /\ KindOf[CredOf[r]] \in Takes(requests[r].door)

Send(r, m, door) ==
    /\ requests[r].at = 0
    /\ requests' = [requests EXCEPT ![r].door = door, ![r].at = 1, ![r].machine = m,
                                    ![r].live = CredOf[r] \in creds, ![r].in = Member(r) \in admitted]
    /\ UNCHANGED <<clock, creds, admitted, hits, passed, tickets, sockets>>

\* Mutant: the helper answered and returned null, and the route goes on (a `return reply` is missed).
RefusedGoesOn(r, status) == [requests EXCEPT ![r].status = status, ![r].at = @ + 1]

Refused(r, status) == [requests EXCEPT ![r].status = status, ![r].why = Check(r),
                                      ![r].at = Len(Checks[requests[r].door]) + 2]

Passes(r) == [requests EXCEPT ![r].at = @ + 1]

\* authenticate or its like, roomAccess, memberRecord: one read each.
Holds(r) ==
    CASE Check(r) = "credential" -> Proven(r)
      [] Check(r) = "access" -> Member(r) \in admitted
      [] Check(r) = "human" -> Member(r) \in Humans

\* Whatever is wrong, it is answered once.
Turned(r) == \E status \in StatusesOfCheck(requests[r].door, Check(r)) : requests' = Refused(r, status)

ChecksRow(r) ==
    /\ Pending(r) /\ Check(r) \in {"credential", "access", "human"}
    /\ IF Holds(r) THEN requests' = Passes(r) ELSE Turned(r)
    /\ UNCHANGED <<clock, creds, admitted, hits, passed, tickets, sockets>>

\* verifyLease: one that lapsed does nothing, though it may live again.
ChecksLease(r, lapsed) ==
    /\ Pending(r) /\ Check(r) = "lease"
    /\ IF Proven(r) /\ ~lapsed THEN requests' = Passes(r) ELSE Turned(r)
    /\ UNCHANGED <<clock, creds, admitted, hits, passed, tickets, sockets>>

\* The shape of a body, what it names and what a command makes of it are the caller's luck, and so is
\* how the api was deployed.
ChecksBody(r, good) ==
    /\ Pending(r) /\ Check(r) \in {"shape", "exists", "hostOp", "scope", "configured", "command"}
    /\ IF good THEN requests' = Passes(r) ELSE Turned(r)
    /\ UNCHANGED <<clock, creds, admitted, hits, passed, tickets, sockets>>

-----------------------------------------------------------------------------
(* The throttles. *)

\* The doors that share a window: the action door, /mcp and the host operations; those that register
\* a client and ask for consent.
Window(door) ==
    CASE door \in {"register", "consent"} -> "oauth"
      [] door \in McpTools \cup {"action", "nodeOp"} -> "action"
      [] OTHER -> door

\* Whom a window counts: an address where nobody is known yet; else the credential, or the lease, or
\* the member of an OAuth token, who may hold many.
Who(r) ==
    IF Window(requests[r].door) # "action" THEN <<"address", AddressOf[r]>>
    ELSE <<KindOf[CredOf[r]], IF KindOf[CredOf[r]] = "oauth" THEN Member(r) ELSE CredOf[r]>>

Key(r) == <<Window(requests[r].door), Who(r)>>

\* The cutoff: what is as old or older is over.
Cutoff == clock - WindowMs

\* The last hit that is over; hits are pushed as the clock goes, so those before it are over too.
LastOld(ts) == CHOOSE i \in 0..Len(ts) : (i # 0 => ts[i] <= Cutoff) /\ \A j \in (i + 1)..Len(ts) : ts[j] > Cutoff

\* The hits that are not.
Recent(ts) == SubSeq(ts, LastOld(ts) + 1, Len(ts))

\* Mutant: the map is emptied when it is full.
SweptWhole(h) == [k \in {} |-> <<>>]

\* When there are too many keys, those whose last hit is old are dropped.
Swept(h) == [k \in {x \in DOMAIN h : h[x][Len(h[x])] > Cutoff} |-> h[k]]

HitsOf(h, k) == IF k \in DOMAIN h THEN h[k] ELSE <<>>

\* The hit is counted whether it is let through or not.
WithHit(h, k) ==
    LET next == [x \in DOMAIN h \cup {k} |->
                    IF x = k THEN Append(Recent(HitsOf(h, k)), clock) ELSE h[x]]
    IN  IF Cardinality(DOMAIN next) > MaxKeys THEN Swept(next) ELSE next

Throttles(r) ==
    /\ Pending(r) /\ Check(r) = "throttle"
    /\ LET m == requests[r].machine
           mine == Append(Recent(HitsOf(hits[m], Key(r))), clock)
       IN  /\ hits' = [hits EXCEPT ![m] = WithHit(@, Key(r))]
           /\ IF Len(mine) > MaxHits
              THEN requests' = Refused(r, 429) /\ UNCHANGED passed
              ELSE requests' = Passes(r) /\ passed' = passed \cup {<<r, m, clock>>}
    /\ UNCHANGED <<clock, creds, admitted, tickets, sockets>>

-----------------------------------------------------------------------------
(* What a door does when all has been checked. *)

\* issueTicket, or the command; its answer is a success.
Acts(r) ==
    /\ requests[r].door # "none" /\ requests[r].at = Len(Checks[requests[r].door]) + 1
    /\ requests' = [requests EXCEPT ![r].status = IF @ = 0 THEN 200 ELSE @, ![r].at = @ + 1]
    /\ tickets' = IF requests[r].door = "ticket"
                  THEN [tickets EXCEPT ![r] = [state |-> "issued", member |-> Member(r)]] ELSE tickets
    /\ UNCHANGED <<clock, creds, admitted, hits, passed, sockets>>

-----------------------------------------------------------------------------
(* The sockets. *)

Moved(s, next) ==
    /\ sockets' = [sockets EXCEPT ![s] = next]
    /\ UNCHANGED <<clock, creds, admitted, requests, hits, passed>>

\* It subscribes to the bus before anything is known of it.
Connects(s) ==
    /\ sockets[s].at = "closed" /\ tickets[TicketFor[s]].state # "none" /\ UNCHANGED tickets
    /\ \E fs \in Frames[s] : Moved(s, [NoSocket EXCEPT !.at = "claim", !.subscribed = TRUE, !.queue = fs])

\* Mutant: the ticket is looked up and its use is not recorded.
LookedUp(r) == tickets

ConsumedAt(r) == [tickets EXCEPT ![r].state = "consumed"]

\* refuse and refuseWith: unsubscribed, told, closed.
RefusesSocket(s) == [sockets[s] EXCEPT !.at = "refused", !.subscribed = FALSE]

\* consumeTicket: one UPDATE; a ticket for another room is used up all the same.
Claims(s) ==
    /\ sockets[s].at = "claim"
    /\ IF tickets[TicketFor[s]].state = "issued"
       THEN /\ tickets' = ConsumedAt(TicketFor[s])
            /\ Moved(s, IF s \in ForRoom
                        THEN [sockets[s] EXCEPT !.at = "access", !.actor = tickets[TicketFor[s]].member]
                        ELSE RefusesSocket(s))
       ELSE UNCHANGED tickets /\ Moved(s, RefusesSocket(s))

\* roomAccess; then hello and the backlog.
Admits(s) ==
    /\ sockets[s].at = "access" /\ UNCHANGED tickets
    /\ Moved(s, IF sockets[s].actor \in admitted
                THEN [sockets[s] EXCEPT !.at = "open"] ELSE RefusesSocket(s))

\* The open handler throws: no actor; the socket stays, subscribed, and its frames are dropped.
OpenFails(s) ==
    /\ sockets[s].at \in {"claim", "access"} /\ UNCHANGED tickets
    /\ Moved(s, [sockets[s] EXCEPT !.at = "mute", !.actor = "none"])

\* What may become of a frame: it runs, is refused with a word to this socket, or its command throws
\* and there is a line in the log. A message is never refused, and what is no frame always is.
NoFrame == {"refused"}
Commanded == {"ran", "refused", "thrown"}
ActionFrame == Commanded
HandoffFrame == Commanded
SignFrame == Commanded
OrderCreateFrame == Commanded
OrderControlFrame == Commanded
BriefingSetFrame == Commanded
BriefingClearFrame == Commanded
DocumentFrame == Commanded
DocumentRemoveFrame == Commanded
DowngradeFrame == Commanded
MessageFrame == {"ran", "thrown"}

Outcomes == [
    none |-> NoFrame, request_action |-> ActionFrame, handoff |-> HandoffFrame,
    sign_decision |-> SignFrame, order_create |-> OrderCreateFrame,
    order_control |-> OrderControlFrame, briefing_set |-> BriefingSetFrame,
    briefing_clear |-> BriefingClearFrame, document_upload |-> DocumentFrame,
    document_remove |-> DocumentRemoveFrame, downgrade |-> DowngradeFrame, send |-> MessageFrame]

ASSUME FramesAssumption == Frames \in [Sockets -> SUBSET Seq(DOMAIN Outcomes)]

HandlesFrame(s, outcome) ==
    /\ sockets[s].at = "open" /\ sockets[s].queue # <<>> /\ UNCHANGED tickets
    /\ outcome \in Outcomes[Head(sockets[s].queue)]
    /\ Moved(s, [sockets[s] EXCEPT
                    !.queue = Tail(@), !.answered = IF outcome = "refused" THEN @ + 1 ELSE @,
                    !.ran = IF outcome = "ran" THEN Append(@, sockets[s].actor) ELSE @])

HasSocket(s) == sockets[s].at \in {"claim", "access", "open", "mute"}

\* The peer vanishes and the transport does not say so.
PeerGone(s) ==
    /\ HasSocket(s) /\ sockets[s].peer = "there" /\ UNCHANGED tickets
    /\ Moved(s, [sockets[s] EXCEPT !.peer = "gone"])

\* terminate, and the close handler after it.
Terminated(socket) == [socket EXCEPT !.at = "terminated", !.subscribed = FALSE]

\* Mutant: the flag that the next beat reads is not lowered.
PingsOnly(socket) == socket

Pings(socket) == [socket EXCEPT !.alive = FALSE]

CountsBeat(socket) == [socket EXCEPT !.beats = IF socket.peer = "gone" THEN @ + 1 ELSE 0]

Beat(s) ==
    /\ HasSocket(s) /\ sockets[s].beats < MaxBeats /\ UNCHANGED tickets
    /\ Moved(s, IF sockets[s].alive THEN CountsBeat(Pings(sockets[s])) ELSE Terminated(sockets[s]))

Pong(s) ==
    /\ HasSocket(s) /\ sockets[s].peer = "there" /\ ~sockets[s].alive /\ UNCHANGED tickets
    /\ Moved(s, [sockets[s] EXCEPT !.alive = TRUE])

-----------------------------------------------------------------------------
(* The world. *)

Ticks ==
    /\ clock < MaxClock /\ clock' = clock + 1
    /\ UNCHANGED <<creds, admitted, requests, hits, passed, tickets, sockets>>

CredentialEnds(c) ==
    /\ c \in creds /\ creds' = creds \ {c}
    /\ UNCHANGED <<clock, admitted, requests, hits, passed, tickets, sockets>>

IsAdmitted(m) ==
    /\ m \notin admitted /\ admitted' = admitted \cup {m}
    /\ UNCHANGED <<clock, creds, requests, hits, passed, tickets, sockets>>

TicketExpires(r) ==
    /\ tickets[r].state = "issued" /\ tickets' = [tickets EXCEPT ![r].state = "expired"]
    /\ UNCHANGED <<clock, creds, admitted, requests, hits, passed, sockets>>

CallNext(r) ==
    \/ ChecksRow(r) \/ Throttles(r) \/ Acts(r)
    \/ \E m \in Machines, door \in DoorsOf[r] : Send(r, m, door)
    \/ \E good \in BOOLEAN : ChecksBody(r, good) \/ ChecksLease(r, ~good)

PeopleNext ==
    \/ \E c \in Creds : CredentialEnds(c)
    \/ \E m \in Callers : IsAdmitted(m)

SocketStep(s) ==
    \/ Connects(s) \/ Claims(s) \/ Admits(s) \/ OpenFails(s)
    \/ \E outcome \in {"ran", "refused", "thrown"} : HandlesFrame(s, outcome)
    \/ PeerGone(s) \/ Beat(s) \/ Pong(s)
    \/ TicketExpires(TicketFor[s])

DoorNext == (\E r \in HttpCalls : CallNext(r)) \/ PeopleNext \/ (\E s \in Sockets : SocketStep(s)) \/ Ticks

DoorSpec == DoorInit /\ [][DoorNext]_doorVars

-----------------------------------------------------------------------------
(* Properties. *)

DoorTypeOK ==
    /\ clock \in 0..MaxClock /\ creds \subseteq Creds /\ admitted \subseteq Callers
    /\ \A r \in HttpCalls : requests[r].status \in {0, 200, 302, 400, 401, 403, 404, 422, 429, 503}
    /\ \A r \in HttpCalls : tickets[r].state \in {"none", "issued", "consumed", "expired"}
    /\ \A s \in Sockets : sockets[s].at \in {"closed", "claim", "access", "open", "mute", "refused", "terminated"}

Makes(r, check) == requests[r].door # "none" /\ \E i \in DOMAIN Checks[requests[r].door] : Checks[requests[r].door][i] = check

\* A door does what it does for whom it checked, and refuses for a cause: what was refused has not
\* been done; what ended before the request was sent, or is not what the door takes, does nothing; a
\* room acts for its members and a device for a human; and who was told that a proof is no good, or
\* that there is no such room, had no good proof, or was not in the room when asking.
DoorsAreHonest == \A r \in HttpCalls :
    /\ requests[r].status = 200 =>
          /\ Makes(r, "credential") \/ Makes(r, "lease") =>
                requests[r].live /\ KindOf[CredOf[r]] \in Takes(requests[r].door)
          /\ Makes(r, "access") => Member(r) \in admitted
          /\ Makes(r, "human") => Member(r) \in Humans
    /\ requests[r].status # 0 /\ requests[r].status # 200 => tickets[r] = NoTicket
    /\ requests[r].why = "credential" => ~Proven(r)
    /\ requests[r].why = "access" => ~requests[r].in

\* "An IP-keyed sliding window" (server.ts:404) and "it bounds ONE caller's governed-request rate"
\* (server.ts:431): in no window of its length does one process let more than the limit through for
\* one key, however many keys it has swept away in between.
LetThrough(k, m, upTo) ==
    {p \in passed : Key(p[1]) = k /\ p[2] = m /\ p[3] <= upTo /\ p[3] > upTo - WindowMs}

ThrottlesBound == \A r \in HttpCalls, m \in Machines :
    Cardinality(LetThrough(Key(r), m, clock)) <= MaxHits

\* A ticket opens one socket, for the member that asked for it and the room it names; what the socket
\* runs, it runs in order as that member; and a socket that is gone has no subscription, the silent
\* peer's after at most two beats.
SocketsAreTheirs ==
    /\ \A s \in Sockets : sockets[s].at = "open" => sockets[s].actor = Member(TicketFor[s])
    /\ \A s, z \in Sockets : TicketFor[s] = TicketFor[z] /\ s # z =>
          ~(sockets[s].actor # "none" /\ sockets[z].actor # "none")
    /\ \A s \in Sockets : \A i \in DOMAIN sockets[s].ran :
          sockets[s].ran[i] = sockets[s].actor /\ sockets[s].actor \in admitted
    /\ \A s \in Sockets : sockets[s].subscribed <=> HasSocket(s)
    /\ \A s \in Sockets : HasSocket(s) => sockets[s].beats <= 2

\* "A second machine would each keep their own count, which only makes the effective limit STRICTER,
\* never looser" (server.ts:410).
SecondMachineIsStricter == \A r \in HttpCalls :
    Cardinality(UNION {LetThrough(Key(r), m, clock) : m \in Machines}) <= MaxHits

\* A request gets what its door has checked, no more often than the door allows, and a socket is its
\* ticket's.
DoorsHold == DoorsAreHonest /\ ThrottlesBound /\ SocketsAreTheirs
=============================================================================
