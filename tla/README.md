# Playroom, modelled and proved

Playroom is a room where people and hosted agents work over one event log. The API
(`src/apps/api/src`) appends events to PostgreSQL, fans them out over WebSockets, decides with the
fabric (`src/packages/fabric`) what an agent may do, asks a human to co-sign what is protected, and
runs the agents' turns. Almost every rule the product promises ("released exactly once", "a second
summon is refused out loud", "a projection that cannot be rebuilt from the log is a bug") is kept by
asynchronous code whose handlers interleave at each `await`, over tables that are not written in one
transaction. That is what these modules are about.

Paths below are relative to `src/`; `api/` stands for `apps/api/src/`, `web/` for `apps/web/app/`.

## 1. Inventory

| Component | State | Operations | Hard behaviour | What makes it correct |
|---|---|---|---|---|
| **Event log and delivery** (`api/events.ts`, `api/bus.ts`, `api/server.ts` 2050-2557) | `events` rows with a serial `seq`; subscriptions per room and process; each client's cursor | append, publish, open a socket (`hello`, backlog `after=`), frame, close | publish overtakes commit order, or never comes; live events before the backlog; reconnection; an error during the open | a client that stays or returns sees every event once |
| **Room gateway** (`api/server.ts` routes, `api/commands/`) | throttle windows | postMessage, requestAction, summon, handoff, signDecision, order and document commands | one message can start several summons; retries; checks that age between awaits | one effect for one cause; refusals are said aloud |
| **Agent turns** (`api/agent.ts`, `api/spend.ts`, `api/commands/summon.ts`) | the process's in-flight set; started and completed rows | run a turn; deferred work; emit the next summons | two turns of a member; a throw at any await, inside the `try` or before it; the spend read early; restarts; chains | a slot comes back, a turn's end is said, a human behind every chain |
| **Tasks** (`api/tasks.ts`, `api/commands/handoff.ts`) | `tasks` rows; `task.*` events | ensure, announce, transition, hand off | event and row are two statements; stale copies; crashes; replays | the row follows from the log |
| **Co-signatures and writes** (`api/commands/coSign.ts`, `signDecision.ts`, `write.ts`, `api/decisions.ts`) | decision, resolution and write rows | pause, sign, expire, release, record | racing signers; the window; a changed mandate; a crash before the release | at most one release, only after an approval by someone asked |
| **Permission engine** (`packages/fabric/src/evaluate.ts`, `mandate.ts`) | the mandate cache | evaluate, evaluateHostOp | the order of the early returns; conditional grants; facts that come and go | deny by default; protection wins; conditions only open |
| **Standing orders** (`api/orders.ts`, `api/commands/order.ts`, `runOrders.ts`) | `standing_orders` rows: status, counters, the claimed trigger | create, control, edit, trigger, start a cycle, stop | a stop racing a revoke; a claim without a turn; a stale limit | terminal statuses stay, cycles are bounded |
| **Interrupts** (`api/interrupts.ts`) | `interrupts` rows and events | raise, downgrade | the budget is read before it is spent; row before event | the budget holds; a claim is announced |
| **Push notifications** (`api/push.ts`, `push-send.ts`, `web/PushControl.tsx`) | subscriptions, the hour's sends | subscribe, notify, forget, switch on and off | two notices racing for a throttle; an answer of the vendor that is lost; two tabs and one address | what is recorded as delivered was; what is off is gone |
| **Audit chain, receipts, reconciliation** (`api/audit.ts`, `packages/receipt`, `packages/reconcile`) | `audit_chain` rows, anchored roots | anchor, verify, receipt, compare two chains | commitments out of order; damage | one chain, no silent hole |
| **OAuth and credentials** (`api/oauth.ts`, `mcp.ts`) | codes, tokens in families, credentials | consent, exchange, refresh, revoke, verify | rotation in two statements; reuse detection | a code is used once; a revoked family stays dead |
| **Leases and checks** (`api/leases.ts`, `api/facts.ts`) | `leases`, `room_checks` | issue, heartbeat, revoke, report, host operation | heartbeat against expiry and revocation; facts that age | a revoked lease never lives again |
| **Tickets** (`api/tickets.ts`) | `ws_tickets` | issue, consume, sweep | two sockets with one ticket | used once, by its member, in its room |
| **Room codes and members** (`api/room-codes.ts`, `members.ts`, `commands/admit.ts`) | codes; `room_members` | mint, redeem, lapse, create a room, admit | two holders of one seat; a rollback after the claim | one code, one seat, one person |
| **Summary** (`api/summary.ts`) | `room.summary` events; a per-process lock | fold | two processes; messages that commit late; a window that is capped | what is neither folded nor recent is named |
| **Documents, briefings, promotions** (`api/documents.ts`, `briefings.ts`, `promotions.ts`) | their rows and events | add, remove, set, clear, promote | a quota counted before the insert; row and event in two statements | papers are what the log says |
| **Context assembly** (`api/assembly.ts`, `principal-store.ts`) | pooled connections with a role and a principal | assemble | the room moves on between two parts; a connection used next by another | the whole window, and no other principal's |
| **Grok bot cycle** (`packages/hosts`) | its seen set | walk the mentions, propose | failures between a proposal and its record | no mention lost or proposed twice for nothing |
| **Web client** (`apps/web`) | the room page's events, cursor and retry state; the cookie; the push switch | frames, reconnect, buttons, forms | events in any order; a refusal late; two tabs; a cookie and a deployment's token | the screen tells what the log says |
| **Screening and egress** (`packages/screen`, `packages/egress`) | none | scan | - | pattern tables |
| **Adapters, hosts, X reads, write backends** (`packages/`) | none here | calls to outside services | timeouts and failures | nondeterminism of the callers |
| **Wire protocol, scripts, infrastructure** | none at run time | schemas, tools, migrations | - | unique indexes are guards of the modules that rely on them |

How they meet: a browser with a credential, a connected member's MCP call or a node comes through a
**door**. A message goes through the **gateway**, which asks the **permission engine** and either
summons (a **task**, a summon event, then a deferred **turn**), opens a **co-signature**, or refuses. A
turn is shown its **window**, and its end moves its task and tells the **standing orders**, which may
summon again. What needs a human **interrupts** one, and a **push** says so. Everything reaches the room
through the **log** and its **delivery**, and the **screens** fold it.

## 2. Modules

| Module | Models | Checked in |
|---|---|---|
| `AgentTurns` | `runAgentTurn` and the end of `fireSummon`, one process, one room | `turns`, `turns_overlap` |
| `SummonChains` | who may make whom speak: roots, emissions, depth, routes | `doors` |
| `Proposals` | the request for an action, from the asker's retries to the poll; the bot and a turn's emissions | `doors` |
| `ContextAssembly` | a turn's window, the private stores, promotions | `doors` |
| `ExecutionGate` | `evaluate` and `evaluateHostOp`, and the world they are asked in | `doors` |
| `Gateway` | every route and MCP tool as a row of checks, throttles, tickets, frames, heartbeats | `doors` |
| `TaskLedger` | one task: its row, its events and the commands that write both | `task`, `task_overlap` |
| `OneShotApproval` | the abstract promise of a co-signature | `cosign` |
| `CoSign` | the co-signature as coded, shown to implement `OneShotApproval` | `cosign`, `turns` |
| `EventDelivery` | the log of one room, the bus, the open handler, and the page that loads, follows, reconnects | `delivery`, `delivery_gap` |
| `Screens` | what a page makes of its events, which buttons it offers, what a refusal does to it | `delivery`, `room_killed` |
| `StandingOrders` | the rows of standing orders, humans' commands, the walk of a completed turn | `people`, `loops_terminal` |
| `Interrupts` | claims on attention and their budget | `people` |
| `PushSends` | devices, the throttle, the sends | `people` |
| `Browser` | the cookie, the forms, the pages, the push switch in several tabs | `people` |
| `OAuthGrants` | consent, code, token families | `people` |
| `Leases` | a node's session, its reports and operations | `people` |
| `Seats` | rooms, members, codes | `people` |
| `Posting` | the composer, the socket's queue, the door; a message, its notice, its summons | `rooms` |
| `RoomPapers` | documents and briefings | `rooms` |
| `RoomSummary` | the folds of several processes | `rooms` |
| `AuditChain` | commitments, anchors, receipts, verification, reconciliation | `rooms` |
| `*_proofs` | the theorems of `AgentTurns`, `TaskLedger`, `CoSign`, `ExecutionGate` | |
| `Page_proofs` | the theorems of `EventDelivery` and `Screens`, each by itself and side by side | |
| `People_proofs` | the theorems of the seven components of `people`, each by itself and side by side | |
| `Rooms_proofs` | the theorems of the four components of `rooms`, each by itself and side by side | |
| `Doors_proofs` | the theorems of the four components of `doors` besides the gate, each by itself and side by side | |
| `MC*` | instances for TLC, with their `.cfg` files | |

**Compositions.** `MCTurns`, `MCPage`, `MCRooms`, `MCPeople` and `MCDoors` check several components in one
run. Where components share no state while they run, the variable `focus` picks the one that moves in a
behaviour, so that the state space is the sum of theirs and not the product. Where components do share
state they are one module: a task and its commands, a socket and its page, a message and its summons, a
decision and its racing signers, a switch and the cookie it acts with.

### AgentTurns

`pc[t]` is the await at which turn `t` is suspended. *Waiting* turns have not taken the slot;
*Holding* turns are between `inFlight.add` and the release; *Trailing* turns are past the release in
the middle of the function. Each action is the synchronous stretch between two awaits: `ReadSpend`
takes the database's answer of `spendToday`, and the turn is refused or admitted on that answer
later; `Refuse` and `Admit` test the in-flight set in the same stretch as they act, as the code does;
`Release` is the early `inFlight.delete` (agent.ts:777) and `Finally` the second one (988), which
deletes the member's key whoever holds it by then. Any await of a turn in `Faulty` may throw, and what
follows depends on where. `Throw` is inside the `try` (agent.ts:578): the catch block runs, then the
finally block. `CatchThrows` is a failure of the catch block itself: only the finally block runs.
`ThrowEarly` is before the slot is taken (`spendToday`, or the message of the refusal): the turn ends
with nothing said. `Strand` is between `inFlight.add` (555) and the `try` (`systemPrompt` reads a file, the
member may have no adapter): neither block runs and the slot stays taken. `Restart` empties the in-flight set
and ends the coroutines. `SlotHasTurn` and `SlotFreed` say that the set-up is the only way out that locks a member
out; `EndsAreTold` (`NeverSilent` and `TaskMatchesLog`) says what each way of ending leaves in the log, in the room
and on the task, the ways that leave nothing included: `Unguarded` are the turns ended by a throw outside the `try`,
`Broken` those ended by a throw of the catch block or with the process. A turn costs one unit, its text and timings
are left out.

### SummonChains

A *job* is one summon on its way: routed, paused for a signature, appended, started, completed. Its
`root` and `depth` travel with it, since `Chain` computes what the next hop is given. `NoDrift` is the
repository's own drift query (scripts/sql/summon-drift.sql): every turn traces to a summon with a human root,
and no two turns cite one summon. `OneSummonPerCause` says that replays, retries and the release of a held
summon never call a member twice for one cause; `ProvenanceIsWalk` that the depth and root written on a row
are what a walk over the causes finds; `EmissionsAreAnswered`
that a name emitted by a turn becomes a summon, a decision or a notice unless a process died. Any turn may emit a
summon, whatever its mandate says: the tool is only not offered to it (agent.ts:634-636), and `RefuseEmitted` is what
meets the call. An emission that names nobody (`Unnamed`: no member, an empty one, or not a string) is dropped where
the stream is read (`Collected`, agent.ts:690-692) and answered by nobody; the property is of names, and says so.

### Proposals

`asks` are requests for a protected action made by a node over HTTP, by the bot's cycle or by a turn's
emissions (`MAX_ACTIONS_PER_TURN`, the malformed ones refused). A caller may send again; the verdict may
change between two awaits. `AskersHearTheLog`: whatever an asker was told, the log holds.
`SignersWereTold`: an asker that waits does not wait for nothing, everybody who could sign was interrupted or
the budget refused it.
`MentionsAreProposed` and `EmissionsAreRouted` say nothing is dropped on the bot's or the turn's walk.

### ContextAssembly

A reader (a turn or a promotion) takes part after part of the room, which changes between any two, then a
connection of the pool on which it sets a role and a principal for the length of a transaction. `OwnStoreOnly`
holds over every reuse of the connection; `SummarisedOrRecent` says the summary and the recent messages of
one window leave no gap though they were read at different times; `ReadsTheRoom` that what the room
worked with when the turn started is in its window unless it was taken back; `PromotionsAreOwn` that only a human carries out a note and only
from the store of their principal.

### Gateway

A door is the sequence of its checks, made one at a time while credentials end, leases lapse and members are
admitted: who asks (`"credential"`, or a node's `"lease"`; `Takes` says which proofs a door accepts: /mcp takes an OAuth
token as well, a node's doors nothing but a lease token), `"human"`, `"throttle"`, `"shape"`, `"access"`, `"exists"`,
the `"hostOp"` and the `"scope"` of a lease, whether the deployment is `"configured"`, and last the `"command"` itself.
Every route of server.ts is in the table, those without a check too (`OpenDoor`, `RevokeDoor`), and every MCP tool.
A refusal has the statuses its door gives it: `CommandStatuses` are those of `orderRefusalStatus`, of a hand
raised too often (429), of the codes and of the grants, and 422 for the rest. A request that throws has a 500 and is
left out, and a refusal of an MCP tool is a text in a 200, so what its checks answer is why it did nothing.
`DoorsAreHonest` says what a status told is true of the moment its check was made, and that nothing was done by a
request that failed one. A window of a throttle is counted by key (`Key`): the address where nobody is known yet; else
the credential, the lease of a node, or the member of an OAuth token, who may hold many. The action door, /mcp and the
host operations share one map, each under its own keys. `ThrottlesBound` bounds what one window lets through of a
key, with the sweep of idle keys. `SocketsAreTheirs` ties a socket to the one ticket it claimed, its member and
its room, through frames, heartbeats and termination.

### ExecutionGate

`HostOp` and `Evaluate` have the code's checks in the order of its early returns. A glob is the set of
resources it matches, so every way two patterns can overlap is covered by subsets of `Resources`.
`VerdictIsMeant` gives each verdict a declarative meaning (`<=>`), so that the order of the returns is
what is checked; `VerdictsMove` says that facts only open and protected grants only close. Around it facts
come and go, members join, the mandate expires and grants are added.

### TaskLedger

One task is enough: no code relates two. A command is a summon (the first, or a replay of its
cause), a turn (`moveTask`) or a handoff. Every one reads the row (or inserts it), appends an event
built from **its copy**, and updates the row, three round trips. `copy` and `goal` are what the
command carries across them. `overlapped` is a history variable: it separates what the order "event
first, row second" gives always from what it gives only when commands do not overlap (`QuietHistory`).

### CoSign and OneShotApproval

`OneShotApproval` has three actions: a decision waits, it is answered once, and an approval lets its
effect happen at most once for each thing asked for. `CoSign` maps to it with `answer` derived from
the decision event and its resolution row, `effects` the same variable; the clock, the checks,
refusals, records, faults and restarts are stutters. Two decisions may hold the same thing: a
replayed request opens a second decision (the id is random, `coSign.ts:48`) for the same summon, which
the unique index on the cause then releases once.

### EventDelivery

An event is its number. `row[e]` follows its row from the INSERT that takes the number (`inserting`)
through the commit to the publication; a restart aborts the first and orphans the second. A writer may also fail
between the two while the process and the sockets live (`Withhold`, `"silent"`): handoffTask and transitionTask append
the event, then update the row, and return the event to be published only if that did not throw (tasks.ts:192-204,
162-171); so does downgradeInterrupt (interrupts.ts:372-391), and the event of promoteContent is never published. `socket` is
the await at which `accepted` is suspended, `after`, `helloSeq` and `backlog` what it carries across them;
the subscription holds in every state from the dial to the close, a refused ticket ending it first. The
backlog query is cut at its read and its answer, because what is published in between goes out before
the replay. A frame on `wire` carries a set of events, sent in the order of their numbers and received one
by one. The page has the refs of `Room.tsx` (`seen`, `cursor`, `oldest`, `hasOlder`, the meter's baseline) and
the state of its effect: fetch the window, show it, get a ticket, dial, wait and dial again.

Three history variables and the row name the three causes of a gap. `overtaken`: a row committed, or was published,
before a lower one was (numbers are given out before commits, and a writer publishes after its own).
`ahead` and `skipped`: a connection delivered a live event before its replay, and ended before the
replay did. `"silent"`: nobody published the row, so an open page does not hear of it, and once a later one has moved
the cursor it is not replayed either, until the page is loaded again. `GapsHaveACause` says there is no fourth. `MeterNeverLow` is half of what server.ts:2160-2163
says: there is no gap, but there can be a double count, since `roomSpend` is not scoped to `helloSeq` and may
sum a row past it, which the page adds again.

### Screens

A *story* is a short history of a room that people watch: a card, a blocked action, an interrupt, turns, a
task, an order. Its events reach each page in any order and in pieces. `ScreenIsTrue`: in whatever
order events come, each thing is on the page once, and says what the log says when its events are in hand. `OfferedIsTheirs`: a
button is offered only to a viewer the server will hear. `CalledWhenNeeded`: the page calls its viewer exactly when a card on it can be signed, and
however many pages are stale a decision is answered once. `StopsForCause`: a page that ends for good was refused at the handshake, or was told of a
card or chip answered elsewhere, the case that `room_killed` is about.

### StandingOrders

Every status is appended to the log first and written to the row afterwards, by an UPDATE that does not
look at what it replaces; the claim of a trigger and the count of a cycle are guarded UPDATEs. A turn is
what the orders see of one, and the member's slot is not exclusive, as `turns_overlap` shows: the key is deleted at
the completed row and again by the finally block of a turn in `trailing`, whoever holds it by then. So two turns of a
member may be counted on one order before either has stopped it; `crowded` is the history of such counts, and the
cap and the dial may be passed by one for each. A throw in the walk skips the order (`SkipOrder`), in the turn it
fails the turn (`FailTurn`), in the set-up it leaves the key (`Strand`). `BoundsHold` is the conjunction `CapHolds`, `DialHolds`, `CountIsLogged`,
`ExhaustedIsStopping`, `ClaimIsTurn`, `RowFromLog`, each with the races it tolerates spelled out.
`SettledIsOver`: a terminal status is left only by such a blind UPDATE.

### Interrupts, PushSends

A raise counts the day's events, inserts a row keyed by subject and person, then appends. `InterruptsHold` is
`ToldOnce` (a claim on someone's attention is in the log or its writer died; an answer is a claim's) and
`PaidOnce` (the budget, exceeded by no more than the calls that raced; a downgrade charged once).
`PushSends` reads the devices and the hour once and sends one after the other. The vendor takes a message, or the
call throws, or both, when its answer is lost (`unheard`). A row that says "delivered" is a push that was taken and
answered for; one that was taken has that row unless a statement threw or died, or is in `unheard`, and then
the row calls it failed. The throttle is passed only by notices that overlapped, an address reported gone is deleted.

### Browser

Two tabs share a browser's permission, subscription and cookie, and every request of the web tier acts as
the cookie's member, or the deployment's when there is none. `ActsAreTheirs`: a deed is recorded as whoever
is logged in, and after a redemption never as the deployment before a session has ended. `SwitchIsTrue`: the switch of a browser's only
room shows "off" without a subscription and "on" with one, backed by a row unless a request failed or a session
ended. `OrphansHaveACause`: a row for an
address the browser gave up has one of the causes listed. `AskedFirst`: no permission prompt and no
subscription without a press.

### OAuthGrants, Leases, Seats

`GrantIsOneChain`: at most one live refresh token a family, and a severed family stays severed but for a pair
that was being inserted. `LeaseIsTrue`: a heartbeat answers only for a lease that lives, and an operation that
rests on a passing report rests on one not known to be superseded when it was read. `SeatsHold`: a code seats
one person, a redemption leaves everything or nothing, a second holder of a seat is a race that is named, only
the owner admits. `WhatEndsStaysEnded` joins `SettledIsOver`, `OverIsForGood` (leases) and `AccessEnds` (tokens)
as action properties.

### Posting, RoomPapers, RoomSummary, AuditChain

`Posting` follows a message from the box of the page, or a retrying door call, through the queue of frames
behind a socket to its row, notice and summons. `RetriesAreSafe` (`SaidOnce`, `SummonsStart`) and
`PostsArrive` (`InOrder`, `TextIsSomewhere`, `TagsAnswered`, `TagsReachBot`) make `PostsHold`. A summon in the log has
its turn, or its call is about to start it, or is in `stranded`: a fault ended the call between the two, and then the
turn never starts, since a retry finds the row and returns. The listing of a member that polls goes back to the last
event of the member, of whatever kind (`acted` stands for those that are no messages, the `route.selected` of
somebody else's summon among them), looks through `ScanLimit` messages (the code's 500) and returns `TagLimit` tags;
a tag that was cleared and never given is behind one of these, or came after the listing.
`PapersAgree` is
`QuotaUnlessRaced`, `DocumentsAnnounced` and `BriefingLogIsTheTable` (set and clear are serialised by the table,
so the log replays to it). `MemoryIsWhole` is `NothingForgotten` and `RecentStayVerbatim`. What a summon is given word
for word (`Verbatim`) is the newest `Window + Trigger` messages past the summary; a message in neither was late, or is
among the oldest of a tail that is due to be folded (`FoldIsDue`) and is not yet, since the fold is on its way or gave up. `AuditHolds` is
`ChainIsWhole` (`UndamagedVerifies`, `NoSilentHole`) and `EvidenceIsTrue` (`DamageIsFound`, `ReceiptProves`,
`ReconcileTells`); a hash is the history it was made from, so equal hashes mean equal histories.

## 3. Runs

| Run | Bounds | Shows |
|---|---|---|
| `turns` | three turns of one member, one of another; one may throw, anywhere; ceiling 2; one restart. Two decisions, three calls, no faults | `SlotHasTurn`, `EndsAreTold`, `ContinuedOnce`, `CeilingCloses`; with fairness `SlotFreed` and `AnswersSettle` |
| `turns_overlap` | three turns of one member | **violation** of `OneTurnPerMember` |
| `task` | five commands, three at once, two crashes, two members | `RowFromLog`, `CreatedOnce`, `HolderMovesByHandoff`; without overlap `QuietHistory` |
| `task_overlap` | a turn and a handoff at once | **violation** of `RowIsRebuildable` |
| `cosign` | a summon asked for twice and a write, three calls, two mandates, faults, one restart | `OneShot` (the refinement), `AnsweredAsRuled`, `ReleaseInHand`, `RecordsAreEarned` |
| `delivery` | two rows of the past (one below the summary's floor), two to come, pages of one, two faults (a writer that does not publish is one); for the screens stories of at most five events in two pieces, four viewers, two presses | `OpenSocketMissesNothing`, `GapsHaveACause`, `MeterNeverLow`, `CursorIsShown`, `ScreensHold`; with fairness `CatchesUp` |
| `delivery_gap` | one fault | **violation** of `DroppedSocketLosesNothing` |
| `room_killed` | the same stories | **violation** of `LiveRoomIsNotKilled` |
| `people` | two orders over four turns, two turns of one member at once among them; three raises over two days; two notices to two devices; three token requests over two grants; one lease, two operations, two reports; two codes for one seat, three people; two tabs, one code | `TypeOK`, `BoundsHold`, `InterruptsHold`, `DevicesHold`, `GrantIsOneChain`, `LeaseIsTrue`, `SeatsHold`, `WhatEndsStaysEnded` |
| `loops_terminal` | one order, two commands | **violation** of `TerminalIsForGood` |
| `doors` | up to three host grants over two globs and one fact; two roots and two emissions; five asks sent twice at most; two changes of the room while a window is read; every door by itself and beside an order's, three requests at a throttle, two OAuth tokens of one member and a lease beside them, three sockets; one hit a window | `DoorsTypeOK`, `VerdictIsMeant`, `VerdictsMove`, `ChainsHold`, `ProposalsHold`, `WindowsHold`, `DoorsHold` |
| `rooms` | three posts of a page or a door call with its retry or a second one, and an agent's beside them; one tag and two messages a listing, one fault; two documents for a room that holds one; two briefings and a clear; three folds over six messages; three commitments, two anchors, two damages | `TypeOK`, `PostsHold`, `PapersAgree`, `MemoryIsWhole`, `AuditHolds` |

Many properties are conjunctions: each part is a definition of its own, with its own comment. The operators
that a comment calls a mutant are wrong variants of the operator that follows them, one for each part they were
written against; the ones PROJECT.json lists are those of whole properties.

Why the bounds are enough to be interesting. The slot is stolen only with three turns of one member
(one in its tail, one streaming, one arriving); the second success reaches the ceiling while others
are cleared. A task needs two writers besides its summon for the stale copy, and a crash on top. A
signature race needs two calls on one decision, and a third for the other decision of the same thing. A
gap needs one row to come late and one above it, on a page that already has a row to resume from and one to page
in; two faults allow a second reconnection. In the gate, a grant and a protection of the same type, one with a fact and one without, over overlapping
globs, are three grants. A chain of two emissions reaches one hop past a cap of one human root; two orders let
one turn trigger both. Two raises about one thing race for a key, a third for the budget. A retry and its
original, and one call with another id, are the least that tell "once" from "once an id". Three folds let two
processes race and a third build on the loser. Two tabs are the least for one to give up what the other
registers; one address is enough, since a second is the first after its row is gone. Two turns of one member, counted on one order before either
stopped it, reach the slack of the cap; that of the dial takes more turns than fit, and is left to its proof. Whatever is counted
(faults, restarts, clocks, changes) is bounded by a constant named `Max...`.

To keep the sums small the MC modules add a few conjuncts to their next-state relations, each a named operator. Calls
that only their names tell apart start in the order of the names (`InTurn`), which loses no
behaviour. Five cut behaviours: `NotAllAtOnce` (two commands race over two orders without a fault, or over one with
it; two turns that people asked for, `TwoAsked`, with neither), `Page` and `Door` in `MCRooms` (the page posts or the
door is called; a third post on the first connection), `FewEmitted` (a fault strikes a chain in which one name was emitted) and `Edited` (a mandate that is not
in force whatever it grants is given one host grant).

`CHECK_DEADLOCK FALSE` is set where the constants list finitely many turns, commands, calls or rows: when all
have ended nothing is left to do.

**Fairness.** `AgentTurns` and `CoSign` assume weak fairness of each coroutine's own steps: every await
settles, because a query answers or throws and provider calls carry a timeout. Nothing is assumed of faults,
restarts, clicks or the clock. `SlotFreed` holds with failures and restarts included, unless a set-up threw; `AnswersSettle` is
about runs without them (the other half is `ReleaseInHand`, which says what a fault can cost).
`EventDelivery` assumes that writers, the open handler, the page's effect and its timers, and the receipt of
frames go on; a lost connection, a restart or an older page need never happen. `CatchesUp` excuses a page
that was refused, which `Room.tsx` makes final, a socket whose open failed, which the server leaves as it
is until the connection is lost, and the rows that nobody published since the page's last hello. The other components are checked for safety only: what they owe is dropped on
a crash by design (`api/background.ts`), and their properties name the crash as the excuse.

## 4. Findings

1. `turns_overlap`: `inFlight.delete` runs twice (agent.ts:777 and 988); the second can free a slot that
   another turn has taken, and a third turn streams beside it, against agent.ts:378-382.
2. `task_overlap`: PR-8 (README.md:141) does not hold of `tasks`: overlapping writers leave the row at a
   state that is not the log's last one. (A crash between the insert and `task.created`, which
   `RowBehindByCrashes` allows, leaves a row whose first event never comes.)
3. `delivery_gap`: the page resumes from the highest number it has seen (Room.tsx:692), and live events come
   before the replay (server.ts:2067): a connection lost in between loses the rows below, against the
   architecture bible's "a dropped socket never loses a receipt" (line 528).
4. `loops_terminal`: `setOrderStatus` does not look at the status it replaces (orders.ts:165-171), so a stop that
   read ACTIVE overwrites a REVOKED written in between, and the order can be resumed, against orders.ts:13.
5. `room_killed`: a refusal that an Approve, a Deny or a "lower" can provoke is not in `COMMAND_REFUSALS`
   (refusals.ts:31), and the page takes it for a refused handshake.

Smaller disagreements are stated as definitions that no run checks, each beside the property that does hold and
with the line it comes from. TLC refutes every one of them on the instances here (`SecondMachineIsStricter` with a second
machine added to `Machines`):

* `ReleasesExactlyOnce`, `ExpiredNeverResolves`, `FailedMeansNotDone` (`CoSign`): a release is at most once, nothing
  resumes it after a restart; a decision that a poll has shown as expired can be resolved by a call under way; a
  write that was performed can be recorded as failed.
* `RevocationSevers` (`OAuthGrants`): a rotation under way inserts a live pair into a family revoked meanwhile.
* `SpentStaysSpent` (`Seats`, room-codes.ts:100): codes whose mints had passed the check when the seat was taken
  can be redeemed too.
* `AttentionIsHuman` (`Posting`): an agent's message, by the door,
  resets the attendance count as a person's would.
* `NextFoldAdvances` (`RoomSummary`, summary.ts:47-50): a fold can end at a seq already covered, where every retry
  ends too.
* `CycleIsOrderRooted` (`SummonChains`, commands/context.ts:31-36): a summon that was held and released loses
  its order. `RepeatCollapses` (`Proposals`,
  packages/hosts/src/server.ts:20): an action asked for twice can have two decisions. `SecondMachineIsStricter` (`Gateway`, server.ts:410): a second machine has its own
  windows.
* `OffDeletes`, `RoomIsTheirs`, `TryAgainWorks` (`Browser`, PushControl.tsx:155, session.ts:25, JoinForm.tsx:50):
  "off" gives up the browser's subscription whatever the API answered; a room opened before the code was redeemed, or
  after the session ran out, acts as the deployment; a redemption whose answer was lost cannot be tried again.

What the properties excuse, because the code does it, disagrees with the code's own words in places too:

* agent.ts:491 ("never a silent hang") and 775-776 ("every path that leaves before this line ... has to release the
  slot too"): a throw before the `try` writes no row, and one after `inFlight.add` keeps the slot (`NeverSilent`,
  `SlotHasTurn`).
* agent.ts:690-692: a summon emitted without a name is dropped, where a name that is not a member's is refused aloud
  (`EmissionsAreAnswered`).
* commands/summon.ts:366-370 ("the turn it authorises is already running or already done"): not after a fault between
  the row and the turn (`SummonsStart`).
* assembly.ts:414-416 ("never both and never neither") and events.ts:271-273 ("no gap"): the window is capped, and a
  message may commit below what is covered (`NothingForgotten`).
* server.ts:801-803 ("the log of what was actually attempted"): a push whose answer was lost is in the log as failed
  (`SendsAreTrue`).
* server.ts:2065 ("no event committed during replay is missed"): one that is not published is (`GapsHaveACause`).

## 5. Proofs

All theorems are for every value of the constants under the named assumptions of the modules
(`...Assumption`), which say only that the constants have the shapes the comments give them.

* **AgentTurns_proofs.** `TypeInvariant`, then the conjunction of the four invariants with what they need
  of `pc` (which rows exist at which await) is inductive; one step per action. `SlotAlwaysHasTurn` needs that
  a member in the set has a holder or a turn of `StrandedOf`, which `Admit` and `Strand` establish and only the two
  deletes and a restart can end. `EndsAreToldHolds` joins `NeverSilentHolds` and `TaskMatchesLogHolds`. `CeilingClosesHolds` is an action
  property: with the ceiling reached `ReadSpend` clears nobody.
* **TaskLedger_proofs.** The strengthening is `EventFirst`: a command about to update the row has its event
  in the log. From it `RowFromLogHolds` and `HolderMovesByHandoffHolds`; `CreatedOnceHolds` rests on `OneBirth`
  (only the call that inserted the row announces it). `QuietHistoryHolds` is about commands that do not overlap:
  then one runs at a time on the row it read (`InTurn`), and the row is behind the log by the crashes there were,
  plus the event of the command that is between its two writes (`Follows`).
* **CoSign_proofs.** `SigningIsOneShot` is the refinement, initial state and steps: the invariant says
  that a releasing call's decision carries its answer, that two calls are never releasing the same decision,
  and that a thing's effect is untouched while its only call is about to perform it.
  `AnsweredAsRuledHolds` needs that a cleared call's mandate is still the one it compared (only a restart
  changes it, and a restart ends the call). `ReleaseInHandHolds` is an invariant of its own.
  `RecordsAreEarnedHolds` needs `SaysOnce`: a decision is recorded by the one call that releases it, which has not
  recorded it yet and whose place says what it has done so far.
* **Page_proofs.** *EventDelivery*: `Load` (what a sequence of frames carries) and three lemmas on `Append`, `Tail` and a
  shortened head give what each action does to the wire; `LowestIsLeast` and `NewestIsGreatest` give the two
  `CHOOSE`s their meaning. `OpenSocketMissesNothingHolds` needs `ReplayMissesNothing`: between the backlog's read
  and its answer, a published row is in the answer or was heard on the bus, which is the reason to subscribe
  first. `MeterNeverLowHolds` needs `InOrder`: while no row overtakes another, the rows below a durable one are
  settled, so every number a hello was, or will be, made of is covered by its sum. `CursorIsShownHolds` uses
  the same `LogFirst`. `GapsHaveACauseHolds` is the longest. `GapInv` says that, while no row overtakes another, a
  live frame has every lower row past the socket's cursor before it unless the handler has still to replay it
  (`LiveInOrder`), that a replay, a backlog and a window have no holes (`Whole`), and so that whatever the page's
  cursor passed is shown, can be paged in, is silent, or is owed by a connection that was ahead of its replay
  (`Accounted`); what is silent stays so (`SilenceStays`).
  *Screens*: `ScreensHoldHolds`. `Sorted` gives every event its place, the events that go before it counted, so that
  it keeps the events and puts them in order is a matter of cardinalities (`SortedAscends`). The log has a discipline
  that a page relies on: a thing's first event is the one that opens its row (`BeginsFirst`), nothing follows the one that
  settles it (`EndsLast`), and the pieces of a reply are numbered in order (`PiecesCount`). With it, folding any set of
  the log's events in order makes one row for each thing whose beginning or end is in hand, and the row says the last
  that is in hand of it (`Shown`, `RowIsTrue`); this is an induction on the length of the fold, done by the smallest
  counterexample. The invariant `ScreensInv` adds that the log is of the story that is told (`StoryKept`), that a page
  has its events once and in order (`PagesKept`), that the presses on their way to the server are of what was begun
  (`FramesKept`, `LoopsKept`), and that a page that ended was given cause (`CauseKept`). The assumption added for this proof: a thing is of one kind, and no member is "nobody".
  `PageKeepsItsWord` carries the promises of both over to the instance that the run checks.
* **ExecutionGate_proofs.** The state invariant is only the types; the theorems are case splits over the
  evaluator's early returns. `VerdictIsMeantHolds` and `VerdictsMoveHolds` join them into the two properties that
  `doors` checks.

* **People_proofs.** One part per component, each under the component's own specification.
  *Leases* (`LeaseIsTrueHolds`, `OverIsForGoodHolds`), *OAuthGrants* (`GrantIsOneChainHolds`,
  `AccessEndsHolds`: what a chain of tokens allows ends with any of its members, which rests on every access
  token of a chain being of its newest refresh or older and revoked) and *Seats* (`SeatsHoldAlways`).
  *Interrupts*: `InterruptsHoldAlways` needs that a day's charges are the rows said to be charged and that a
  raiser between two awaits has read what the log said then. *StandingOrders*: `BoundsHoldAlways` is the longest.
  Its invariant `OrderInv` says that every status about to be
  written was said in the log before (`Backed`), that a trigger gave one summon (`OnePerTrigger`), that the log and
  the turns correspond (`LogIsTurns`, `CountInv`, `ClaimIsTurn`), that a command in flight works on terms it read
  (`TermsAreRead`, `EditIsSaid`), and `CapInv` and `DialInv`: a cycle past the cap is paid for by a resume that is on
  its way or was written over a cap already reached, by a fault, or by a count made beside another's (`crowded`).
  Nothing is assumed of the slot. *PushSends*: `SendsAreTrueHolds` follows a taken message
  to its row, or into `unheard`, and counts a throttle's window as the hour's sends
  plus those still to be delivered, one crowd for each device allowed. *Browser*: `BrowserHoldsAlways` needs that
  the switch of the only open room mirrors what the browser has subscribed. The last part carries the promises
  over to the composition: a step of `MCPeople` is a step of one component and leaves the others as they are
  (`EachGoesOn`), so each behaviour of all is one of each (`EachIsItself`). The assumptions added for the proofs are
  that the sets of orders, controls, calls, notices and endpoints are finite.

* **Rooms_proofs.** One part per component, and `RoomsKeepTheirWord` for all of them side by side.
  *RoomSummary*: `MemoryIsWholeHolds` needs that a summary was made from all that was committed up to its seq
  when it was read (`SummariesWhole`), that a fold goes on from a summary there is (`ReadsASummary`), that what it
  counted leaves a window (`TailIsLong`), and that its batch starts where that summary ends (`BatchesFollow`). Since every
  summary leaves a window behind it (`WindowFollows`), what is past it and not word for word is the oldest of a tail
  that is too long (`OutOfTheWindow`), and a window's worth of the latest is word for word (`LatestInTheWindow`).
  *RoomPapers*: `PapersAgreeHolds` joins three invariants, of the documents (what each call still has to say of the
  row it wrote), of the briefings (one transaction holds the active row, and knows it), and of the quota: what the room
  holds, less what was crowded in, fits, and so it would with each upload that read the total and was not overtaken.
  What a sum of sizes comes to with one more is proved by the smallest counterexample.
  *Posting*: `PostsHoldHolds` is the longest. `PostInv` says where a text is between the box and the log
  (`PageHolds`, `LinesHold`), that no later text of the page starts before an earlier one (`NoneOvertakes`), from which
  the order of the log (`LogHolds`, `InOrder`), and what is said of every name of a message at each await of its
  command (`SummonsHold`, `TagsHold`, `BotHolds`), the summons that a fault stranded among it. Of a listing, what it
  leaves out is behind as many as it takes (`LeftOut`); steps that leave the log and the turns alone are done
  together (`AsideStep`).
  *AuditChain*: `AuditHoldsHolds`. While nothing is damaged each entry is its history (`ChainClean`), one anchor
  runs (`OneAnchors`), and what it read is still so (`AnchorsRead`); a root that left the system is clean, whatever
  happens later (`RootsClean`). `LinkedRows` says that in any rows that follow each other and recompute, an entry
  holds all that was chained up to it: the verifiers' answers follow from it, with or without damage. The
  assumptions added for these proofs: uploads and commitments are finitely many, the page numbers its posts from 1.

* **Doors_proofs.** One part per component besides the gate, and `DoorsKeepTheirWord` for all of them side by side.
  *SummonChains*: `ChainsHoldHolds`. `ChainInv` says of every job, of every summon that is held and of every row that
  its cause is in the log and that root, depth and order are those its cause gives it; the walk, a recursive function
  on the rows, is unfolded once for each row that is added, since a cause comes before what it caused.
  *Proposals*: `ProposalsHoldHolds`. `AskInv` weighs each ask: its decisions and the calls that have still to write
  one are no more than its sends (`CountHolds`), an answer that is awaited has a call or a mishap (`Awaited`), and
  the places of the cycle and of the emissions say what is behind them (`CycleHolds`, `EmissionHolds`).
  *ContextAssembly*: `WindowsHoldHolds`. A connection is held by one, restricted and named before a store is read
  over it (`PoolHolds`); what is read is the reader's own (`OwnHolds`); what was there when the window was begun has
  been read or still will be (`SinceHolds`), which is what the floor in hand is for; a promotion is of an item that was
  checked (`PlaceHolds`, `PromotedHolds`).
  *Gateway*: `DoorsHoldHolds` is the longest. A request has passed the checks before the one it is at
  (`RequestHolds`), and a ticket is its member's (`TicketHolds`). The throttles' invariant (`KeyCounts`) says that,
  however far one looks back within the window, what was let through of a key is among the hits its process still
  counts: so neither filtering old hits nor sweeping old keys loses anybody who counts. `Recent` is what follows the
  last old hit: hits are pushed as the clock goes, so that is what the code's filter leaves. Of sockets, what each has run
  and that no two share a ticket (`SocketHolds`, `OneActor`).
  A step of `MCDoors` is a step of one component and leaves the others as they are (`EachIsItself`), whichever part of
  it `focus` picks, so each behaviour of the instance is one of each (`ComponentsHold`). The assumptions added for
  these proofs: bounds are numbers and the clock outlasts a window (`WindowMs <= MaxClock`), nobody is called
  "nobody" and no turn is a promotion, what may be noted is in the stores, actions of a turn are not mentions, each
  call has the doors of the table and each socket frames of it, and `focus` picks readers, calls and sockets there are.

Only model-checked: liveness (`SlotFreed`, `AnswersSettle`, `CatchesUp`), which the prover cannot reach.

## 6. Not modelled, and why

* **Text screening and egress patterns**: regular expressions over text; no state to explore.
* **Provider adapters, hosts, X reads, write backends**: clients of outside services, whose answers and failures
  are the nondeterminism of the modules that call them.
* **The wire protocol**: Zod schemas, which are the shapes of the records here.
* **Scripts, migrations, deployment**: command-line tools; a unique index is a guard of the module that relies on
  it.
* **Layout, texts, the landing and development pages, the build stamp, the warm-up requests, the registration of
  OAuth clients, the typed appends of each event kind**: they change no state, or write one row each.
* **Cryptography**: a signature is valid or not, a hash is what was hashed.
