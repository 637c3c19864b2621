----------------------------- MODULE Proposals -------------------------------
(***************************************************************************)
(* How an action is asked for and what the asker is told: the doors        *)
(* (server.ts, mcp.ts), requestActionCommand, the decision it records and  *)
(* the people it interrupts (commands/coSign.ts), the poll of the          *)
(* decision, what a turn emits (agent.ts), and the reply bot that walks    *)
(* the mentions of a handle (grokbot.ts).                                  *)
(*                                                                         *)
(* The verdict is any the mandate gives the subject (ExecutionGate says    *)
(* which); the budget lets an interrupt through or not (Interrupts); how a *)
(* decision is resolved is CoSign's, here it is resolved once.  An ask and *)
(* its retries carry one client id.  Abstracted: hashes, screening of      *)
(* texts, what an action is.                                               *)
(***************************************************************************)
EXTENDS Naturals, Sequences, FiniteSets

CONSTANTS
    Asks,          \* the client ids: what is asked for, once or again
    SubjectOf,     \* [Asks -> subjects]
    ByOf,          \* [Asks -> who asks]
    VerdictsOf,    \* [Asks -> what evaluate may say of it while it is asked]
    Mentions,      \* the asks that are replies of the bot, numbers: it walks them in order
    Emissions,     \* sequences of "good" (an ask) and "bad": what a turn emits
    TurnAsks,      \* a sequence of Asks: the client ids of a turn's well-formed emissions
    Signers,       \* the humans of the signer's principal
    MAX_ACTIONS_PER_TURN,
    MaxSends,      \* bound: how often one ask is sent
    MaxAskFaults

ASSUME MentionsAssumption == Mentions \subseteq Asks \cap Nat
ASSUME VerdictsAssumption == VerdictsOf \in [Asks -> SUBSET {"ALLOW", "CO_SIGN", "BLOCK"}]
ASSUME AskBounds == MaxSends \in Nat /\ MaxAskFaults \in Nat
\* Each action of a turn has a client id, which no mention has.
ASSUME EmissionsAssumption ==
    /\ Emissions \subseteq Seq({"good", "bad"}) /\ TurnAsks \in Seq(Asks)
    /\ MAX_ACTIONS_PER_TURN \in 0..Len(TurnAsks) /\ \A i \in DOMAIN TurnAsks : TurnAsks[i] \notin Mentions

VARIABLES
    calls,       \* the requests in the server, each suspended at an await
    decisions,   \* the decision rows, in order
    sends,       \* [Asks -> how often it was sent]
    heard,       \* [Asks -> what its asker was last told]
    justified,   \* the asks whose subject a record entitles the asker to
    present,     \* the signers that are in the room
    cycle,       \* the bot's run: where it is, the mention in hand, what it has seen
    saved,       \* what its caller persisted of `seen`
    emission,    \* the turn's routing of what it emitted
    mishaps

askVars == <<calls, decisions, sends, heard, justified, present, cycle, saved, emission, mishaps>>

NotTold == [status |-> "nothing", decision |-> 0]
Told(status, d) == [status |-> status, decision |-> d]
Idle == [at |-> "idle", mention |-> 0, todo |-> {}, seen |-> {}]
NoTurn == [at |-> "none", left |-> <<>>, asked |-> 0, malformed |-> 0, over |-> 0, capped |-> FALSE]

AskInit ==
    /\ calls = {} /\ decisions = <<>>
    /\ sends = [a \in Asks |-> 0]
    /\ heard = [a \in Asks |-> NotTold]
    /\ justified = {a \in Asks : ByOf[a] = SubjectOf[a]}
    /\ present \in SUBSET Signers
    /\ cycle = Idle /\ saved = {} /\ emission = NoTurn
    /\ mishaps = 0

Moves(c, d) == calls' = (calls \ {c}) \cup {d}
Leaves(c) == calls' = calls \ {c}

-----------------------------------------------------------------------------
(* A call, from its door to its answer. *)

Call(a) == [ask |-> a, nth |-> sends[a] + 1, at |-> "door", verdict |-> "none", decision |-> 0,
            todo |-> {}]

Sends(a) ==
    /\ sends[a] < MaxSends
    /\ calls' = calls \cup {Call(a)}
    /\ sends' = [sends EXCEPT ![a] = @ + 1]

\* What a node, a script or a page asks, not the bot and not a turn.
OwnAsks == Asks \ (Mentions \cup {TurnAsks[i] : i \in DOMAIN TurnAsks})

\* It asks once, and again when its call died.
Ask(a) ==
    /\ sends[a] = 0 \/ (heard[a] = NotTold /\ \A c \in calls : c.ask # a)
    /\ Sends(a)
    /\ UNCHANGED <<decisions, heard, justified, present, cycle, saved, emission, mishaps>>

\* What the door sees to: the credential, the throttle, the shape, the room, the membership.
RefuseAtDoor(c) ==
    /\ c.at = "door" /\ mishaps < MaxAskFaults /\ mishaps' = mishaps + 1
    /\ Leaves(c) /\ heard' = [heard EXCEPT ![c.ask] = Told("refused", 0)]
    /\ UNCHANGED <<decisions, sends, justified, present, cycle, saved, emission>>

\* subjectBasis: a record must entitle the asker to act for the subject.
ReadBasis(c) ==
    /\ c.at = "door"
    /\ IF c.ask \in justified
       THEN Moves(c, [c EXCEPT !.at = "evaluate"]) /\ UNCHANGED heard
       ELSE Leaves(c) /\ heard' = [heard EXCEPT ![c.ask] = Told("refused", 0)]
    /\ UNCHANGED <<decisions, sends, justified, present, cycle, saved, emission, mishaps>>

\* The roster is read and the mandate evaluated; an ALLOW is answered and leaves no row.
Evaluates(c, verdict) ==
    /\ c.at = "evaluate" /\ verdict \in VerdictsOf[c.ask]
    /\ IF verdict = "ALLOW"
       THEN Leaves(c) /\ heard' = [heard EXCEPT ![c.ask] = Told("ALLOW", 0)]
       ELSE Moves(c, [c EXCEPT !.at = "record", !.verdict = verdict]) /\ UNCHANGED heard
    /\ UNCHANGED <<decisions, sends, justified, present, cycle, saved, emission, mishaps>>

\* A decision's random id is its place; `toTell` is whom the row found in the room.
Row(c) == [ask |-> c.ask, subject |-> SubjectOf[c.ask], requested_by |-> ByOf[c.ask],
           decision |-> c.verdict, toTell |-> present, told |-> {}, refusedForBudget |-> {},
           resolution |-> "NONE", open |-> TRUE]

\* writeCoSignDecision: its id is new on every call, whatever the client id.
WriteDecision(c) ==
    /\ c.at = "record"
    /\ decisions' = Append(decisions, Row(c))
    /\ Moves(c, [c EXCEPT !.at = IF c.verdict = "CO_SIGN" THEN "people" ELSE "answer",
                          !.decision = Len(decisions) + 1])
    /\ UNCHANGED <<sends, heard, justified, present, cycle, saved, emission, mishaps>>

\* humanMembersOfPrincipal.
ReadPeople(c) ==
    /\ c.at = "people"
    /\ Moves(c, [c EXCEPT !.at = "telling", !.todo = present])
    /\ UNCHANGED <<decisions, sends, heard, justified, present, cycle, saved, emission, mishaps>>

\* Mutant: the first refusal ends the telling.
TellsUntilRefused(c, h, told) ==
    Moves(c, [c EXCEPT !.todo = IF told THEN @ \ {h} ELSE {}])

TellsNext(c, h, told) == Moves(c, [c EXCEPT !.todo = @ \ {h}])

\* raiseInterrupt for one of them: told, or refused for the budget and gone on to the next.
Tells(c, h, told) ==
    /\ c.at = "telling" /\ h \in c.todo
    /\ decisions' = [decisions EXCEPT ![c.decision].told = IF told THEN @ \cup {h} ELSE @,
                                      ![c.decision].refusedForBudget = IF told THEN @ ELSE @ \cup {h}]
    /\ TellsNext(c, h, told)
    /\ UNCHANGED <<sends, heard, justified, present, cycle, saved, emission, mishaps>>

Answer(c) ==
    /\ c.at = "answer" \/ (c.at = "telling" /\ c.todo = {})
    /\ Leaves(c) /\ heard' = [heard EXCEPT ![c.ask] = Told(c.verdict, c.decision)]
    /\ UNCHANGED <<decisions, sends, justified, present, cycle, saved, emission, mishaps>>

\* The call throws, or its answer is lost on the way.
CallDies(c) ==
    /\ mishaps < MaxAskFaults /\ mishaps' = mishaps + 1
    /\ Leaves(c)
    /\ UNCHANGED <<decisions, sends, heard, justified, present, cycle, saved, emission>>

-----------------------------------------------------------------------------
(* The decision afterwards. *)

ResolveRow(d, resolution) ==
    /\ decisions[d].decision = "CO_SIGN" /\ decisions[d].resolution = "NONE" /\ decisions[d].open
    /\ decisions' = [decisions EXCEPT ![d].resolution = resolution]
    /\ UNCHANGED <<calls, sends, heard, justified, present, cycle, saved, emission, mishaps>>

WindowCloses(d) ==
    /\ decisions[d].open
    /\ decisions' = [decisions EXCEPT ![d].open = FALSE]
    /\ UNCHANGED <<calls, sends, heard, justified, present, cycle, saved, emission, mishaps>>

\* What GET /rooms/:id/decisions/:decisionId says: resolved, or pending, to be polled again or not.
StatusOf(d) == IF d.resolution # "NONE" THEN d.resolution
               ELSE IF d.open THEN "pending" ELSE "closed"

\* An asker that was given a decision asks again until it need not.
Poll(a) ==
    /\ heard[a].decision # 0 /\ heard[a].status \in {"CO_SIGN", "BLOCK", "pending"}
    /\ heard' = [heard EXCEPT ![a] = Told(StatusOf(decisions[@.decision]), @.decision)]
    /\ UNCHANGED <<calls, decisions, sends, justified, present, cycle, saved, emission, mishaps>>

-----------------------------------------------------------------------------
(* The reply bot. *)

First(S) == CHOOSE x \in S : \A y \in S : x <= y

\* getMentions, and what the caller kept of the runs before.
StartCycle ==
    /\ cycle.at = "idle" /\ Mentions \ saved # {}
    /\ cycle' = [at |-> "next", mention |-> 0, todo |-> Mentions \ saved, seen |-> saved]
    /\ UNCHANGED <<calls, decisions, sends, heard, justified, present, saved, emission, mishaps>>

\* The thread is read, the reply drafted and proposed.
Propose ==
    /\ cycle.at = "next" /\ cycle.todo # {}
    /\ LET m == First(cycle.todo) IN
       /\ cycle' = [cycle EXCEPT !.at = "proposing", !.mention = m, !.todo = @ \ {m}]
       /\ Sends(m) /\ heard' = [heard EXCEPT ![m] = NotTold]
    /\ UNCHANGED <<decisions, justified, present, saved, emission, mishaps>>

\* The thread or the draft cannot be had: the mention is left for the next run.
SkipMention ==
    /\ cycle.at = "next" /\ cycle.todo # {}
    /\ mishaps < MaxAskFaults /\ mishaps' = mishaps + 1
    /\ cycle' = [cycle EXCEPT !.todo = @ \ {First(@)}]
    /\ UNCHANGED <<calls, decisions, sends, heard, justified, present, saved, emission>>

\* Mutant: a mention is seen when its handling has ended, well or badly.
SeenAnyway(m) == cycle.seen \cup {m}

Seen(m) == IF heard[m].status \in {"ALLOW", "CO_SIGN", "BLOCK"} THEN cycle.seen \cup {m} ELSE cycle.seen

\* The proposal is answered, or it throws (its call died, or the door refused it).
Proposed ==
    /\ cycle.at = "proposing" /\ \A c \in calls : c.ask # cycle.mention
    /\ cycle' = [cycle EXCEPT !.at = "next", !.seen = Seen(cycle.mention)]
    /\ UNCHANGED <<calls, decisions, sends, heard, justified, present, saved, emission, mishaps>>

\* The run ends and its caller persists `seen`.
SaveSeen ==
    /\ cycle.at = "next" /\ cycle.todo = {}
    /\ saved' = cycle.seen /\ cycle' = Idle
    /\ UNCHANGED <<calls, decisions, sends, heard, justified, present, emission, mishaps>>

BotDies ==
    /\ cycle.at # "idle" /\ mishaps < MaxAskFaults /\ mishaps' = mishaps + 1
    /\ cycle' = Idle
    /\ UNCHANGED <<calls, decisions, sends, heard, justified, present, saved, emission>>

-----------------------------------------------------------------------------
(* What a turn emits: at most MAX_ACTIONS_PER_TURN, one after the other. *)

\* Mutant: the actions over the cap are dropped and the room is not told.
CapSilently(es) == FALSE

OverCap(es) == Len(es) > MAX_ACTIONS_PER_TURN

Kept(es) == [i \in 1..(IF Len(es) > MAX_ACTIONS_PER_TURN THEN MAX_ACTIONS_PER_TURN ELSE Len(es)) |-> es[i]]

RouteEmissions(es) ==
    /\ emission.at = "none"
    /\ emission' = [NoTurn EXCEPT !.at = "routing", !.capped = OverCap(es),
                       !.left = Kept(es), !.over = Len(es)]
    /\ UNCHANGED <<calls, decisions, sends, heard, justified, present, cycle, saved, mishaps>>

\* A malformed emission is refused in the room, and the next one is taken.
RefuseMalformed ==
    /\ emission.at = "routing" /\ emission.left # <<>> /\ Head(emission.left) = "bad"
    /\ emission' = [emission EXCEPT !.left = Tail(@), !.malformed = @ + 1]
    /\ UNCHANGED <<calls, decisions, sends, heard, justified, present, cycle, saved, mishaps>>

AskOf(e) == TurnAsks[e.asked]

RequestEmitted ==
    /\ emission.at = "routing" /\ emission.left # <<>> /\ Head(emission.left) = "good"
    /\ emission' = [emission EXCEPT !.at = "waiting", !.left = Tail(@), !.asked = @ + 1]
    /\ Sends(AskOf(emission'))
    /\ UNCHANGED <<decisions, heard, justified, present, cycle, saved, mishaps>>

\* The command is awaited; one that throws ends the routing of the rest.
EmittedAnswered ==
    /\ emission.at = "waiting" /\ \A c \in calls : c.ask # AskOf(emission)
    /\ emission' = [emission EXCEPT !.at = IF heard[AskOf(emission)] = NotTold THEN "over" ELSE "routing"]
    /\ UNCHANGED <<calls, decisions, sends, heard, justified, present, cycle, saved, mishaps>>

EndRouting ==
    /\ emission.at = "routing" /\ emission.left = <<>>
    /\ emission' = [emission EXCEPT !.at = "over"]
    /\ UNCHANGED <<calls, decisions, sends, heard, justified, present, cycle, saved, mishaps>>

-----------------------------------------------------------------------------
(* The room. *)

\* A task is delegated or handed over, or moves on from the member it was delegated to.
BasisChanges(a) ==
    /\ ByOf[a] # SubjectOf[a]
    /\ justified' = IF a \in justified THEN justified \ {a} ELSE justified \cup {a}
    /\ UNCHANGED <<calls, decisions, sends, heard, present, cycle, saved, emission, mishaps>>

SignerJoins(h) ==
    /\ h \notin present /\ present' = present \cup {h}
    /\ UNCHANGED <<calls, decisions, sends, heard, justified, cycle, saved, emission, mishaps>>

CallStep(c) ==
    \/ RefuseAtDoor(c) \/ ReadBasis(c) \/ WriteDecision(c) \/ ReadPeople(c) \/ Answer(c) \/ CallDies(c)
    \/ \E verdict \in {"ALLOW", "CO_SIGN", "BLOCK"} : Evaluates(c, verdict)
    \/ \E h \in Signers, told \in BOOLEAN : Tells(c, h, told)

\* Those who ask, and what goes on by itself.
OwnNext == \E a \in OwnAsks : Ask(a) \/ Poll(a) \/ BasisChanges(a)

BotNext == StartCycle \/ Propose \/ SkipMention \/ Proposed \/ SaveSeen \/ BotDies

TurnNext ==
    \/ \E es \in Emissions : RouteEmissions(es)
    \/ RefuseMalformed \/ RequestEmitted \/ EmittedAnswered \/ EndRouting

AskedNext ==
    \/ \E c \in calls : CallStep(c)
    \/ \E d \in DOMAIN decisions : WindowCloses(d)
    \/ \E d \in DOMAIN decisions, resolution \in {"APPROVED", "DENIED"} : ResolveRow(d, resolution)
    \/ \E h \in Signers : SignerJoins(h)

AskNext == OwnNext \/ BotNext \/ TurnNext \/ AskedNext

AskSpec == AskInit /\ [][AskNext]_askVars

-----------------------------------------------------------------------------
(* Properties. *)

AskTypeOK ==
    /\ \A c \in calls : c.at \in {"door", "evaluate", "record", "people", "telling", "answer"}
    /\ sends \in [Asks -> 0..MaxSends] /\ mishaps \in 0..MaxAskFaults
    /\ \A d \in DOMAIN decisions : decisions[d].decision \in {"CO_SIGN", "BLOCK"}
    /\ \A a \in Asks : heard[a].decision \in 0..Len(decisions)
    /\ justified \subseteq Asks /\ present \subseteq Signers /\ saved \subseteq Mentions
    /\ emission.at \in {"none", "routing", "waiting", "over"}

DecisionsOn(a) == {d \in DOMAIN decisions : decisions[d].ask = a}

\* What an asker was told is what the log says: the decision it was given is on what it asked for,
\* with the verdict it heard, and a resolution it heard is the one recorded.
AskersHearTheLog == \A a \in Asks : heard[a].decision # 0 =>
    LET d == decisions[heard[a].decision] IN
    /\ d.ask = a
    /\ heard[a].status \in {"CO_SIGN", "BLOCK"} => d.decision = heard[a].status
    /\ heard[a].status \in {"APPROVED", "DENIED"} => d.resolution = heard[a].status

\* An asker that waits for a signature does not wait for nothing: everybody who could give it and
\* was in the room when the decision was recorded has been interrupted, or the budget refused it.
SignersWereTold == \A a \in Asks : heard[a].status = "CO_SIGN" =>
    LET d == decisions[heard[a].decision] IN d.toTell \subseteq d.told \cup d.refusedForBudget

\* "A mention is marked seen only AFTER it is fully proposed" (grokbot.ts:137), and a decision is
\* proposed again only when something went wrong the time before.
MentionsAreProposed ==
    /\ \A m \in cycle.seen \cup saved : DecisionsOn(m) # {} \/ heard[m].status = "ALLOW"
    /\ \A m \in Mentions : Cardinality(DecisionsOn(m)) <= 1 + mishaps
    /\ \A a \in Asks : Cardinality(DecisionsOn(a)) <= sends[a]

\* A turn's emissions are each asked for, refused in the room, or over a cap the room was told of.
EmissionsAreRouted == emission.at = "over" /\ mishaps = 0 =>
    /\ emission.asked + emission.malformed <= MAX_ACTIONS_PER_TURN
    /\ emission.asked + emission.malformed = emission.over \/ emission.capped

\* "A repeat with the same value collapses to one write" (packages/hosts/src/server.ts:20).
RepeatCollapses == \A a \in Asks : Cardinality(DecisionsOn(a)) <= 1

\* Asking is honest at both ends: the asker hears what is on record, those who can sign hear of it,
\* and nothing that was to be asked is lost or asked again for nothing.
ProposalsHold == AskersHearTheLog /\ SignersWereTold /\ MentionsAreProposed /\ EmissionsAreRouted
=============================================================================
