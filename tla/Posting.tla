------------------------------- MODULE Posting -------------------------------
(***************************************************************************)
(* From the composer of the room page to the turns a message sets off: the *)
(* page's box and socket (Room.tsx), the queue of frames behind each       *)
(* socket (server.ts), the door and MCP calls of connected members,        *)
(* postMessageCommand, the summons it dispatches (commands/summon.ts), and *)
(* the tags a connected member polls (mentions.ts).                        *)
(*                                                                         *)
(* Abstracted: a message is the set of names in it; the task of a summon   *)
(* (TaskLedger), its turn (AgentTurns) and what a socket shows             *)
(* (EventDelivery); a summon by an agent (CoSign); the other rooms of the  *)
(* member that polls, whose messages share the limits of its listing. One  *)
(* statement and the publication after it are one step.                    *)
(***************************************************************************)
EXTENDS Naturals, Sequences, FiniteSets

CONSTANTS
    PagePosts,      \* what the page's member types, numbered in order
    DoorPosts,      \* calls of POST /rooms/:id/messages and of the MCP tool
    IdOf,           \* [DoorPosts -> ids]: the client_msg_id the caller chose; a retry keeps it
    AuthorOf,       \* [DoorPosts -> members]
    NamesOf,        \* [PagePosts \cup DoorPosts -> sets of names]
    Agents,         \* the agents of the room
    Bot,            \* the one of them that polls its tags
    Person,         \* the page's member
    Stranger,       \* a name that is nobody's here
    ScanLimit,      \* the most messages one listing looks through
    TagLimit,       \* the most tags it returns
    MaxConns,       \* bound: connections of the page
    MaxPostFaults   \* bound: failing statements and crashes

Posts == PagePosts \cup DoorPosts
Ids == PagePosts \cup {IdOf[p] : p \in DoorPosts}
People == {Person} \cup {AuthorOf[p] : p \in DoorPosts}

ASSUME PostingAssumption ==
    /\ PagePosts \subseteq Nat \ {0} /\ 0 \notin Agents /\ PagePosts \cap DoorPosts = {}
    /\ \A p \in DoorPosts : IdOf[p] \notin PagePosts
    /\ Bot \in Agents /\ Person \notin Agents /\ Stranger \notin Agents
    /\ \A p \in Posts : NamesOf[p] \subseteq Agents \cup {Stranger}
    /\ ScanLimit \in Nat \ {0} /\ TagLimit \in Nat \ {0} /\ MaxConns \in Nat /\ MaxPostFaults \in Nat

VARIABLES
    page,       \* the text in the box, the last one sent, the connection, refused for good or not
    socket,     \* connections -> what is on the wire, in the queue, and whether it was accepted
    post,       \* Posts -> where the command is, its connection, the summons left, and what Bot's listing
                \* before it had heard, and since when
    log,        \* the messages in the order of their seq
    told,       \* the notices and summons that messages led to
    turns,      \* ids and agents -> how often a turn was deferred
    stranded,   \* the summons whose call a fault ended before it deferred their turn
    acted,      \* how many messages precede the last event of Bot's that is not a message
    attended,   \* the posts after which resetUnattended was deferred
    given,      \* the tags Bot has been given
    postFaults

postVars == <<page, socket, post, log, told, turns, stranded, acted, attended, given, postFaults>>
commandVars == <<log, told, turns, acted, attended, given>>

Nil == 0
Conns == 1..MaxConns
By(p) == IF p \in PagePosts THEN Person ELSE AuthorOf[p]
Id(p) == IF p \in PagePosts THEN p ELSE IdOf[p]

Running == {"append", "notice", "next", "noroute", "insert", "announce"}
Over == {"done", "failed", "dead", "lost", "dropped"}

PostTypeOK ==
    /\ page \in [box : PagePosts \cup {Nil}, pending : PagePosts \cup {Nil}, conn : 0..MaxConns,
                 up : BOOLEAN, stopped : BOOLEAN]
    /\ socket \in [Conns -> [wire : Seq(PagePosts), queue : Seq(PagePosts),
                             accepted : {"opening", "yes", "refused", "failed"}]]
    /\ post \in [Posts -> [pc : {"none", "box", "wire", "queue"} \cup Running \cup Over,
                           conn : 0..MaxConns, todo : SUBSET Agents, cur : Agents \cup {Nil},
                           heard : Nat, since : Nat]]
    /\ \A i \in DOMAIN log : log[i].id \in Ids /\ log[i].by \in People /\ log[i].names \subseteq Agents \cup {Stranger}
    /\ told \subseteq {"unknown", "noroute", "summon"} \X Ids \X (Agents \cup {Nil})
    /\ turns \in [Ids \X Agents -> Nat] /\ stranded \subseteq Ids \X Agents /\ acted \in Nat
    /\ \A p \in Posts : post[p].cur # Nil <=> post[p].pc \in {"noroute", "insert", "announce"}
    /\ attended \subseteq Posts /\ given \subseteq Ids /\ postFaults \in 0..MaxPostFaults

PostInit ==
    /\ page = [box |-> Nil, pending |-> Nil, conn |-> 0, up |-> FALSE, stopped |-> FALSE]
    /\ socket = [c \in Conns |-> [wire |-> <<>>, queue |-> <<>>, accepted |-> "opening"]]
    /\ post = [p \in Posts |-> [pc |-> "none", conn |-> 0, todo |-> {}, cur |-> Nil,
                             heard |-> 0, since |-> 0]]
    /\ log = <<>> /\ told = {} /\ turns = [s \in Ids \X Agents |-> 0] /\ stranded = {} /\ acted = 0
    /\ attended = {} /\ given = {} /\ postFaults = 0

Moved(P, pc) == [p \in Posts |->
    IF p \notin P THEN post[p]
    ELSE [post[p] EXCEPT !.pc = pc, !.todo = IF pc \in Over THEN {} ELSE @,
                         !.cur = IF pc \in {"next"} \cup Over THEN Nil ELSE @]]
In(s) == {s[i] : i \in DOMAIN s}

-----------------------------------------------------------------------------
(* The page. *)

\* The member types the next text into an empty box.
Write(p) ==
    /\ page.box = Nil /\ ~page.stopped /\ post[p].pc = "none"
    /\ \A o \in PagePosts : o < p => post[o].pc # "none"
    /\ page' = [page EXCEPT !.box = p] /\ post' = Moved({p}, "box")
    /\ UNCHANGED <<socket, commandVars, stranded, postFaults>>

Connect ==
    /\ ~page.up /\ ~page.stopped /\ page.conn < MaxConns
    /\ page' = [page EXCEPT !.conn = @ + 1, !.up = TRUE]
    /\ UNCHANGED <<socket, post, commandVars, stranded, postFaults>>

\* submitMessage: the box is emptied when the frame is handed to the socket.
Submit ==
    /\ page.box # Nil /\ page.up
    /\ page' = [page EXCEPT !.box = Nil, !.pending = page.box]
    /\ socket' = [socket EXCEPT ![page.conn].wire = Append(@, page.box)]
    /\ post' = [post EXCEPT ![page.box].pc = "wire", ![page.box].conn = page.conn]
    /\ UNCHANGED <<commandVars, stranded, postFaults>>

\* What is on the wire when a connection ends is gone; what the server has queued is not.
Cut == Moved(In(socket[page.conn].wire), "lost")

Drop ==
    /\ page.up /\ page' = [page EXCEPT !.up = FALSE]
    /\ socket' = [socket EXCEPT ![page.conn].wire = <<>>] /\ post' = Cut
    /\ UNCHANGED <<commandVars, stranded, postFaults>>

\* Mutant: the box stays as it is.
GivenBackNothing == page.box

\* pendingRef, unless something else is being typed.
GivenBack == IF page.box = Nil THEN page.pending ELSE page.box

\* The error frame of a refused socket: the page stops.
ShowRefusal ==
    /\ page.up /\ socket[page.conn].accepted = "refused"
    /\ page' = [page EXCEPT !.up = FALSE, !.stopped = TRUE, !.box = GivenBack]
    /\ socket' = [socket EXCEPT ![page.conn].wire = <<>>] /\ post' = Cut
    /\ UNCHANGED <<commandVars, stranded, postFaults>>

-----------------------------------------------------------------------------
(* The socket on the server. *)

\* `accepted` settles: the member, a refusal, or null after an error.
Settle(c, how) ==
    /\ c <= page.conn /\ socket[c].accepted = "opening"
    /\ socket' = [socket EXCEPT ![c].accepted = how]
    /\ UNCHANGED <<page, post, commandVars, stranded, postFaults>>

Receive ==
    LET c == page.conn IN
    /\ page.up /\ socket[c].wire # <<>>
    /\ socket' = [socket EXCEPT ![c].wire = Tail(@), ![c].queue = Append(@, Head(socket[c].wire))]
    /\ post' = Moved({Head(socket[c].wire)}, "queue")
    /\ UNCHANGED <<page, commandVars, stranded, postFaults>>

\* Mutant: a frame does not wait for the one before it.
QuietAlways(c) == TRUE

\* sendQueue: one frame of a socket at a time.
Quiet(c) == \A p \in PagePosts : post[p].conn = c => post[p].pc \notin Running

\* A frame is handled once the socket is settled, and without an actor it is let go without a
\* word; the connection may have ended since.
Take(c) ==
    /\ socket[c].queue # <<>> /\ socket[c].accepted # "opening" /\ Quiet(c)
    /\ socket' = [socket EXCEPT ![c].queue = Tail(@)]
    /\ post' = Moved({Head(socket[c].queue)}, IF socket[c].accepted = "yes" THEN "append" ELSE "dropped")
    /\ UNCHANGED <<page, commandVars, stranded, postFaults>>

-----------------------------------------------------------------------------
(* The tags of Bot, and the door. *)

Own == {i \in DOMAIN log : log[i].by = Bot}
Others == {i \in DOMAIN log : log[i].by # Bot /\ log[i].names # {}}
Tagging == {i \in Others : Bot \in log[i].names}

\* Mutant: the oldest are listed.
LatestTagsOldest(S) == {i \in S : Cardinality({j \in S : j < i}) < TagLimit}

\* Newest first, bounded.
LatestTags(S) == {i \in S : Cardinality({j \in S : j > i}) < TagLimit}

\* The messages with a name in them that came after Bot's own last event, whatever it was; of
\* these the newest are looked through.
Unread == {i \in Others : i > acted /\ \A j \in Own : j < i}
Scanned == {i \in Unread : Cardinality({j \in Unread : j > i}) < ScanLimit}

\* pendingTagsForMember.
PendingTags == LatestTags(Scanned \cap Tagging)

\* A call of the door or of MCP; Bot lists its tags before it posts.
Call(p) ==
    /\ post[p].pc = "none"
    /\ post' = [post EXCEPT ![p].pc = "append", ![p].heard = IF By(p) = Bot THEN Len(log) ELSE 0,
                            ![p].since = IF By(p) = Bot THEN acted ELSE 0]
    /\ given' = IF By(p) = Bot THEN given \cup {log[i].id : i \in PendingTags} ELSE given
    /\ UNCHANGED <<page, socket, log, told, turns, stranded, acted, attended, postFaults>>

\* Bot decides, proposes, hands over or runs a turn: an event of its own that is no message.
ActElsewhere ==
    /\ acted < Len(log) /\ acted' = Len(log)
    /\ UNCHANGED <<page, socket, post, log, told, turns, stranded, attended, given, postFaults>>

-----------------------------------------------------------------------------
(* postMessageCommand. *)

Step(p, from, to) == post[p].pc = from /\ post' = Moved({p}, to)
Keeps == UNCHANGED <<page, socket, stranded, given, postFaults>>

\* Mutant: a message is inserted whatever its id.
OnceAnyway(message) == Append(log, message)

\* ON CONFLICT (room_id, client_msg_id) DO NOTHING.
Once(message) == IF \E i \in DOMAIN log : log[i].id = message.id THEN log ELSE Append(log, message)

\* What the log holds under an id, whoever put it there.
Said(id, events) == CHOOSE e \in In(events) : e.id = id

\* summonRuling: the names in a message of a person; an agent's activate nobody.
Called(id, events) == IF Said(id, events).by \in Agents THEN {} ELSE Said(id, events).names

\* appendMessage, and the ruling on the message that the log now holds under the id.
AppendMessage(p) ==
    LET called == Called(Id(p), log') IN
    /\ post[p].pc = "append"
    /\ log' = Once([id |-> Id(p), by |-> By(p), names |-> NamesOf[p]])
    /\ post' = [post EXCEPT ![p].pc = IF Stranger \in called THEN "notice" ELSE "next",
                            ![p].todo = called \cap Agents]
    /\ UNCHANGED <<told, turns, acted, attended>> /\ Keeps

\* sys-unknown-<seq>.
AppendNotice(p) ==
    /\ Step(p, "notice", "next")
    /\ told' = told \cup {<<"unknown", Id(p), Nil>>}
    /\ UNCHANGED <<log, turns, acted, attended>> /\ Keeps

\* summonCommand without a chain: only a person may root a summon, and an agent is not told.
\* For a person the route of the member is read: at this moment there is one or there is none.
BeginSummon(p) == \E a \in post[p].todo :
    /\ post[p].pc = "next"
    /\ IF By(p) \in Agents THEN post' = [post EXCEPT ![p].todo = @ \ {a}]
       ELSE \E pc \in {"insert", "noroute"} :
              post' = [post EXCEPT ![p].todo = @ \ {a}, ![p].cur = a, ![p].pc = pc]
    /\ UNCHANGED <<log, told, turns, acted, attended>> /\ Keeps

\* sys-noroute-<seq>-<member>.
AppendNoRoute(p) ==
    /\ Step(p, "noroute", "next")
    /\ told' = told \cup {<<"noroute", Id(p), post[p].cur>>}
    /\ UNCHANGED <<log, turns, acted, attended>> /\ Keeps

\* Mutant: the command goes on whether or not there was a summon already.
AfterSummonAlways(p) == "announce"

\* Mutant: an existing summon is told like a name that is nobody's.
AfterSummonTold(p) == IF <<"summon", Id(p), post[p].cur>> \in told THEN "notice" ELSE "announce"

\* Mutant: the test for an existing summon is the wrong way round.
AfterSummonInverted(p) == IF <<"summon", Id(p), post[p].cur>> \in told THEN "announce" ELSE "next"

\* An existing summon is somebody else's to go on with.
AfterSummon(p) == IF <<"summon", Id(p), post[p].cur>> \in told THEN "next" ELSE "announce"

\* appendSummon.
AppendSummon(p) ==
    /\ Step(p, "insert", AfterSummon(p))
    /\ told' = told \cup {<<"summon", Id(p), post[p].cur>>}
    /\ UNCHANGED <<log, turns, acted, attended>> /\ Keeps

\* The route.selected event, which is the summoned member's, and the deferred turn.
DeferTurn(p) ==
    /\ Step(p, "announce", "next")
    /\ turns' = [turns EXCEPT ![<<Id(p), post[p].cur>>] = @ + 1]
    /\ acted' = IF post[p].cur = Bot THEN Len(log) ELSE acted
    /\ UNCHANGED <<log, told, attended>> /\ Keeps

\* Mutant: the command ends before its last summon.
AllButOneSummoned(p) == Cardinality(post[p].todo) <= 1

AllSummoned(p) == post[p].todo = {}

\* The deferred work of every post, and the answer.
EndPost(p) ==
    /\ AllSummoned(p) /\ Step(p, "next", "done")
    /\ attended' = attended \cup {p}
    /\ UNCHANGED <<log, told, turns, acted>> /\ Keeps

-----------------------------------------------------------------------------
(* Faults. *)

\* History: the summons of those that are between the summon and its turn.
Stranded(P) == stranded \cup {<<Id(p), post[p].cur>> : p \in {q \in P : post[q].pc = "announce"}}

\* A statement throws: 'send failed' in the log of the server, or an error to the caller.
FailPost(p) ==
    /\ postFaults < MaxPostFaults /\ postFaults' = postFaults + 1
    /\ post[p].pc \in Running /\ post' = Moved({p}, "failed") /\ stranded' = Stranded({p})
    /\ UNCHANGED <<page, socket, commandVars>>

CrashServer ==
    /\ postFaults < MaxPostFaults /\ postFaults' = postFaults + 1
    /\ post' = Moved({p \in Posts : post[p].pc \in Running \cup {"queue", "wire"}}, "dead")
    /\ stranded' = Stranded(Posts)
    /\ page' = [page EXCEPT !.up = FALSE]
    /\ socket' = [c \in Conns |-> [socket[c] EXCEPT !.wire = <<>>, !.queue = <<>>]]
    /\ UNCHANGED commandVars

CommandStep(p) ==
    \/ AppendMessage(p) \/ AppendNotice(p) \/ BeginSummon(p) \/ AppendNoRoute(p)
    \/ AppendSummon(p) \/ DeferTurn(p) \/ EndPost(p)

PostNext ==
    \/ \E p \in PagePosts : Write(p)
    \/ Connect \/ Submit \/ Drop \/ ShowRefusal \/ Receive
    \/ \E c \in Conns : Take(c) \/ \E how \in {"yes", "refused", "failed"} : Settle(c, how)
    \/ \E p \in DoorPosts : Call(p)
    \/ ActElsewhere
    \/ \E p \in Posts : CommandStep(p) \/ FailPost(p)
    \/ CrashServer

PostSpec == PostInit /\ [][PostNext]_postVars

-----------------------------------------------------------------------------
(* However often a message is sent again, at once or later, the log holds   *)
(* it once, with one notice about its names and one summon and one turn for *)
(* each member it named (commands/summon.ts, migration 005).                *)
SaidOnce ==
    /\ \A i, j \in DOMAIN log : log[i].id = log[j].id => i = j
    /\ \A s \in Ids \X Agents : turns[s] <= 1

(* "Seq matches the order the client sent" (server.ts:2181): of two frames  *)
(* of one connection the first is in the log before the second, or never.   *)
InOrder == \A p, q \in PagePosts :
    p < q /\ post[p].conn = post[q].conn /\ post[q].conn # 0 =>
        \A i, j \in DOMAIN log : log[i].id = p /\ log[j].id = q => i < j

Answered(id, a) == <<"summon", id, a>> \in told \/ <<"noroute", id, a>> \in told

(* A tag must not vanish (commands/postMessage.ts:80): when a person's post *)
(* has come to its end, each member its message named is summoned or the    *)
(* room was told why not, and so it was of a name that is nobody's; also    *)
(* when the post is a retry of one that died on the way.                    *)
TagsAnswered == \A p \in Posts : post[p].pc = "done" /\ By(p) \notin Agents =>
    /\ \A a \in Called(Id(p), log) \cap Agents : Answered(Id(p), a)
    /\ Stranger \in Called(Id(p), log) => <<"unknown", Id(p), Nil>> \in told

Unstarted == {s \in Ids \X Agents : <<"summon", s[1], s[2]>> \in told /\ turns[s] = 0}

(* A summon in the log has its turn, or its turn is about to be deferred,   *)
(* or a fault ended the call that was about to; then it never has one: a    *)
(* retry finds the summon and does not start it, though "the turn it        *)
(* authorises is already running or already done" (commands/summon.ts:366). *)
SummonsStart ==
    /\ Unstarted = stranded \cup {<<Id(p), post[p].cur>> : p \in {q \in Posts : post[q].pc = "announce"}}
    /\ \A s \in Ids \X Agents : turns[s] > 0 => <<"summon", s[1], s[2]>> \in told

(* "Put the text back" (Room.tsx:672): what the member typed is in the box, *)
(* on its way, or in the log; or the connection or the server ended under   *)
(* it. A refused page gives back the last text it sent, so of the frames a  *)
(* refused socket let go only earlier ones are lost.                        *)
TextIsSomewhere == \A p \in PagePosts : post[p].pc \notin {"none", "box", "wire", "queue"} =>
    \/ page.box = p \/ post[p].pc \in Running
    \/ \E i \in DOMAIN log : log[i].id = p
    \/ post[p].pc \in {"failed", "dead"}
    \/ post[p].pc \in {"lost", "dropped"} /\ (~page.stopped \/ p # page.pending \/ page.box # Nil)

(* A tag reaches the member that polls. One that a message of its own has   *)
(* cleared and that it was never given came after the listing before that   *)
(* message; or was behind another event of its own by then, be it the       *)
(* route.selected of somebody's summon; or behind as many tags as a listing *)
(* holds, or as many messages as it looks through.                          *)
TagsReachBot == \A i \in Tagging :
    log[i].id \notin given /\ (\E j \in Own : i < j) =>
        \E p \in DoorPosts, j \in Own :
            /\ log[j].id = Id(p) /\ i < j /\ post[p].pc # "none"
            /\ \/ post[p].heard < i
               \/ i <= post[p].since
               \/ Cardinality({k \in Tagging : i < k /\ k <= post[p].heard}) >= TagLimit
               \/ Cardinality({k \in Others : i < k /\ k <= post[p].heard}) >= ScanLimit

(* "Only humans reach this command" (commands/postMessage.ts:122): what     *)
(* resets the attendance count of the room's standing orders is a person.   *)
AttentionIsHuman == \A p \in attended : By(p) \notin Agents

(* A retry changes nothing that was done and takes up nothing that was not  *)
(* its own to start.                                                        *)
RetriesAreSafe == SaidOnce /\ SummonsStart

(* What is typed reaches the log, in its order, and those it names.         *)
PostsArrive == InOrder /\ TextIsSomewhere /\ TagsAnswered /\ TagsReachBot

(* A message and the members it names, by both ways in and again and again. *)
PostsHold == RetriesAreSafe /\ PostsArrive
=============================================================================
