---------------------------- MODULE SummonChains -----------------------------
(***************************************************************************)
(* Who may make whom speak, and how far it goes: summonCommand and         *)
(* fireSummon (commands/summon.ts), what a turn emits and dispatches       *)
(* (agent.ts), and the rows of the log that record it (events.ts).  A      *)
(* human's message or a standing order roots a chain; a turn that names    *)
(* agents extends it by one hop; a protected summon waits for a signature. *)
(*                                                                         *)
(* Of the log, the rows of each kind are kept, the summons in their order. *)
(* A `cause` is the row a cause_seq points at.  Abstracted: texts, the     *)
(* deltas of a turn, tasks (TaskLedger), the slot and the day's money      *)
(* (AgentTurns: a turn may be refused), the claim of a trigger             *)
(* (StandingOrders); a mandate may have expired, and a route be gone,      *)
(* whenever they are asked for.                                            *)
(***************************************************************************)
EXTENDS Naturals, Sequences, FiniteSets

CONSTANTS
    Bots,         \* the agents of the room
    People,       \* its humans
    Names,        \* what a turn may call an agent: ids, display names, nobody's name
    Unnamed,      \* a summon emitted with no name: none given, an empty one, or not a string
    Matches,      \* [Names -> Bots \cup {Nobody}]
    Nobody,
    Granted,      \* [Bots -> {"ALLOW", "CO_SIGN", "BLOCK"}]: what each mandate says of a summon
    Loops,        \* the standing orders of the room
    Fires,        \* [Loops -> Bots]: whose completed turn fires the order
    Summons,      \* [Loops -> Bots]: who is summoned
    Creator,      \* [Loops -> People]
    NoLoop,
    MaxRoots,     \* bound: messages, and cycles of the orders
    MaxEmit,      \* bound: the names all turns emit
    MaxChainFaults

SUMMON_DEPTH_CAP == 1
HUMAN_ROOT_DEPTH == 0

ASSUME MatchesAssumption == Matches \in [Names -> Bots \cup {Nobody}] /\ Unnamed \notin Names
ASSUME GrantedAssumption == Granted \in [Bots -> {"ALLOW", "CO_SIGN", "BLOCK"}]
ASSUME LoopsAssumption ==
    Fires \in [Loops -> Bots] /\ Summons \in [Loops -> Bots] /\ Creator \in [Loops -> People]
ASSUME ChainBounds == MaxRoots \in Nat /\ MaxChainFaults \in Nat

VARIABLES
    said,       \* the messages of humans that name a member, in order
    summons,    \* the summon rows, in order: the id of a summon is its place
    routed,     \* the summons with a route.selected row
    turns,      \* the started and completed rows of turns
    held,       \* the decisions that hold a summon, and how each was resolved
    notices,    \* what the room was told, by the cause and the name of a client id
    jobs,       \* the commands and turns of the process, each suspended at an await
    firings,    \* the cycles of orders so far
    asked,      \* history: what each completed turn emitted, as <<its cause, a name or Unnamed>>
    breaks      \* faults so far

chainVars == <<said, summons, routed, turns, held, notices, jobs, firings, asked, breaks>>

-----------------------------------------------------------------------------
(* The rows. *)

Cause(kind, n) == [kind |-> kind, of |-> n]

Message(h, m) == [actor |-> h, names |-> m]
SummonRow(j) == [member |-> j.member, requested_by |-> j.by, cause |-> j.cause,
                 root_actor |-> j.root, root_is_human |-> TRUE, depth |-> j.depth, order |-> j.order]
TurnRow(type, j, success) ==
    [type |-> type, summon |-> j.summon, turn |-> j.turn, success |-> success]
Decision(j) == [pending |-> j, resolution |-> "NONE"]

\* A notice is written once: its client id is made of the cause and the name.
Tell(j) == notices' = notices \cup {<<j.cause, j.name>>}

Becomes(j, k) == jobs' = (jobs \ {j}) \cup {k}
Ends(j) == jobs' = jobs \ {j}

\* A command or a turn; `at` is the await it is suspended at, `names` what the turn emitted.
Job(at, by, name, member, cause, root, depth, order) ==
    [at |-> at, by |-> by, name |-> name, member |-> member, cause |-> cause, root |-> root,
     depth |-> depth, order |-> order, summon |-> 0, turn |-> 0, names |-> {}, again |-> 0]

ChainInit ==
    /\ said = <<>> /\ summons = <<>> /\ routed = {} /\ turns = {}
    /\ held = {} /\ notices = {} /\ jobs = {} /\ asked = {}
    /\ firings = 0 /\ breaks = 0

-----------------------------------------------------------------------------
(* Roots. *)

\* A human's message names a member: a summon without a chain.
HumanSummon(h, m, n) == Job("route", h, m, m, Cause("message", n), h, HUMAN_ROOT_DEPTH, NoLoop)

Say(h, m) ==
    /\ Len(said) + firings < MaxRoots
    /\ said' = Append(said, Message(h, m))
    /\ jobs' = jobs \cup {HumanSummon(h, m, Len(said) + 1)}
    /\ UNCHANGED <<summons, routed, turns, held, notices, firings, asked, breaks>>

\* The answer was lost and the message is sent again: the row is found and the summon walked again.
SayAgain(i) ==
    /\ breaks < MaxChainFaults /\ breaks' = breaks + 1
    /\ jobs' = jobs \cup {[HumanSummon(said[i].actor, said[i].names, i) EXCEPT !.again = 1]}
    /\ UNCHANGED <<said, summons, routed, turns, held, notices, firings, asked>>

\* fireOrderCycle: the completed row `t` has been claimed for the order.
Fire(o, t) ==
    /\ Len(said) + firings < MaxRoots /\ firings' = firings + 1
    /\ t.type = "agent.turn.completed" /\ t.success /\ summons[t.summon].member = Fires[o]
    /\ jobs' = jobs \cup {Job("route", Creator[o], Summons[o], Summons[o],
                              Cause("completed", t.summon), Creator[o], HUMAN_ROOT_DEPTH, o)}
    /\ UNCHANGED <<said, summons, routed, turns, held, notices, asked, breaks>>

-----------------------------------------------------------------------------
(* summonCommand for a summon an agent emitted. *)

\* Mutant: the chain goes on at the depth of the turn that emitted.
FlatChain(turn) == [root |-> turn.root, depth |-> turn.depth, order |-> turn.order]

\* The chain a turn hands to what it emits.
Chain(turn) == [root |-> turn.root, depth |-> turn.depth + 1, order |-> turn.order]

\* Mutant: the depth is compared with the cap plus one.
TooDeepByOne(j) == j.depth > SUMMON_DEPTH_CAP + 1

TooDeep(j) == j.depth > SUMMON_DEPTH_CAP

\* What evaluate says of a summon by the member: its mandate's word, unless it has expired.
Standing(m) == {Granted[m], "BLOCK"}

\* Standing first, then the depth, then the target; each refusal is said in the room.
RefuseEmitted(j) ==
    /\ j.at = "judge"
    /\ "BLOCK" \in Standing(j.by) \/ TooDeep(j) \/ Matches[j.name] = Nobody
    /\ Tell(j) /\ Ends(j)
    /\ UNCHANGED <<said, summons, routed, turns, held, firings, asked, breaks>>

Resolve(j) == [j EXCEPT !.at = "route", !.member = Matches[j.name]]

MayGoOn(j, verdict) ==
    /\ j.at = "judge" /\ verdict \in Standing(j.by)
    /\ ~TooDeep(j) /\ Matches[j.name] # Nobody

AllowEmitted(j) ==
    /\ MayGoOn(j, "ALLOW")
    /\ Becomes(j, Resolve(j))
    /\ UNCHANGED <<said, summons, routed, turns, held, notices, firings, asked, breaks>>

\* pauseSummonForCoSign: the held summon rides on the decision; it has no field for the order.
PauseSummonForCoSign(j) ==
    /\ MayGoOn(j, "CO_SIGN")
    /\ held' = held \cup {Decision([Resolve(j) EXCEPT !.order = NoLoop])} /\ Ends(j)
    /\ UNCHANGED <<said, summons, routed, turns, notices, firings, asked, breaks>>

\* signDecisionCommand: once, and an approval fires exactly what was held.
Sign(d, answer) ==
    /\ d.resolution = "NONE"
    /\ held' = (held \ {d}) \cup {[d EXCEPT !.resolution = answer]}
    /\ jobs' = IF answer = "APPROVED" THEN jobs \cup {d.pending} ELSE jobs
    /\ UNCHANGED <<said, summons, routed, turns, notices, firings, asked, breaks>>

-----------------------------------------------------------------------------
(* fireSummon. *)

\* selectRoute: the first route of the member that is not unavailable, if it has one.
SelectRoute(j) ==
    /\ j.at = "route"
    /\ Becomes(j, [j EXCEPT !.at = "summon"])
    /\ UNCHANGED <<said, summons, routed, turns, held, notices, firings, asked, breaks>>

\* No usable route: said in the room, and no summon.
NoUsableRoute(j) ==
    /\ j.at = "route"
    /\ Tell(j) /\ Ends(j)
    /\ UNCHANGED <<said, summons, routed, turns, held, firings, asked, breaks>>

\* Mutant: the index of migration 005 does not look at the member.
SummonedForCause(j) == \E i \in DOMAIN summons : summons[i].cause = j.cause

\* Mutant: there is no such index.
NeverSummoned(j) == FALSE

\* The unique index on the cause and the member (migration 005).
Summoned(j) == \E i \in DOMAIN summons : summons[i].cause = j.cause /\ summons[i].member = j.member

\* appendSummon, ON CONFLICT DO NOTHING.
AppendSummon(j) ==
    /\ j.at = "summon"
    /\ IF Summoned(j) THEN Ends(j) /\ UNCHANGED summons
       ELSE /\ summons' = Append(summons, SummonRow(j))
            /\ Becomes(j, [j EXCEPT !.at = "routed", !.summon = Len(summons) + 1])
    /\ UNCHANGED <<said, routed, turns, held, notices, firings, asked, breaks>>

\* appendRouteSelected; then the turn is deferred.
AppendRouteSelected(j) ==
    /\ j.at = "routed"
    /\ routed' = routed \cup {j.summon} /\ Becomes(j, [j EXCEPT !.at = "turn"])
    /\ UNCHANGED <<said, summons, turns, held, notices, firings, asked, breaks>>

-----------------------------------------------------------------------------
(* The turn. *)

\* The ceiling or a turn of the same member: said in the room.
RefuseTurn(j) ==
    /\ j.at = "turn"
    /\ Tell(j) /\ Ends(j)
    /\ UNCHANGED <<said, summons, routed, turns, held, firings, asked, breaks>>

TurnsOf(s) == {t \in turns : t.type = "agent.turn.started" /\ t.summon = s}

\* The started row: one for a summon (migration 006); a second one ends its turn.
StartTurn(j) ==
    /\ j.at = "turn"
    /\ IF TurnsOf(j.summon) # {} THEN Ends(j) /\ UNCHANGED turns
       ELSE LET k == [j EXCEPT !.at = "streaming", !.turn = 1 + Cardinality(TurnsOf(j.summon))]
            IN  turns' = turns \cup {TurnRow("agent.turn.started", k, TRUE)} /\ Becomes(j, k)
    /\ UNCHANGED <<said, summons, routed, held, notices, firings, asked, breaks>>

\* What the stream's loop keeps of the summons a turn emits: one that names nothing is dropped,
\* and neither the room nor the process' log hears of it.
Collected(emitted) == emitted \ {Unnamed}

\* The stream has ended: the completed row.  What was collected is in the turn's hands; a turn may
\* emit whatever its mandate says, for the tool is only not offered to it.
Complete(j, emitted) ==
    /\ j.at = "streaming"
    /\ turns' = turns \cup {TurnRow("agent.turn.completed", j, TRUE)}
    /\ asked' = asked \cup {<<Cause("started", j.summon), n>> : n \in emitted}
    /\ Becomes(j, [j EXCEPT !.at = "closing", !.names = Collected(emitted)])
    /\ UNCHANGED <<said, summons, routed, held, notices, firings, breaks>>

\* Mutant: a name is dispatched once for the member it matches, and a stranger's never.
EmittedOnce(j) == LET c == Chain(j) IN
    {Job("judge", j.member, n, j.member, Cause("started", j.summon), c.root, c.depth, c.order)
        : n \in {x \in j.names : Matches[x] # Nobody}}

\* One deferred summon for each name, caused by the turn's started row.
Emitted(j) == LET c == Chain(j) IN
    {Job("judge", j.member, n, j.member, Cause("started", j.summon), c.root, c.depth, c.order)
        : n \in j.names}

\* After the task has moved.
Dispatch(j) ==
    /\ j.at = "closing"
    /\ jobs' = (jobs \ {j}) \cup Emitted(j)
    /\ UNCHANGED <<said, summons, routed, turns, held, notices, firings, asked, breaks>>

-----------------------------------------------------------------------------
(* Faults. *)

\* An await throws: a deferred command is logged and dropped, a turn writes its failure.
ThrowJob(j) ==
    /\ breaks < MaxChainFaults /\ breaks' = breaks + 1
    /\ Ends(j)
    /\ turns' = IF j.at \in {"streaming", "closing"}
                THEN turns \cup {TurnRow("agent.turn.completed", j, FALSE)} ELSE turns
    /\ UNCHANGED <<said, summons, routed, held, notices, firings, asked>>

ChainCrash ==
    /\ breaks < MaxChainFaults /\ breaks' = breaks + 1
    /\ jobs' = {}
    /\ UNCHANGED <<said, summons, routed, turns, held, notices, firings, asked>>

JobStep(j) ==
    \/ RefuseEmitted(j) \/ AllowEmitted(j) \/ PauseSummonForCoSign(j)
    \/ SelectRoute(j) \/ NoUsableRoute(j) \/ AppendSummon(j) \/ AppendRouteSelected(j)
    \/ RefuseTurn(j) \/ StartTurn(j) \/ Dispatch(j)
    \/ \E emitted \in SUBSET (Names \cup {Unnamed}) :
          Cardinality(asked) + Cardinality(emitted) <= MaxEmit /\ Complete(j, emitted)

ChainNext ==
    \/ \E h \in People, m \in Bots : Say(h, m)
    \/ \E i \in DOMAIN said : SayAgain(i)
    \/ \E o \in Loops, t \in turns : Fire(o, t)
    \/ \E d \in held : \E answer \in {"APPROVED", "DENIED"} : Sign(d, answer)
    \/ \E j \in jobs : JobStep(j) \/ ThrowJob(j)
    \/ ChainCrash

ChainSpec == ChainInit /\ [][ChainNext]_chainVars

-----------------------------------------------------------------------------
(* Properties. *)

ChainTypeOK ==
    /\ \A j \in jobs : j.at \in {"judge", "route", "summon", "routed", "turn", "streaming", "closing"}
    /\ \A i \in DOMAIN summons : summons[i].depth \in Nat /\ summons[i].order \in Loops \cup {NoLoop}
    /\ \A d \in held : d.resolution \in {"NONE", "APPROVED", "DENIED"}
    /\ routed \subseteq DOMAIN summons
    /\ Len(said) + firings \in 0..MaxRoots /\ breaks \in 0..MaxChainFaults

\* The drift query (scripts/sql/summon-drift.sql): "TWO NUMBERS, BOTH OF WHICH MUST BE ZERO", the
\* turns that do not trace to a human-rooted summon and the summons more than one turn cites.
NoDrift ==
    /\ \A t \in turns : t.summon \in DOMAIN summons /\ summons[t.summon].root_is_human
    /\ \A t, u \in turns : t.summon = u.summon => t.turn = u.turn

\* One summon for a cause and a member, however often and under whatever name it was asked for.
OneSummonPerCause == \A i, k \in DOMAIN summons :
    summons[i].cause = summons[k].cause /\ summons[i].member = summons[k].member => i = k

\* What roots a chain: a human's message, or the order that fired.
RootAt(i) == LET c == summons[i].cause IN
    IF c.kind = "message"
    THEN [root |-> said[c.of].actor, depth |-> HUMAN_ROOT_DEPTH, order |-> NoLoop]
    ELSE [root |-> summons[i].root_actor, depth |-> HUMAN_ROOT_DEPTH, order |-> summons[i].order]

\* The walk from a summon back to what rooted it, through the turns in between.
Walk[i \in DOMAIN summons] ==
    IF summons[i].cause.kind = "started" THEN [Walk[summons[i].cause.of] EXCEPT !.depth = @ + 1] ELSE RootAt(i)

\* Held and released: a summon its human signed for.
Released(i) == \E d \in held : /\ d.resolution = "APPROVED"
                               /\ d.pending.cause = summons[i].cause
                               /\ d.pending.member = summons[i].member

\* "Provenance is DENORMALISED onto the summon row, so resolving a turn to its root is a single hop
\* however deep" a chain goes (summon-drift.sql:61): what the row says is what the walk finds, and
\* no walk is longer than the cap.  A summon that waited for a signature says nothing of its order.
ProvenanceIsWalk == \A i \in DOMAIN summons :
    /\ summons[i].root_actor = Walk[i].root
    /\ summons[i].depth = Walk[i].depth /\ summons[i].depth <= SUMMON_DEPTH_CAP
    /\ summons[i].order = Walk[i].order \/ (Released(i) /\ summons[i].order = NoLoop)
    /\ summons[i].order # NoLoop => summons[i].root_actor = Creator[summons[i].order]

\* A released summon of an order's chain is not the order's any more: "it is threaded down so a
\* summon that turn emits inherits it, and the whole cycle reads as order-rooted in the drift
\* ledger" (commands/context.ts:33).
CycleIsOrderRooted == \A i \in DOMAIN summons : summons[i].order = Walk[i].order

\* Refused out loud: every name a completed turn emitted, whatever its mandate, is a summon of whom
\* it names, a decision that holds one, a notice in the room, or still on its way; or a fault took
\* it.  It is of names only: a summon emitted without one is answered by nobody (agent.ts:691).
EmissionsAreAnswered == \A a \in asked : a[2] # Unnamed =>
    \/ \E i \in DOMAIN summons : summons[i].cause = a[1] /\ summons[i].member = Matches[a[2]]
    \/ \E d \in held : d.pending.cause = a[1] /\ d.pending.name = a[2]
    \/ a \in notices
    \/ \E j \in jobs : j.cause = a[1] /\ j.name = a[2]
    \/ \E j \in jobs : j.at = "closing" /\ j.summon = a[1].of /\ a[2] \in j.names
    \/ breaks > 0

\* A human is behind every turn, as far as the cap and no further, and no name that a turn emitted
\* goes without an answer.
ChainsHold == NoDrift /\ OneSummonPerCause /\ ProvenanceIsWalk /\ EmissionsAreAnswered
=============================================================================
