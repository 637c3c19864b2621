---------------------------- MODULE Doors_proofs ----------------------------
(***************************************************************************)
(* What holds at the doors and behind them for every value of the          *)
(* constants: the chains of summons, the actions that are proposed, the    *)
(* windows that turns are shown, and the doors with their throttles and    *)
(* sockets. Each part proves what its component promises, under the        *)
(* component's own specification, from an inductive invariant given at the *)
(* head of the part; a lemma for each kind of step says what the step      *)
(* leaves of it. What the gate decides is proved in ExecutionGate_proofs.  *)
(* The last part carries what was proved over to the instance that the     *)
(* runs check.                                                             *)
(***************************************************************************)
EXTENDS MCDoors, FiniteSetTheorems, WellFoundedInduction, SequenceTheorems, TLAPS

\* A set of numbers that is not empty has a first.
LEMMA FirstOfNumbers == ASSUME NEW S \in SUBSET Nat, S # {} PROVE \E first \in S : \A n \in S : first <= n
<1> DEFINE Less == OpToRel(<, Nat)
<1>2. PICK first \in S : \A h \in S : ~(<<h, first>> \in Less)
  <2>1. IsWellFoundedOn(Less, Nat)
    BY NatLessThanWellFounded
  <2> HIDE DEF Less
  <2> QED BY <2>1, WFMin
<1>3. Less = {pair \in Nat \X Nat : pair[1] < pair[2]}
  BY Zenon DEF OpToRel
<1> HIDE DEF Less
<1>4. \A h, k \in Nat : h < k => <<h, k>> \in Less
  BY <1>3
<1>5. \A h \in S : first \in Nat /\ h \in Nat /\ ~(h < first)
  BY <1>2, <1>4
<1>6. \A h \in S : first <= h
  BY <1>5
<1> QED BY <1>6, Zenon
-----------------------------------------------------------------------------
(* Chains of summons. *)

\* The rows of the log, of the jobs and of the summons that are held.
Places == {"judge", "route", "summon", "routed", "turn", "streaming", "closing"}
CauseRow == [kind : {"message", "completed", "started"}, of : Nat]
OrderOrNone == Loops \cup {NoLoop}
JobRow == [at : Places, by : People \cup Bots, name : Names \cup Bots, member : Bots, cause : CauseRow, root : People,
           depth : Nat, order : OrderOrNone, summon : Nat, turn : Nat, names : SUBSET Names, again : {0, 1}]
SaidRow == [actor : People, names : Bots]
SummonRows == [member : Bots, requested_by : People \cup Bots, cause : CauseRow, root_actor : People, root_is_human : {TRUE},
               depth : Nat, order : OrderOrNone]
TurnRows == [type : {"agent.turn.started", "agent.turn.completed"}, summon : Nat, turn : {1}, success : BOOLEAN]
HeldRow == [pending : JobRow, resolution : {"NONE", "APPROVED", "DENIED"}]

\* The types of the chains.
ChainTyped ==
    /\ said \in Seq(SaidRow) /\ summons \in Seq(SummonRows) /\ routed \subseteq DOMAIN summons
    /\ turns \subseteq TurnRows /\ held \subseteq HeldRow /\ jobs \subseteq JobRow /\ asked \subseteq CauseRow \X (Names \cup {Unnamed})
    /\ firings \in Nat /\ Len(said) + firings \in 0..MaxRoots /\ breaks \in 0..MaxChainFaults

\* What was approved for a cause and a member.
Approved(cause, member) == \E d \in held : d.resolution = "APPROVED" /\ d.pending.cause = cause /\ d.pending.member = member

\* A link of a chain has the root and the depth that its cause gives it.
LinkHolds(cause, root, depth) ==
    /\ cause.kind = "message" => cause.of \in DOMAIN said /\ root = said[cause.of].actor /\ depth = 0
    /\ cause.kind = "completed" => cause.of \in DOMAIN summons /\ depth = 0
    /\ cause.kind = "started" =>
         /\ cause.of \in DOMAIN summons /\ root = summons[cause.of].root_actor /\ depth = summons[cause.of].depth + 1

\* And its order.
OrderHolds(cause, root, ord) ==
    /\ cause.kind = "message" => ord = NoLoop
    /\ cause.kind = "completed" => ord \in Loops /\ root = Creator[ord]
    /\ cause.kind = "started" => ord = summons[cause.of].order

\* But one that was held and approved has none.
OrderLost(cause, member, ord) == cause.kind = "started" /\ ord = NoLoop /\ Approved(cause, member)

\* A job that is past the gate.
Summoning(j) == j.at \in {"routed", "turn", "streaming", "closing"}

\* The row of the log that a summoned one has.
RowIs(i, j) == LET s == summons[i] IN
    /\ i \in DOMAIN summons /\ s.cause = j.cause /\ s.member = j.member
    /\ s.root_actor = j.root /\ s.depth = j.depth /\ s.order = j.order

\* A command or a turn: once judged it is within the cap and resolved, and once summoned it is what its row says.
JobHolds(j) ==
    /\ LinkHolds(j.cause, j.root, j.depth)
    /\ OrderHolds(j.cause, j.root, j.order) \/ (j.at # "judge" /\ OrderLost(j.cause, j.member, j.order))
    /\ j.at # "judge" => j.depth <= SUMMON_DEPTH_CAP
    /\ j.at # "judge" /\ j.cause.kind = "started" => j.member = Matches[j.name]
    /\ j.at = "judge" => j.cause.kind = "started" /\ j.name \in Names
    /\ Summoning(j) => RowIs(j.summon, j)
    /\ j.at \in {"streaming", "closing"} => j.turn = 1

\* A summon that is held is within the cap, resolved and of no order.
HeldHolds(d) ==
    /\ LinkHolds(d.pending.cause, d.pending.root, d.pending.depth)
    /\ d.pending.at = "route" /\ d.pending.depth <= SUMMON_DEPTH_CAP
    /\ d.pending.cause.kind = "started" /\ d.pending.order = NoLoop /\ d.pending.member = Matches[d.pending.name]

\* A row of the log is a link within the cap.
RowHolds(i) == LET s == summons[i] IN
    /\ LinkHolds(s.cause, s.root_actor, s.depth)
    /\ OrderHolds(s.cause, s.root_actor, s.order) \/ OrderLost(s.cause, s.member, s.order)
    /\ s.depth <= SUMMON_DEPTH_CAP

\* A name that was emitted has been answered, or its turn still has it; an emission without a name has none.
AnsweredFor(a) ==
    \/ a[2] = Unnamed
    \/ \E i \in DOMAIN summons : summons[i].cause = a[1] /\ summons[i].member = Matches[a[2]]
    \/ \E d \in held : d.pending.cause = a[1] /\ d.pending.name = a[2]
    \/ a \in notices
    \/ \E j \in jobs : j.cause = a[1] /\ j.name = a[2]
    \/ \E j \in jobs : j.at = "closing" /\ j.summon = a[1].of /\ a[2] \in j.names
    \/ breaks > 0

\* What every state of the chains keeps; the commented parts above say what each is for.
ChainInv ==
    /\ ChainTyped
    /\ \A j \in jobs : JobHolds(j)
    /\ \A d \in held : HeldHolds(d)
    /\ \A i \in DOMAIN summons : RowHolds(i)
    /\ OneSummonPerCause
    /\ \A t \in turns : t.summon \in DOMAIN summons
    /\ \A a \in asked : a[1].kind = "started" /\ AnsweredFor(a)

\* The log only grows.
LogGrows ==
    /\ said' \in Seq(SaidRow) /\ DOMAIN said \subseteq DOMAIN said' /\ \A i \in DOMAIN said : said'[i] = said[i]
    /\ summons' \in Seq(SummonRows) /\ DOMAIN summons \subseteq DOMAIN summons' /\ \A i \in DOMAIN summons : summons'[i] = summons[i]

\* A decision that holds a summon stays, resolved at most once.
HeldStays == \A d \in held : \/ d \in held'
                             \/ d.resolution = "NONE" /\ \E e \in held' : e.pending = d.pending

\* A link that holds goes on holding.
LEMMA LinkStays ==
  ASSUME LogGrows, NEW cause, NEW root, NEW depth, LinkHolds(cause, root, depth)
  PROVE  LinkHolds(cause, root, depth)'
BY DEF LogGrows, LinkHolds

\* And so does its order.
LEMMA OrderStays ==
  ASSUME LogGrows, NEW cause, NEW root, NEW depth, LinkHolds(cause, root, depth), NEW ord, OrderHolds(cause, root, ord)
  PROVE  OrderHolds(cause, root, ord)'
BY DEF LogGrows, LinkHolds, OrderHolds

\* What was approved stays approved.
LEMMA ApprovedStays ==
  ASSUME HeldStays, NEW cause, NEW member, Approved(cause, member)
  PROVE  Approved(cause, member)'
BY DEF HeldStays, Approved

\* A command or a turn that is not touched goes on holding.
LEMMA JobStays ==
  ASSUME LogGrows, HeldStays, NEW j, JobHolds(j)
  PROVE  JobHolds(j)'
<1>1. LinkHolds(j.cause, j.root, j.depth)'
  BY LinkStays DEF JobHolds
<1>2. OrderHolds(j.cause, j.root, j.order)' \/ (j.at # "judge" /\ OrderLost(j.cause, j.member, j.order)')
  BY OrderStays, ApprovedStays DEF JobHolds, OrderLost
<1>3. Summoning(j) => RowIs(j.summon, j)'
  BY DEF LogGrows, JobHolds, RowIs
<1> QED BY <1>1, <1>2, <1>3 DEF JobHolds, Summoning

\* So does what is held.
LEMMA PendingStays ==
  ASSUME LogGrows, NEW d, HeldHolds(d)
  PROVE  HeldHolds(d)'
BY LinkStays DEF HeldHolds

\* And a row of the log.
LEMMA RowStays ==
  ASSUME LogGrows, HeldStays, NEW i \in DOMAIN summons, RowHolds(i)
  PROVE  RowHolds(i)'
<1> DEFINE s == summons[i]
<1>1. summons'[i] = summons[i]
  BY DEF LogGrows
<1>2. LinkHolds(summons[i].cause, summons[i].root_actor, summons[i].depth)
      /\ (OrderHolds(summons[i].cause, summons[i].root_actor, summons[i].order)
           \/ OrderLost(summons[i].cause, summons[i].member, summons[i].order))
      /\ summons[i].depth <= SUMMON_DEPTH_CAP
  BY DEF RowHolds
<1>3. PICK r : r = summons[i]
  OBVIOUS
<1>4. LinkHolds(r.cause, r.root_actor, r.depth)'
  BY <1>2, <1>3, LinkStays
<1>5. OrderHolds(r.cause, r.root_actor, r.order)' \/ OrderLost(r.cause, r.member, r.order)'
  BY <1>2, <1>3, OrderStays, ApprovedStays DEF OrderLost
<1> QED BY <1>1, <1>2, <1>3, <1>4, <1>5 DEF RowHolds

\* The fields of a command that moves on to another await.
LEMMA JobGoesTo ==
  ASSUME NEW j \in JobRow, NEW place \in Places
  PROVE  /\ [j EXCEPT !.at = place] \in JobRow
         /\ [j EXCEPT !.at = place].at = place
         /\ \A k : k = [j EXCEPT !.at = place] =>
              /\ k.by = j.by /\ k.name = j.name /\ k.member = j.member /\ k.cause = j.cause /\ k.root = j.root
              /\ k.depth = j.depth /\ k.order = j.order /\ k.summon = j.summon /\ k.turn = j.turn /\ k.names = j.names
BY DEF JobRow

\* What a step does to the rows: those it adds hold, and a summon it adds is the first of its cause and member.
RowsAdded ==
    /\ \A k \in jobs' : k \in jobs \/ JobHolds(k)'
    /\ \A d \in held' : (\E e \in held : e.pending = d.pending) \/ HeldHolds(d)'
    /\ \A i \in DOMAIN summons' : i \in DOMAIN summons \/ RowHolds(i)'
    /\ OneSummonPerCause'
    /\ \A t \in turns' : t.summon \in DOMAIN summons'

\* A name that the job had in hand is answered for by something else.
HandsOver(j) == \A a \in asked :
    (j.cause = a[1] /\ j.name = a[2]) \/ (j.at = "closing" /\ j.summon = a[1].of /\ a[2] \in j.names) => AnsweredFor(a)'

\* And to the names: those it adds have their answer, and whoever goes hands over what it had.
NamesKept ==
    /\ notices \subseteq notices' /\ (breaks > 0 => breaks' > 0)
    /\ \A a \in asked' : a \in asked \/ (a[1].kind = "started" /\ AnsweredFor(a)')
    /\ \A j \in jobs : j \in jobs' \/ HandsOver(j)

\* A name that was answered for still is.
LEMMA AnswersStay ==
  ASSUME ChainInv, LogGrows, HeldStays, NamesKept, NEW a \in asked
  PROVE  AnsweredFor(a)'
<1>1. AnsweredFor(a)
  BY DEF ChainInv
<1>2. CASE \E i \in DOMAIN summons : summons[i].cause = a[1] /\ summons[i].member = Matches[a[2]]
  BY <1>2 DEF AnsweredFor, LogGrows
<1>3. CASE \E d \in held : d.pending.cause = a[1] /\ d.pending.name = a[2]
  BY <1>3 DEF AnsweredFor, HeldStays
<1>4. CASE a \in notices
  BY <1>4 DEF AnsweredFor, NamesKept
<1>5. CASE \E j \in jobs : j.cause = a[1] /\ j.name = a[2]
  <2>1. PICK j \in jobs : j.cause = a[1] /\ j.name = a[2]
    BY <1>5
  <2>2. CASE j \in jobs'
    BY <2>1, <2>2 DEF AnsweredFor
  <2>3. CASE HandsOver(j)
    BY <2>1, <2>3 DEF HandsOver
  <2> QED BY <2>2, <2>3 DEF NamesKept
<1>6. CASE \E j \in jobs : j.at = "closing" /\ j.summon = a[1].of /\ a[2] \in j.names
  <2>1. PICK j \in jobs : j.at = "closing" /\ j.summon = a[1].of /\ a[2] \in j.names
    BY <1>6
  <2>2. CASE j \in jobs'
    BY <2>1, <2>2 DEF AnsweredFor
  <2>3. CASE HandsOver(j)
    BY <2>1, <2>3 DEF HandsOver
  <2> QED BY <2>2, <2>3 DEF NamesKept
<1>7. CASE breaks > 0
  BY <1>7 DEF AnsweredFor, NamesKept
<1>8. CASE a[2] = Unnamed
  BY <1>8 DEF AnsweredFor
<1> QED BY <1>1, <1>2, <1>3, <1>4, <1>5, <1>6, <1>7, <1>8 DEF AnsweredFor

\* A step that adds only what holds, and loses no name, keeps the invariant.
LEMMA ChainMoves ==
  ASSUME ChainInv, ChainTyped', LogGrows, HeldStays, RowsAdded, NamesKept
  PROVE  ChainInv'
<1>1. \A j \in jobs' : JobHolds(j)'
  BY JobStays DEF ChainInv, RowsAdded
<1>2. \A d \in held' : HeldHolds(d)'
  <2>1. TAKE d \in held'
  <2>2. CASE \E e \in held : e.pending = d.pending
    <3>1. PICK e \in held : e.pending = d.pending
      BY <2>2
    <3>2. HeldHolds(e)'
      BY PendingStays DEF ChainInv
    <3> QED BY <3>1, <3>2 DEF HeldHolds
  <2> QED BY <2>2 DEF RowsAdded
<1>3. \A i \in DOMAIN summons' : RowHolds(i)'
  BY RowStays DEF ChainInv, RowsAdded
<1>4. \A a \in asked' : a[1].kind = "started" /\ AnsweredFor(a)'
  BY AnswersStay DEF ChainInv, NamesKept
<1>5. OneSummonPerCause' /\ \A t \in turns' : t.summon \in DOMAIN summons'
  BY DEF RowsAdded
<1> QED BY <1>1, <1>2, <1>3, <1>4, <1>5 DEF ChainInv

\* Where a step leaves the log and the decisions alone.
LEMMA LogAsItWas ==
  ASSUME ChainInv, said' = said, summons' = summons
  PROVE  LogGrows /\ OneSummonPerCause' /\ \A t \in turns : t.summon \in DOMAIN summons'
BY DEF ChainInv, ChainTyped, LogGrows, OneSummonPerCause

\* And the decisions.
LEMMA HeldAsItWas ==
  ASSUME held' = held
  PROVE  HeldStays
BY DEF HeldStays

\* The new job has what the old one had in hand.
LEMMA TakesOver ==
  ASSUME NEW j, NEW k \in jobs', k.cause = j.cause, k.name = j.name, j.at # "closing"
  PROVE  HandsOver(j)
BY DEF HandsOver, AnsweredFor

\* The fields of a new command.
LEMMA JobIs ==
  ASSUME NEW place \in Places, NEW by \in People \cup Bots, NEW nm \in Names \cup Bots, NEW m \in Bots, NEW cause \in CauseRow,
         NEW root \in People, NEW depth \in Nat, NEW ord \in OrderOrNone
  PROVE  /\ Job(place, by, nm, m, cause, root, depth, ord) \in JobRow
         /\ \A k : k = Job(place, by, nm, m, cause, root, depth, ord) =>
              /\ k.at = place /\ k.by = by /\ k.name = nm /\ k.member = m /\ k.cause = cause /\ k.root = root
              /\ k.depth = depth /\ k.order = ord /\ k.summon = 0 /\ k.turn = 0 /\ k.names = {}
BY DEF Job, JobRow

\* What a step takes as it is, but for the commands.
OnlyJobs == UNCHANGED <<said, summons, turns, held, asked, firings>> /\ routed' \in SUBSET DOMAIN summons
            /\ notices \subseteq notices' /\ breaks' \in breaks..MaxChainFaults

\* A step that only moves commands keeps the invariant if those it adds hold and those it takes are answered for.
LEMMA JobsMove ==
  ASSUME ChainInv, OnlyJobs, \A k \in jobs' : k \in jobs \/ (k \in JobRow /\ JobHolds(k)'), \A j \in jobs : j \in jobs' \/ HandsOver(j)
  PROVE  ChainInv'
<1>1. LogGrows /\ HeldStays /\ OneSummonPerCause' /\ \A t \in turns : t.summon \in DOMAIN summons'
  BY LogAsItWas, HeldAsItWas DEF OnlyJobs
<1>2. RowsAdded
  BY <1>1 DEF RowsAdded, OnlyJobs
<1>3. NamesKept
  BY DEF NamesKept, OnlyJobs, ChainInv, ChainTyped
<1>4. ChainTyped'
  BY DEF ChainInv, ChainTyped, OnlyJobs
<1> QED BY <1>1, <1>2, <1>3, <1>4, ChainMoves

\* A command that goes to another await and is what it was.
LEMMA JobGoesOn ==
  ASSUME ChainInv, OnlyJobs, NEW j \in jobs, NEW place \in Places, j.at # "judge", j.at # "closing", place \notin {"judge", "streaming", "closing"},
         place \in {"routed", "turn"} => Summoning(j), jobs' = (jobs \ {j}) \cup {[j EXCEPT !.at = place]}
  PROVE  ChainInv'
<1>1. PICK k : k = [j EXCEPT !.at = place]
  OBVIOUS
<1>2. k \in JobRow /\ k.at = place /\ k.by = j.by /\ k.name = j.name /\ k.member = j.member /\ k.cause = j.cause /\ k.root = j.root
      /\ k.depth = j.depth /\ k.order = j.order /\ k.summon = j.summon
  BY <1>1, JobGoesTo DEF ChainInv, ChainTyped
<1>3. jobs' = (jobs \ {j}) \cup {k}
  BY <1>1
<1>4. JobHolds(j)'
  BY JobStays, LogAsItWas, HeldAsItWas DEF OnlyJobs, ChainInv
<1>5. JobHolds(k)'
  BY <1>2, <1>4 DEF JobHolds, Summoning, RowIs, Places
<1>6. HandsOver(j)
  BY <1>2, <1>3, TakesOver
<1> QED BY <1>2, <1>3, <1>5, <1>6, JobsMove

\* A command that ends, having told the room.
LEMMA JobToldAndEnds ==
  ASSUME ChainInv, UNCHANGED <<said, summons, routed, turns, held, asked, firings, breaks>>, NEW j \in jobs, j.at # "closing", Tell(j), Ends(j)
  PROVE  ChainInv'
<1>1. OnlyJobs
  BY DEF OnlyJobs, ChainInv, ChainTyped, Tell
<1>2. HandsOver(j)
  <2> SUFFICES ASSUME NEW a \in asked, j.cause = a[1], j.name = a[2] PROVE AnsweredFor(a)'
    BY DEF HandsOver
  <2>1. a = <<a[1], a[2]>>
    BY DEF ChainInv, ChainTyped
  <2> QED BY <2>1 DEF AnsweredFor, Tell
<1>3. jobs' = jobs \ {j}
  BY DEF Ends
<1> QED BY <1>1, <1>2, <1>3, JobsMove

\* The route of a summon is selected.
LEMMA ChainSelects ==
  ASSUME ChainInv, NEW j \in jobs, SelectRoute(j) PROVE ChainInv'
<1>1. OnlyJobs
  BY DEF OnlyJobs, SelectRoute, ChainInv, ChainTyped
<1> QED BY <1>1, JobGoesOn DEF SelectRoute, Becomes, Places

\* There is none.
LEMMA ChainFindsNoRoute ==
  ASSUME ChainInv, NEW j \in jobs, NoUsableRoute(j) PROVE ChainInv'
BY JobToldAndEnds DEF NoUsableRoute

\* The member cannot take a turn.
LEMMA ChainRefusesTurn ==
  ASSUME ChainInv, NEW j \in jobs, RefuseTurn(j) PROVE ChainInv'
BY JobToldAndEnds DEF RefuseTurn

\* A name is refused, and so is answered.
LEMMA ChainRefuses ==
  ASSUME ChainInv, NEW j \in jobs, RefuseEmitted(j) PROVE ChainInv'
BY JobToldAndEnds DEF RefuseEmitted

\* The selected route is written.
LEMMA ChainRoutes ==
  ASSUME ChainInv, NEW j \in jobs, AppendRouteSelected(j) PROVE ChainInv'
<1>1. Summoning(j) /\ j.summon \in DOMAIN summons
  BY DEF AppendRouteSelected, ChainInv, JobHolds, RowIs, Summoning
<1>2. OnlyJobs
  BY <1>1 DEF OnlyJobs, AppendRouteSelected, ChainInv, ChainTyped
<1> QED BY <1>1, <1>2, JobGoesOn DEF AppendRouteSelected, Becomes, Places

\* What a summon resolves to.
LEMMA ResolvedIs ==
  ASSUME ChainInv, NEW j \in jobs, j.at = "judge", ~TooDeep(j), Matches[j.name] # Nobody, j.name \in Names,
         NEW ord \in {j.order, NoLoop}, NEW k, k = [Resolve(j) EXCEPT !.order = ord]
  PROVE  /\ k \in JobRow /\ k.at = "route" /\ k.cause = j.cause /\ k.name = j.name /\ k.member = Matches[j.name]
         /\ k.root = j.root /\ k.depth = j.depth /\ k.order = ord /\ k.depth <= SUMMON_DEPTH_CAP
<1>1. j \in JobRow
  BY DEF ChainInv, ChainTyped
<1>2. Matches[j.name] \in Bots
  BY MatchesAssumption
<1>3. PICK m \in Bots : m = Matches[j.name]
  BY <1>2
<1>4. k = [j EXCEPT !.at = "route", !.member = m, !.order = ord]
  BY <1>3 DEF Resolve
<1>5. ord \in OrderOrNone
  BY <1>1 DEF JobRow, OrderOrNone
<1>6. k \in JobRow /\ k.at = "route" /\ k.cause = j.cause /\ k.name = j.name /\ k.member = m
      /\ k.root = j.root /\ k.depth = j.depth /\ k.order = ord
  BY <1>1, <1>4, <1>5 DEF JobRow, Places
<1>7. j.depth \in Nat
  BY <1>1 DEF JobRow
<1> QED BY <1>3, <1>6, <1>7 DEF TooDeep, SUMMON_DEPTH_CAP

\* A name that an agent emitted is one of Names.
LEMMA JudgedAreNames ==
  ASSUME ChainInv, NEW j \in jobs, j.at = "judge"
  PROVE  j.name \in Names
BY DEF ChainInv, JobHolds

\* A name that is allowed is summoned by its own job.
LEMMA ChainAllows ==
  ASSUME ChainInv, NEW j \in jobs, AllowEmitted(j) PROVE ChainInv'
<1>1. j.at = "judge" /\ ~TooDeep(j) /\ Matches[j.name] # Nobody /\ j.name \in Names /\ jobs' = (jobs \ {j}) \cup {Resolve(j)}
  BY JudgedAreNames DEF AllowEmitted, MayGoOn, Becomes
<1>2. j \in JobRow
  BY DEF ChainInv, ChainTyped
<1>3. PICK k : k = Resolve(j)
  OBVIOUS
<1>4. k = [Resolve(j) EXCEPT !.order = j.order]
  BY <1>2, <1>3 DEF Resolve, JobRow
<1>5. k \in JobRow /\ k.at = "route" /\ k.cause = j.cause /\ k.name = j.name /\ k.member = Matches[j.name]
      /\ k.root = j.root /\ k.depth = j.depth /\ k.order = j.order /\ k.depth <= SUMMON_DEPTH_CAP
  BY <1>1, <1>4, ResolvedIs
<1>6. OnlyJobs
  BY DEF OnlyJobs, AllowEmitted, ChainInv, ChainTyped
<1>7. JobHolds(j)'
  BY <1>6, JobStays, LogAsItWas, HeldAsItWas DEF OnlyJobs, ChainInv
<1>8. JobHolds(k)'
  BY <1>1, <1>5, <1>7 DEF JobHolds, Summoning
<1>9. HandsOver(j)
  BY <1>1, <1>3, <1>5, TakesOver
<1> QED BY <1>1, <1>3, <1>5, <1>6, <1>8, <1>9, JobsMove

\* One that needs a signature is held.
LEMMA ChainPauses ==
  ASSUME ChainInv, NEW j \in jobs, PauseSummonForCoSign(j) PROVE ChainInv'
<1>1. j.at = "judge" /\ ~TooDeep(j) /\ Matches[j.name] # Nobody /\ j.name \in Names /\ jobs' = jobs \ {j}
  BY JudgedAreNames DEF PauseSummonForCoSign, MayGoOn, Ends
<1>2. PICK k : k = [Resolve(j) EXCEPT !.order = NoLoop]
  OBVIOUS
<1>3. k \in JobRow /\ k.at = "route" /\ k.cause = j.cause /\ k.name = j.name /\ k.member = Matches[j.name]
      /\ k.root = j.root /\ k.depth = j.depth /\ k.order = NoLoop /\ k.depth <= SUMMON_DEPTH_CAP
  BY <1>1, <1>2, ResolvedIs
<1>4. PICK e : e = Decision(k)
  OBVIOUS
<1>5. e \in HeldRow /\ e.pending = k /\ held' = held \cup {e}
  BY <1>2, <1>3, <1>4 DEF PauseSummonForCoSign, Decision, HeldRow
<1>6. LogGrows /\ OneSummonPerCause' /\ \A t \in turns : t.summon \in DOMAIN summons'
  BY LogAsItWas DEF PauseSummonForCoSign
<1>7. HeldStays
  BY <1>5 DEF HeldStays
<1>8. HeldHolds(e)'
  <2>1. JobHolds(j)'
    BY <1>6, <1>7, JobStays DEF ChainInv
  <2> QED BY <2>1, <1>1, <1>3, <1>5 DEF JobHolds, HeldHolds
<1>9. RowsAdded
  BY <1>1, <1>5, <1>6, <1>8 DEF RowsAdded, PauseSummonForCoSign
<1>10. HandsOver(j)
  BY <1>1, <1>3, <1>5 DEF HandsOver, AnsweredFor
<1>11. NamesKept
  BY <1>1, <1>10 DEF NamesKept, PauseSummonForCoSign
<1>12. ChainTyped'
  BY <1>1, <1>5 DEF ChainInv, ChainTyped, PauseSummonForCoSign
<1> QED BY <1>6, <1>7, <1>9, <1>11, <1>12, ChainMoves

\* The signature resolves it, and an approval goes on from what was held.
LEMMA ChainSigns ==
  ASSUME ChainInv, NEW d \in held, NEW answer \in {"APPROVED", "DENIED"}, Sign(d, answer) PROVE ChainInv'
<1>1. PICK e : e = [d EXCEPT !.resolution = answer]
  OBVIOUS
<1>2. d \in HeldRow /\ d.pending \in JobRow
  BY DEF ChainInv, ChainTyped, HeldRow
<1>3. e \in HeldRow /\ e.pending = d.pending /\ e.resolution = answer
  BY <1>1, <1>2 DEF HeldRow
<1>4. held' = (held \ {d}) \cup {e} /\ d.resolution = "NONE"
      /\ jobs' = IF answer = "APPROVED" THEN jobs \cup {d.pending} ELSE jobs
  BY <1>1 DEF Sign
<1>5. LogGrows /\ OneSummonPerCause' /\ \A t \in turns : t.summon \in DOMAIN summons'
  BY LogAsItWas DEF Sign
<1>6. HeldStays
  BY <1>3, <1>4 DEF HeldStays
<1>7. answer = "APPROVED" => JobHolds(d.pending)'
  <2>1. HeldHolds(d)'
    BY <1>5, PendingStays DEF ChainInv
  <2>2. answer = "APPROVED" => Approved(d.pending.cause, d.pending.member)'
    BY <1>3, <1>4 DEF Approved
  <2> QED BY <2>1, <2>2 DEF HeldHolds, JobHolds, OrderLost, Summoning
<1>8. RowsAdded
  BY <1>3, <1>4, <1>5, <1>7 DEF RowsAdded, Sign
<1>9. NamesKept
  BY <1>4 DEF NamesKept, Sign
<1>10. ChainTyped'
  BY <1>2, <1>3, <1>4 DEF ChainInv, ChainTyped, Sign
<1> QED BY <1>5, <1>6, <1>8, <1>9, <1>10, ChainMoves

\* A command that ends at the row of its summon, found or its own, leaves its name answered for.
LEMMA SummonedIsAnswer ==
  ASSUME NEW j, NEW i \in DOMAIN summons', summons'[i].cause = j.cause, summons'[i].member = j.member, j.at # "closing",
         j.cause.kind = "started" => j.member = Matches[j.name], \A a \in asked : a[1].kind = "started"
  PROVE  HandsOver(j)
<1> SUFFICES ASSUME NEW a \in asked, j.cause = a[1], j.name = a[2] PROVE AnsweredFor(a)'
  BY DEF HandsOver
<1>1. summons'[i].cause = a[1] /\ summons'[i].member = Matches[a[2]]
  OBVIOUS
<1> QED BY <1>1 DEF AnsweredFor

\* The summon is written.
LEMMA ChainSummons ==
  ASSUME ChainInv, NEW j \in jobs, AppendSummon(j) PROVE ChainInv'
<1>1. j \in JobRow /\ JobHolds(j) /\ j.at = "summon"
  BY DEF ChainInv, ChainTyped, AppendSummon
<1>2. CASE Summoned(j)
  <2>1. jobs' = jobs \ {j} /\ summons' = summons
    BY <1>2 DEF AppendSummon, Ends
  <2>2. OnlyJobs
    BY <2>1 DEF OnlyJobs, AppendSummon, ChainInv, ChainTyped
  <2>3. HandsOver(j)
    BY <1>1, <1>2, <2>1, SummonedIsAnswer DEF Summoned, JobHolds, ChainInv
  <2> QED BY <2>1, <2>2, <2>3, JobsMove
<1>3. CASE ~Summoned(j)
  <2>1. PICK n : n = Len(summons) + 1
    OBVIOUS
  <2>2. PICK s : s = SummonRow(j)
    OBVIOUS
  <2>3. s \in SummonRows /\ s.cause = j.cause /\ s.member = j.member /\ s.root_actor = j.root /\ s.depth = j.depth /\ s.order = j.order
    BY <1>1, <2>2 DEF SummonRow, SummonRows, JobRow
  <2>4. PICK k : k = [j EXCEPT !.at = "routed", !.summon = n]
    OBVIOUS
  <2>5. summons \in Seq(SummonRows)
    BY DEF ChainInv, ChainTyped
  <2>6. n \in Nat
    BY <2>1, <2>5
  <2>7. k \in JobRow /\ k.at = "routed" /\ k.summon = n /\ k.cause = j.cause /\ k.name = j.name /\ k.member = j.member
        /\ k.root = j.root /\ k.depth = j.depth /\ k.order = j.order
    BY <1>1, <2>4, <2>6 DEF JobRow, Places
  <2>8. summons' = Append(summons, s) /\ jobs' = (jobs \ {j}) \cup {k}
    BY <1>3, <2>1, <2>2, <2>4 DEF AppendSummon, Becomes
  <2>9. /\ summons' \in Seq(SummonRows) /\ n \in DOMAIN summons' /\ summons'[n] = s /\ DOMAIN summons' = DOMAIN summons \cup {n}
        /\ \A i \in DOMAIN summons : summons'[i] = summons[i]
    BY <2>1, <2>3, <2>5, <2>8
  <2>10. LogGrows
    BY <2>9 DEF LogGrows, AppendSummon, ChainInv, ChainTyped
  <2>11. HeldStays
    BY HeldAsItWas DEF AppendSummon
  <2>12. JobHolds(j)'
    BY <1>1, <2>10, <2>11, JobStays
  <2>13. JobHolds(k)'
    <3>1. RowIs(n, k)'
      BY <2>3, <2>7, <2>9 DEF RowIs
    <3>2. LinkHolds(k.cause, k.root, k.depth)' /\ (OrderHolds(k.cause, k.root, k.order)' \/ OrderLost(k.cause, k.member, k.order)')
          /\ k.depth <= SUMMON_DEPTH_CAP /\ (k.cause.kind = "started" => k.member = Matches[k.name])
      BY <1>1, <2>7, <2>12 DEF JobHolds
    <3> QED BY <2>7, <3>1, <3>2 DEF JobHolds
  <2>14. RowHolds(n)'
    BY <1>1, <2>3, <2>9, <2>12 DEF JobHolds, RowHolds
  <2>15. OneSummonPerCause'
    BY <1>3, <2>3, <2>9 DEF ChainInv, OneSummonPerCause, Summoned
  <2>16. RowsAdded
    BY <2>8, <2>9, <2>13, <2>14, <2>15 DEF RowsAdded, AppendSummon, ChainInv
  <2>17. HandsOver(j)
    BY <1>1, <2>7, <2>8, TakesOver
  <2>18. NamesKept
    BY <2>8, <2>17 DEF NamesKept, AppendSummon
  <2>19. ChainTyped'
    BY <2>7, <2>8, <2>9 DEF ChainInv, ChainTyped, AppendSummon
  <2> QED BY <2>10, <2>11, <2>16, <2>18, <2>19, ChainMoves
<1> QED BY <1>2, <1>3

\* A step of a turn that writes a row of it.
LEMMA TurnMoves ==
  ASSUME ChainInv, NEW j \in jobs, Summoning(j), UNCHANGED <<said, summons, routed, held, notices, firings>>,
         NEW rows \in SUBSET TurnRows, \A t \in rows : t.summon = j.summon, turns' = turns \cup rows, breaks' \in breaks..MaxChainFaults,
         asked' \in SUBSET (CauseRow \X (Names \cup {Unnamed})), \A a \in asked' : a \in asked \/ (a[1].kind = "started" /\ AnsweredFor(a)'),
         \A k \in jobs' : k \in jobs \/ (k \in JobRow /\ JobHolds(k)'), \A k \in jobs : k \in jobs' \/ HandsOver(k)
  PROVE  ChainInv'
<1>1. LogGrows /\ HeldStays /\ OneSummonPerCause' /\ \A t \in turns : t.summon \in DOMAIN summons'
  BY LogAsItWas, HeldAsItWas
<1>2. j.summon \in DOMAIN summons
  BY DEF ChainInv, JobHolds, RowIs
<1>3. RowsAdded
  BY <1>1, <1>2 DEF RowsAdded
<1>4. NamesKept
  BY DEF NamesKept, ChainInv, ChainTyped
<1>5. ChainTyped'
  BY DEF ChainInv, ChainTyped
<1> QED BY <1>1, <1>3, <1>4, <1>5, ChainMoves

\* A turn has its summon's row, which answers for its name.
LEMMA TurnIsSummoned ==
  ASSUME ChainInv, NEW j \in jobs, Summoning(j), summons' = summons, j.at # "closing"
  PROVE  HandsOver(j)
<1>1. JobHolds(j)
  BY DEF ChainInv
<1>2. j.summon \in DOMAIN summons /\ summons[j.summon].cause = j.cause /\ summons[j.summon].member = j.member
  BY <1>1 DEF JobHolds, RowIs
<1>3. j.cause.kind = "started" => j.member = Matches[j.name]
  BY <1>1 DEF JobHolds, Summoning
<1> QED BY <1>2, <1>3, SummonedIsAnswer DEF ChainInv

\* Its turn starts, and orders fire on it.
LEMMA ChainStarts ==
  ASSUME ChainInv, NEW j \in jobs, StartTurn(j) PROVE ChainInv'
<1>1. j \in JobRow /\ JobHolds(j) /\ j.at = "turn" /\ Summoning(j)
  BY DEF ChainInv, ChainTyped, StartTurn, Summoning
<1>2. breaks' \in breaks..MaxChainFaults /\ asked' \in SUBSET (CauseRow \X (Names \cup {Unnamed}))
  BY DEF ChainInv, ChainTyped, StartTurn
<1>3. CASE TurnsOf(j.summon) # {}
  <2>1. jobs' = jobs \ {j} /\ turns' = turns \cup {}
    BY <1>3 DEF StartTurn, Ends
  <2>2. HandsOver(j)
    BY <1>1, TurnIsSummoned DEF StartTurn
  <2> QED BY <1>1, <1>2, <2>1, <2>2, TurnMoves DEF StartTurn
<1>4. CASE TurnsOf(j.summon) = {}
  <2>1. 1 + Cardinality(TurnsOf(j.summon)) = 1
    BY <1>4, FS_EmptySet
  <2>2. PICK k : k = [j EXCEPT !.at = "streaming", !.turn = 1]
    OBVIOUS
  <2>3. turns' = turns \cup {TurnRow("agent.turn.started", k, TRUE)} /\ jobs' = (jobs \ {j}) \cup {k}
    BY <1>4, <2>1, <2>2 DEF StartTurn, Becomes
  <2>4. k \in JobRow /\ k.at = "streaming" /\ k.turn = 1 /\ k.cause = j.cause /\ k.name = j.name /\ k.member = j.member
        /\ k.root = j.root /\ k.depth = j.depth /\ k.order = j.order /\ k.summon = j.summon
    BY <1>1, <2>2 DEF JobRow, Places
  <2>5. PICK t : t = TurnRow("agent.turn.started", k, TRUE)
    OBVIOUS
  <2>6. t \in TurnRows /\ t.summon = j.summon
    BY <2>4, <2>5 DEF TurnRow, TurnRows, JobRow
  <2>7. JobHolds(j)'
    BY <1>1, JobStays, LogAsItWas, HeldAsItWas DEF StartTurn
  <2>8. JobHolds(k)'
    BY <1>1, <2>4, <2>7 DEF JobHolds, Summoning, RowIs
  <2>9. HandsOver(j)
    BY <1>1, <2>3, <2>4, TakesOver
  <2>10. turns' = turns \cup {t}
    BY <2>3, <2>5
  <2>11. PICK rows : rows = {t}
    OBVIOUS
  <2>12. rows \in SUBSET TurnRows /\ (\A u \in rows : u.summon = j.summon) /\ turns' = turns \cup rows
    BY <2>6, <2>10, <2>11
  <2>13. (\A i \in jobs' : i \in jobs \/ (i \in JobRow /\ JobHolds(i)')) /\ \A i \in jobs : i \in jobs' \/ HandsOver(i)
    BY <2>3, <2>4, <2>8, <2>9
  <2>14. UNCHANGED <<said, summons, routed, held, notices, firings>> /\ asked' = asked
    BY DEF StartTurn
  <2> QED BY <1>1, <1>2, <2>12, <2>13, <2>14, TurnMoves
<1> QED BY <1>3, <1>4

\* It completes, and the names it emitted are judged.
LEMMA ChainCompletes ==
  ASSUME ChainInv, NEW j \in jobs, NEW emitted \in SUBSET (Names \cup {Unnamed}), Complete(j, emitted) PROVE ChainInv'
<1>0. PICK names : names = Collected(emitted)
  OBVIOUS
<1>0a. names \in SUBSET Names /\ \A n \in emitted : n = Unnamed \/ n \in names
  BY <1>0 DEF Collected
<1>1. j \in JobRow /\ JobHolds(j) /\ j.at = "streaming" /\ Summoning(j) /\ j.turn = 1
  BY DEF ChainInv, ChainTyped, Complete, Summoning, JobHolds
<1>2. PICK t : t = TurnRow("agent.turn.completed", j, TRUE)
  OBVIOUS
<1>3. t \in TurnRows /\ t.summon = j.summon /\ turns' = turns \cup {t}
  BY <1>1, <1>2 DEF TurnRow, TurnRows, JobRow, Complete
<1>4. PICK k : k = [j EXCEPT !.at = "closing", !.names = names]
  OBVIOUS
<1>5. k \in JobRow /\ k.at = "closing" /\ k.turn = 1 /\ k.cause = j.cause /\ k.name = j.name /\ k.member = j.member /\ k.names = names
      /\ k.root = j.root /\ k.depth = j.depth /\ k.order = j.order /\ k.summon = j.summon
  BY <1>0a, <1>1, <1>4 DEF JobRow, Places
<1>6. jobs' = (jobs \ {j}) \cup {k}
  BY <1>0, <1>4 DEF Complete, Becomes
<1>7. JobHolds(j)'
  BY <1>1, JobStays, LogAsItWas, HeldAsItWas DEF Complete
<1>8. JobHolds(k)'
  BY <1>1, <1>5, <1>7 DEF JobHolds, Summoning, RowIs
<1>9. HandsOver(j)
  BY <1>1, <1>5, <1>6, TakesOver
<1>10. PICK c : c = Cause("started", j.summon)
  OBVIOUS
<1>11. c \in CauseRow /\ c.kind = "started" /\ c.of = j.summon
  BY <1>1, <1>10 DEF Cause, CauseRow, JobRow
<1>12. asked' = asked \cup {<<c, n>> : n \in emitted}
  BY <1>10 DEF Complete
<1>13. \A a \in asked' : a \in asked \/ (a[1].kind = "started" /\ AnsweredFor(a)')
  <2> SUFFICES ASSUME NEW n \in emitted PROVE AnsweredFor(<<c, n>>)'
    BY <1>11, <1>12
  <2>1. PICK a : a = <<c, n>>
    OBVIOUS
  <2>2. a[2] = Unnamed \/ (k \in jobs' /\ k.at = "closing" /\ k.summon = a[1].of /\ a[2] \in k.names)
    BY <1>0a, <1>5, <1>6, <1>11, <2>1
  <2>3. AnsweredFor(a)'
    BY <2>2 DEF AnsweredFor
  <2> QED BY <2>1, <2>3
<1>14. asked' \in SUBSET (CauseRow \X (Names \cup {Unnamed}))
  BY <1>11, <1>12 DEF ChainInv, ChainTyped
<1>15. breaks' \in breaks..MaxChainFaults
  BY DEF ChainInv, ChainTyped, Complete
<1>16. PICK rows : rows = {t}
  OBVIOUS
<1>17. rows \in SUBSET TurnRows /\ (\A u \in rows : u.summon = j.summon) /\ turns' = turns \cup rows
  BY <1>3, <1>16
<1>18. (\A i \in jobs' : i \in jobs \/ (i \in JobRow /\ JobHolds(i)')) /\ \A i \in jobs : i \in jobs' \/ HandsOver(i)
  BY <1>5, <1>6, <1>8, <1>9
<1>19. UNCHANGED <<said, summons, routed, held, notices, firings>>
  BY DEF Complete
<1> QED BY <1>1, <1>13, <1>14, <1>15, <1>17, <1>18, <1>19, TurnMoves

\* What it emitted is handed over.
LEMMA ChainDispatches ==
  ASSUME ChainInv, NEW j \in jobs, Dispatch(j) PROVE ChainInv'
<1>1. j \in JobRow /\ JobHolds(j) /\ j.at = "closing" /\ Summoning(j)
  BY DEF ChainInv, ChainTyped, Dispatch, Summoning
<1>2. PICK c : c = Cause("started", j.summon)
  OBVIOUS
<1>3. c \in CauseRow /\ c.kind = "started" /\ c.of = j.summon
  BY <1>1, <1>2 DEF Cause, CauseRow, JobRow
<1> DEFINE New(n) == Job("judge", j.member, n, j.member, c, j.root, j.depth + 1, j.order)
<1>4. jobs' = (jobs \ {j}) \cup {New(n) : n \in j.names}
  BY <1>2 DEF Dispatch, Emitted, Chain
<1>5. j.member \in Bots /\ j.names \subseteq Names /\ j.root \in People /\ j.depth + 1 \in Nat /\ j.order \in OrderOrNone
  BY <1>1 DEF JobRow
<1>6. OnlyJobs
  BY DEF OnlyJobs, Dispatch, ChainInv, ChainTyped
<1>7. ASSUME NEW n \in j.names
      PROVE  New(n) \in jobs' /\ New(n) \in JobRow /\ New(n).cause = c /\ New(n).name = n /\ JobHolds(New(n))'
  <2>1. PICK k : k = New(n)
    OBVIOUS
  <2>2. PICK d : d = j.depth + 1
    OBVIOUS
  <2>3. k = Job("judge", j.member, n, j.member, c, j.root, d, j.order)
    BY <2>1, <2>2
  <2>4. n \in Names \cup Bots /\ j.member \in People \cup Bots /\ "judge" \in Places /\ d \in Nat
    BY <1>5, <2>2 DEF Places
  <2>5. k \in JobRow /\ k.at = "judge" /\ k.name = n /\ k.cause = c /\ k.root = j.root /\ k.depth = d /\ k.order = j.order
    BY <1>3, <1>5, <2>3, <2>4, JobIs
  <2>6. k \in jobs'
    BY <1>4, <2>1
  <2>7. RowIs(j.summon, j)'
    BY <1>1, JobStays, LogAsItWas, HeldAsItWas DEF Dispatch, JobHolds
  <2>8. LinkHolds(k.cause, k.root, k.depth)'
    BY <1>3, <2>2, <2>5, <2>7 DEF LinkHolds, RowIs
  <2>9. OrderHolds(k.cause, k.root, k.order)'
    BY <1>3, <2>5, <2>7 DEF OrderHolds, RowIs
  <2>10. JobHolds(k)'
    BY <1>3, <1>5, <2>5, <2>8, <2>9 DEF JobHolds, Summoning
  <2> HIDE DEF New
  <2> QED BY <2>1, <2>5, <2>6, <2>10
<1>8. HandsOver(j)
  <2>1. ASSUME NEW a \in asked, j.cause = a[1], j.name = a[2]
        PROVE  AnsweredFor(a)'
    <3>1. j.summon \in DOMAIN summons' /\ summons'[j.summon].cause = j.cause /\ summons'[j.summon].member = j.member
      BY <1>1 DEF JobHolds, RowIs, Dispatch
    <3>2. j.member = Matches[j.name]
      BY <1>1, <2>1 DEF JobHolds, ChainInv
    <3> QED BY <2>1, <3>1, <3>2 DEF AnsweredFor
  <2>2. ASSUME NEW a \in asked, j.summon = a[1].of, a[2] \in j.names
        PROVE  AnsweredFor(a)'
    <3>1. a[1] = c
      BY <1>3, <2>2 DEF ChainInv, ChainTyped, CauseRow
    <3>2. New(a[2]) \in jobs' /\ New(a[2]).cause = c /\ New(a[2]).name = a[2]
      BY <1>7, <2>2
    <3> HIDE DEF New
    <3> QED BY <3>1, <3>2 DEF AnsweredFor
  <2> QED BY <2>1, <2>2 DEF HandsOver
<1> HIDE DEF New
<1>9. \A k \in jobs' : k \in jobs \/ (k \in JobRow /\ JobHolds(k)')
  BY <1>4, <1>7
<1>10. \A k \in jobs : k \in jobs' \/ HandsOver(k)
  BY <1>4, <1>8
<1> QED BY <1>6, <1>9, <1>10, JobsMove

\* A job may throw anywhere.
LEMMA ChainThrows ==
  ASSUME ChainInv, NEW j \in jobs, ThrowJob(j) PROVE ChainInv'
<1>1. j \in JobRow /\ JobHolds(j) /\ jobs' = jobs \ {j} /\ breaks' \in breaks..MaxChainFaults /\ breaks' > 0
  BY ChainBounds DEF ChainInv, ChainTyped, ThrowJob, Ends
<1>2. HandsOver(j)
  BY <1>1 DEF HandsOver, AnsweredFor
<1>3. CASE j.at \in {"streaming", "closing"}
  <2>1. PICK rows : rows = {TurnRow("agent.turn.completed", j, FALSE)}
    OBVIOUS
  <2>2. j.turn = 1 /\ Summoning(j)
    BY <1>1, <1>3 DEF JobHolds, Summoning
  <2>3. rows \in SUBSET TurnRows /\ \A u \in rows : u.summon = j.summon
    BY <1>1, <2>1, <2>2 DEF TurnRow, TurnRows, JobRow
  <2>4. turns' = turns \cup rows
    BY <1>3, <2>1 DEF ThrowJob
  <2>5. (\A i \in jobs' : i \in jobs \/ (i \in JobRow /\ JobHolds(i)')) /\ \A i \in jobs : i \in jobs' \/ HandsOver(i)
    BY <1>1, <1>2
  <2>6. UNCHANGED <<said, summons, routed, held, notices, firings>> /\ asked' = asked /\ asked' \in SUBSET (CauseRow \X (Names \cup {Unnamed}))
    BY DEF ThrowJob, ChainInv, ChainTyped
  <2> QED BY <1>1, <2>2, <2>3, <2>4, <2>5, <2>6, TurnMoves
<1>4. CASE j.at \notin {"streaming", "closing"}
  <2>1. OnlyJobs
    BY <1>1, <1>4 DEF OnlyJobs, ThrowJob, ChainInv, ChainTyped
  <2> QED BY <1>1, <1>2, <2>1, JobsMove
<1> QED BY <1>3, <1>4

\* The process may die, and its jobs with it.
LEMMA ChainCrashes ==
  ASSUME ChainInv, ChainCrash PROVE ChainInv'
<1>1. breaks' \in breaks..MaxChainFaults /\ breaks' > 0 /\ jobs' = {}
  BY ChainBounds DEF ChainInv, ChainTyped, ChainCrash
<1>2. OnlyJobs
  BY <1>1 DEF OnlyJobs, ChainCrash, ChainInv, ChainTyped
<1>3. \A j \in jobs : HandsOver(j)
  BY <1>1 DEF HandsOver, AnsweredFor
<1> QED BY <1>1, <1>2, <1>3, JobsMove

\* A summon by a message is a command on its way to its route.
LEMMA HumanSummonIs ==
  ASSUME NEW h \in People, NEW m \in Bots, NEW n \in Nat, NEW k, k = HumanSummon(h, m, n)
  PROVE  /\ k \in JobRow /\ k.at = "route" /\ k.cause.kind = "message" /\ k.cause.of = n /\ k.root = h /\ k.member = m
         /\ k.depth = 0 /\ k.order = NoLoop
<1>1. PICK c : c = Cause("message", n)
  OBVIOUS
<1>2. c \in CauseRow /\ c.kind = "message" /\ c.of = n
  BY <1>1 DEF Cause, CauseRow
<1>3. k = Job("route", h, m, m, c, h, 0, NoLoop)
  BY <1>1 DEF HumanSummon, HUMAN_ROOT_DEPTH
<1>4. "route" \in Places /\ h \in People \cup Bots /\ m \in Names \cup Bots /\ 0 \in Nat /\ NoLoop \in OrderOrNone
  BY DEF Places, OrderOrNone
<1> QED BY <1>2, <1>3, <1>4, JobIs

\* A person speaks.
LEMMA ChainHears ==
  ASSUME ChainInv, NEW h \in People, NEW m \in Bots, Say(h, m) PROVE ChainInv'
<1>1. said \in Seq(SaidRow) /\ summons \in Seq(SummonRows) /\ firings \in Nat /\ MaxRoots \in Nat
  BY ChainBounds DEF ChainInv, ChainTyped
<1>2. PICK n : n = Len(said) + 1
  OBVIOUS
<1>3. PICK r : r = Message(h, m)
  OBVIOUS
<1>4. r \in SaidRow /\ r.actor = h
  BY <1>3 DEF Message, SaidRow
<1>5. said' = Append(said, r)
  BY <1>3 DEF Say
<1>6. /\ said' \in Seq(SaidRow) /\ n \in Nat /\ n \in DOMAIN said' /\ said'[n] = r /\ DOMAIN said' = DOMAIN said \cup {n}
      /\ (\A i \in DOMAIN said : said'[i] = said[i]) /\ Len(said') = n
  BY <1>1, <1>2, <1>4, <1>5
<1>7. PICK k : k = HumanSummon(h, m, n)
  OBVIOUS
<1>8. k \in JobRow /\ k.at = "route" /\ k.cause.kind = "message" /\ k.cause.of = n /\ k.root = h /\ k.depth = 0 /\ k.order = NoLoop
  BY <1>6, <1>7, HumanSummonIs
<1>9. jobs' = jobs \cup {k}
  BY <1>2, <1>7 DEF Say
<1>10. LogGrows
  BY <1>1, <1>6 DEF LogGrows, Say
<1>11. HeldStays
  BY HeldAsItWas DEF Say
<1>12. JobHolds(k)'
  BY <1>4, <1>6, <1>8 DEF JobHolds, LinkHolds, OrderHolds, Summoning, SUMMON_DEPTH_CAP
<1>13. RowsAdded
  BY <1>9, <1>12 DEF RowsAdded, Say, ChainInv, OneSummonPerCause
<1>14. NamesKept
  BY <1>9 DEF NamesKept, Say
<1>15. Len(said') + firings' \in 0..MaxRoots
  <2>1. Len(said) \in Nat /\ Len(said) + firings < MaxRoots /\ firings' = firings
    BY <1>1 DEF Say
  <2> QED BY <1>1, <1>2, <1>6, <2>1
<1>16. ChainTyped'
  BY <1>6, <1>8, <1>9, <1>15 DEF ChainInv, ChainTyped, Say
<1> QED BY <1>10, <1>11, <1>13, <1>14, <1>16, ChainMoves

\* What was said is heard again.
LEMMA ChainHearsAgain ==
  ASSUME ChainInv, NEW i \in DOMAIN said, SayAgain(i) PROVE ChainInv'
<1>1. said \in Seq(SaidRow) /\ i \in Nat /\ said[i] \in SaidRow
  BY DEF ChainInv, ChainTyped
<1>2. said[i].actor \in People /\ said[i].names \in Bots
  BY <1>1 DEF SaidRow
<1>3. PICK k : k = HumanSummon(said[i].actor, said[i].names, i)
  OBVIOUS
<1>4. /\ k \in JobRow /\ k.at = "route" /\ k.cause.kind = "message" /\ k.cause.of = i /\ k.root = said[i].actor
      /\ k.depth = 0 /\ k.order = NoLoop
  BY <1>1, <1>2, <1>3, HumanSummonIs
<1>5. PICK e : e = [k EXCEPT !.again = 1]
  OBVIOUS
<1>6. /\ e \in JobRow /\ e.at = "route" /\ e.cause.kind = "message" /\ e.cause.of = i /\ e.root = said[i].actor
      /\ e.depth = 0 /\ e.order = NoLoop
  BY <1>4, <1>5 DEF JobRow
<1>7. jobs' = jobs \cup {e}
  BY <1>3, <1>5 DEF SayAgain
<1>8. OnlyJobs
  BY ChainBounds DEF OnlyJobs, SayAgain, ChainInv, ChainTyped
<1>9. JobHolds(e)'
  BY <1>6 DEF JobHolds, LinkHolds, OrderHolds, Summoning, SUMMON_DEPTH_CAP, SayAgain
<1> QED BY <1>6, <1>7, <1>8, <1>9, JobsMove

\* An order fires on a turn.
LEMMA ChainFires ==
  ASSUME ChainInv, NEW o \in Loops, NEW t \in turns, Fire(o, t) PROVE ChainInv'
<1>1. said \in Seq(SaidRow) /\ firings \in Nat /\ MaxRoots \in Nat /\ Creator[o] \in People /\ Summons[o] \in Bots
  BY ChainBounds, LoopsAssumption DEF ChainInv, ChainTyped
<1>2. t.summon \in DOMAIN summons /\ t.summon \in Nat
  BY DEF ChainInv, ChainTyped
<1>3. PICK c : c = Cause("completed", t.summon)
  OBVIOUS
<1>4. c \in CauseRow /\ c.kind = "completed" /\ c.of = t.summon
  BY <1>2, <1>3 DEF Cause, CauseRow
<1>5. PICK k : k = Job("route", Creator[o], Summons[o], Summons[o], c, Creator[o], 0, o)
  OBVIOUS
<1>6. "route" \in Places /\ Creator[o] \in People \cup Bots /\ Summons[o] \in Names \cup Bots /\ 0 \in Nat /\ o \in OrderOrNone
  BY <1>1 DEF Places, OrderOrNone
<1>7. k \in JobRow /\ k.at = "route" /\ k.cause = c /\ k.root = Creator[o] /\ k.depth = 0 /\ k.order = o
  BY <1>1, <1>4, <1>5, <1>6, JobIs
<1>8. jobs' = jobs \cup {k}
  BY <1>3, <1>5 DEF Fire, HUMAN_ROOT_DEPTH
<1>9. LogGrows /\ OneSummonPerCause' /\ \A u \in turns : u.summon \in DOMAIN summons'
  BY LogAsItWas DEF Fire
<1>10. HeldStays
  BY HeldAsItWas DEF Fire
<1>11. JobHolds(k)'
  BY <1>2, <1>4, <1>7 DEF JobHolds, LinkHolds, OrderHolds, Summoning, SUMMON_DEPTH_CAP, Fire
<1>12. RowsAdded
  BY <1>8, <1>9, <1>11 DEF RowsAdded, Fire
<1>13. NamesKept
  BY <1>8 DEF NamesKept, Fire
<1>14. Len(said') + firings' \in 0..MaxRoots /\ firings' \in Nat
  <2>1. Len(said) \in Nat /\ Len(said) + firings < MaxRoots /\ firings' = firings + 1 /\ said' = said
    BY <1>1 DEF Fire
  <2> QED BY <1>1, <2>1
<1>15. ChainTyped'
  BY <1>7, <1>8, <1>14 DEF ChainInv, ChainTyped, Fire
<1> QED BY <1>9, <1>10, <1>12, <1>13, <1>15, ChainMoves

\* At the start there is nothing to hold.
LEMMA ChainBegins == ChainInit => ChainInv
<1> SUFFICES ASSUME ChainInit PROVE ChainInv
  OBVIOUS
<1>1. said = <<>> /\ summons = <<>> /\ firings = 0 /\ breaks = 0 /\ routed = {} /\ turns = {} /\ held = {} /\ jobs = {} /\ asked = {}
  BY DEF ChainInit
<1>2. Len(said) = 0 /\ DOMAIN summons = {} /\ said \in Seq(SaidRow) /\ summons \in Seq(SummonRows)
  BY <1>1
<1>3. ChainTyped
  BY <1>1, <1>2, ChainBounds DEF ChainTyped
<1> QED BY <1>1, <1>2, <1>3 DEF ChainInv, OneSummonPerCause

\* Every step of a chain keeps its rows and names in order.
LEMMA ChainGoesOn == ChainInv /\ [ChainNext]_chainVars => ChainInv'
<1> SUFFICES ASSUME ChainInv, [ChainNext]_chainVars PROVE ChainInv'
  OBVIOUS
<1>1. CASE ChainNext
  <2>1. CASE \E h \in People, m \in Bots : Say(h, m)
    BY <2>1, ChainHears
  <2>2. CASE \E i \in DOMAIN said : SayAgain(i)
    BY <2>2, ChainHearsAgain
  <2>3. CASE \E o \in Loops, t \in turns : Fire(o, t)
    BY <2>3, ChainFires
  <2>4. CASE \E d \in held : \E answer \in {"APPROVED", "DENIED"} : Sign(d, answer)
    BY <2>4, ChainSigns
  <2>5. CASE \E j \in jobs : JobStep(j)
    <3>1. PICK j \in jobs : JobStep(j)
      BY <2>5
    <3> QED BY <3>1, ChainRefuses, ChainAllows, ChainPauses, ChainSelects, ChainFindsNoRoute, ChainSummons, ChainRoutes,
               ChainRefusesTurn, ChainStarts, ChainDispatches, ChainCompletes DEF JobStep
  <2>6. CASE \E j \in jobs : ThrowJob(j)
    BY <2>6, ChainThrows
  <2>7. CASE ChainCrash
    BY <2>7, ChainCrashes
  <2> QED BY <1>1, <2>1, <2>2, <2>3, <2>4, <2>5, <2>6, <2>7 DEF ChainNext
<1>2. CASE UNCHANGED chainVars
  <2>1. OnlyJobs /\ jobs' = jobs
    BY <1>2 DEF chainVars, OnlyJobs, ChainInv, ChainTyped
  <2> QED BY <2>1, JobsMove
<1> QED BY <1>1, <1>2

\* The invariant of the chains holds in every state.
LEMMA ChainInvHolds == ChainSpec => []ChainInv
BY ChainBegins, ChainGoesOn, PTL DEF ChainSpec

\* What a walk finds at a row, told by the row and by the one its cause points at.
FoundAt(i) ==
    IF summons[i].cause.kind = "started" THEN [RootAt(summons[i].cause.of) EXCEPT !.depth = @ + 1] ELSE RootAt(i)

\* The cap leaves a chain two rows: what caused a row that a turn caused, no turn caused.
LEMMA ChainsAreShort ==
  ASSUME ChainInv, NEW i \in DOMAIN summons, summons[i].cause.kind = "started"
  PROVE  /\ summons[i].cause.of \in DOMAIN summons /\ summons[summons[i].cause.of].cause.kind # "started"
         /\ summons[summons[i].cause.of].depth = 0
<1>1. PICK k : k = summons[i].cause.of
  OBVIOUS
<1>2. k \in DOMAIN summons /\ summons[i].depth = summons[k].depth + 1 /\ summons[i].depth <= 1
  BY <1>1 DEF ChainInv, RowHolds, LinkHolds, SUMMON_DEPTH_CAP
<1>3. summons[k] \in SummonRows
  BY <1>2 DEF ChainInv, ChainTyped
<1>4. summons[k].depth \in Nat
  BY <1>3 DEF SummonRows
<1>5. summons[k].depth = 0
  BY <1>2, <1>4
<1>6. summons[k].cause.kind # "started"
  <2> SUFFICES ASSUME summons[k].cause.kind = "started" PROVE FALSE
    OBVIOUS
  <2>1. PICK n : n = summons[k].cause.of
    OBVIOUS
  <2>2. n \in DOMAIN summons /\ summons[k].depth = summons[n].depth + 1
    BY <1>2, <2>1 DEF ChainInv, RowHolds, LinkHolds
  <2>3. summons[n] \in SummonRows
    BY <2>2 DEF ChainInv, ChainTyped
  <2>4. summons[n].depth \in Nat
    BY <2>3 DEF SummonRows
  <2> QED BY <1>5, <2>2, <2>4
<1> QED BY <1>1, <1>2, <1>5, <1>6

\* So the walk is what the two rows say.
LEMMA WalkIsFound ==
  ASSUME ChainInv
  PROVE  \A i \in DOMAIN summons : Walk[i] = FoundAt(i)
<1> DEFINE F(w) == [i \in DOMAIN summons |->
        IF summons[i].cause.kind = "started" THEN [w[summons[i].cause.of] EXCEPT !.depth = @ + 1] ELSE RootAt(i)]
<1>1. Walk = CHOOSE w : w = F(w)
  BY Zenon DEF Walk
<1>2. ASSUME NEW w, NEW i \in DOMAIN summons,
             \A n \in DOMAIN summons : summons[n].cause.kind # "started" => w[n] = RootAt(n)
      PROVE  F(w)[i] = FoundAt(i)
  <2>1. CASE summons[i].cause.kind = "started"
    <3>1. PICK n : n = summons[i].cause.of
      OBVIOUS
    <3>2. n \in DOMAIN summons /\ summons[n].cause.kind # "started"
      BY <2>1, <3>1, ChainsAreShort
    <3>3. w[n] = RootAt(n)
      BY <1>2, <3>2
    <3> QED BY <2>1, <3>1, <3>3 DEF FoundAt
  <2>2. CASE summons[i].cause.kind # "started"
    BY <2>2 DEF FoundAt
  <2> QED BY <2>1, <2>2
<1>3. ASSUME NEW w, w = F(w)
      PROVE  \A i \in DOMAIN summons : w[i] = FoundAt(i)
  <2>1. \A n \in DOMAIN summons : summons[n].cause.kind # "started" => F(w)[n] = RootAt(n)
    OBVIOUS
  <2> HIDE DEF F
  <2> QED BY <1>2, <1>3, <2>1
<1>4. \E w : w = F(w)
  <2>1. PICK v : v = [i \in DOMAIN summons |-> FoundAt(i)]
    OBVIOUS
  <2>2. \A i \in DOMAIN summons : F(v)[i] = FoundAt(i)
    <3>1. \A n \in DOMAIN summons : summons[n].cause.kind # "started" => v[n] = RootAt(n)
      BY <2>1 DEF FoundAt
    <3> HIDE DEF F
    <3> QED BY <1>2, <3>1
  <2>3. F(v) = [i \in DOMAIN summons |-> F(v)[i]]
    OBVIOUS
  <2> HIDE DEF F
  <2> QED BY <2>1, <2>2, <2>3
<1> HIDE DEF F
<1>5. Walk = F(Walk)
  BY <1>1, <1>4, Zenon
<1> QED BY <1>3, <1>5

\* What the drift query counts, one summon for a cause and a member, what the rows say of the chain, and an answer for every name.
LEMMA ChainHolds == ChainInv => ChainsHold
<1> SUFFICES ASSUME ChainInv PROVE ChainsHold
  OBVIOUS
<1>1. NoDrift
  <2>1. \A t \in turns : t \in TurnRows /\ t.summon \in DOMAIN summons
    BY DEF ChainInv, ChainTyped
  <2>2. \A i \in DOMAIN summons : summons[i] \in SummonRows
    BY DEF ChainInv, ChainTyped
  <2>3. \A i \in DOMAIN summons : summons[i].root_is_human
    BY <2>2 DEF SummonRows
  <2>4. \A t \in turns : t.turn = 1
    BY <2>1 DEF TurnRows
  <2> QED BY <2>1, <2>3, <2>4 DEF NoDrift
<1>2. OneSummonPerCause
  BY DEF ChainInv
<1>3. ProvenanceIsWalk
  <2> SUFFICES ASSUME NEW i \in DOMAIN summons
               PROVE  /\ summons[i].root_actor = Walk[i].root
                      /\ summons[i].depth = Walk[i].depth /\ summons[i].depth <= SUMMON_DEPTH_CAP
                      /\ summons[i].order = Walk[i].order \/ (Released(i) /\ summons[i].order = NoLoop)
                      /\ summons[i].order # NoLoop => summons[i].root_actor = Creator[summons[i].order]
    BY DEF ProvenanceIsWalk
  <2>1. Walk[i] = FoundAt(i)
    BY WalkIsFound
  <2>2. \A k \in DOMAIN summons :
          /\ summons[k].cause.kind \in {"message", "completed", "started"}
          /\ LinkHolds(summons[k].cause, summons[k].root_actor, summons[k].depth)
          /\ OrderHolds(summons[k].cause, summons[k].root_actor, summons[k].order)
               \/ OrderLost(summons[k].cause, summons[k].member, summons[k].order)
          /\ summons[k].depth <= SUMMON_DEPTH_CAP
    <3>1. TAKE k \in DOMAIN summons
    <3>2. summons[k] \in SummonRows
      BY DEF ChainInv, ChainTyped
    <3>3. summons[k].cause \in CauseRow
      BY <3>2 DEF SummonRows
    <3> QED BY <3>3 DEF ChainInv, RowHolds, CauseRow
  <2>3. ASSUME NEW k \in DOMAIN summons, summons[k].cause.kind # "started"
        PROVE  /\ RootAt(k).root = summons[k].root_actor /\ RootAt(k).depth = summons[k].depth /\ RootAt(k).order = summons[k].order
               /\ summons[k].order # NoLoop => summons[k].root_actor = Creator[summons[k].order]
               /\ RootAt(k).depth = 0 /\ RootAt(k) = [root |-> RootAt(k).root, depth |-> RootAt(k).depth, order |-> RootAt(k).order]
    BY <2>2, <2>3 DEF RootAt, LinkHolds, OrderHolds, OrderLost, HUMAN_ROOT_DEPTH
  <2>4. CASE summons[i].cause.kind # "started"
    BY <2>1, <2>2, <2>3, <2>4 DEF FoundAt
  <2>5. CASE summons[i].cause.kind = "started"
    <3>1. PICK n : n = summons[i].cause.of
      OBVIOUS
    <3>2. n \in DOMAIN summons /\ summons[n].cause.kind # "started"
      BY <2>5, <3>1, ChainsAreShort
    <3>3. summons[i].root_actor = summons[n].root_actor /\ summons[i].depth = summons[n].depth + 1
          /\ (summons[i].order = summons[n].order \/ (summons[i].order = NoLoop /\ Approved(summons[i].cause, summons[i].member)))
      BY <2>2, <2>5, <3>1 DEF LinkHolds, OrderHolds, OrderLost
    <3>4. PICK r : r = RootAt(n)
      OBVIOUS
    <3>5. r.root = summons[n].root_actor /\ r.depth = summons[n].depth /\ r.order = summons[n].order /\ r.depth = 0
          /\ r = [root |-> r.root, depth |-> r.depth, order |-> r.order]
          /\ (summons[n].order # NoLoop => summons[n].root_actor = Creator[summons[n].order])
      BY <2>3, <3>2, <3>4
    <3>6. Walk[i] = [r EXCEPT !.depth = 1]
      BY <2>1, <2>5, <3>1, <3>4, <3>5 DEF FoundAt
    <3>7. Walk[i].root = r.root /\ Walk[i].depth = 1 /\ Walk[i].order = r.order
      BY <3>5, <3>6
    <3>8. Approved(summons[i].cause, summons[i].member) => Released(i)
      BY DEF Approved, Released
    <3> QED BY <2>2, <3>3, <3>5, <3>7, <3>8
  <2> QED BY <2>4, <2>5
<1>4. EmissionsAreAnswered
  BY DEF ChainInv, AnsweredFor, EmissionsAreAnswered
<1> QED BY <1>1, <1>2, <1>3, <1>4 DEF ChainsHold

\* A human is behind every turn, as far as the cap and no further, and no name that a turn emitted
\* goes without an answer (a summon that names nothing gets none): however many members, names, orders and faults there are.
THEOREM ChainsHoldHolds == ChainSpec => []ChainsHold
BY ChainInvHolds, ChainHolds, PTL

\* Every variable of the chains keeps its type.
LEMMA ChainTypes == ChainInv => ChainTypeOK
<1> SUFFICES ASSUME ChainInv PROVE ChainTypeOK
  OBVIOUS
<1>1. \A j \in jobs : j.at \in {"judge", "route", "summon", "routed", "turn", "streaming", "closing"}
  BY DEF ChainInv, ChainTyped, JobRow, Places
<1>2. \A i \in DOMAIN summons : summons[i].depth \in Nat /\ summons[i].order \in Loops \cup {NoLoop}
  <2>1. TAKE i \in DOMAIN summons
  <2>2. summons[i] \in SummonRows
    BY DEF ChainInv, ChainTyped
  <2> QED BY <2>2 DEF SummonRows, OrderOrNone
<1>3. \A d \in held : d.resolution \in {"NONE", "APPROVED", "DENIED"}
  BY DEF ChainInv, ChainTyped, HeldRow
<1> QED BY <1>1, <1>2, <1>3 DEF ChainInv, ChainTyped, ChainTypeOK

-----------------------------------------------------------------------------
(* Proposals. *)

\* What an asker may be told, and the rows of the calls, the decisions, the cycle and the emissions.
Statuses == {"nothing", "refused", "ALLOW", "CO_SIGN", "BLOCK", "pending", "closed", "APPROVED", "DENIED"}
Unwritten == {"door", "evaluate", "record"}
Written == {"people", "telling", "answer"}
CallRow == [ask : Asks, nth : Nat, at : Unwritten \cup Written, verdict : {"none", "CO_SIGN", "BLOCK"}, decision : Nat,
            todo : SUBSET Signers]
DecisionRow == [ask : Asks, subject : {SubjectOf[a] : a \in Asks}, requested_by : {ByOf[a] : a \in Asks},
                decision : {"CO_SIGN", "BLOCK"}, toTell : SUBSET Signers, told : SUBSET Signers, refusedForBudget : SUBSET Signers,
                resolution : {"NONE", "APPROVED", "DENIED"}, open : BOOLEAN]
AnswerRow == [status : Statuses, decision : Nat]
CycleRow == [at : {"idle", "next", "proposing"}, mention : Nat, todo : SUBSET Mentions, seen : SUBSET Mentions]
EmissionRow == [at : {"none", "routing", "waiting", "over"}, left : Seq({"good", "bad"}), asked : Nat, malformed : Nat,
                over : Nat, capped : BOOLEAN]

\* The types of the proposals.
AskTyped ==
    /\ calls \subseteq CallRow /\ IsFiniteSet(calls) /\ decisions \in Seq(DecisionRow)
    /\ sends \in [Asks -> 0..MaxSends] /\ heard \in [Asks -> AnswerRow]
    /\ justified \subseteq Asks /\ present \subseteq Signers /\ mishaps \in 0..MaxAskFaults

\* An ask that a call is about.
CallOn(a) == \E c \in calls : c.ask = a

\* A call that has written its decision has it in hand, with whom it has still to tell.
CallHolds(c) ==
    /\ c.nth \in 1..sends[c.ask]
    /\ c.at = "record" => c.verdict \in {"CO_SIGN", "BLOCK"}
    /\ c.at \in Written => LET d == decisions[c.decision] IN
         /\ c.decision \in DOMAIN decisions /\ d.ask = c.ask /\ d.decision = c.verdict
         /\ c.at = "people" => d.toTell \subseteq present
         /\ c.at = "telling" => d.toTell \subseteq d.told \cup d.refusedForBudget \cup c.todo
         /\ c.verdict = (IF c.at = "answer" THEN "BLOCK" ELSE "CO_SIGN")

\* An asker that was given a decision was told what it says.
HeardHolds(a) ==
    /\ heard[a].decision # 0 => LET d == decisions[heard[a].decision] IN
         /\ heard[a].decision \in DOMAIN decisions /\ d.ask = a
         /\ heard[a].status \in {"CO_SIGN", "BLOCK"} => d.decision = heard[a].status
         /\ heard[a].status \in {"APPROVED", "DENIED"} => d.resolution = heard[a].status
         /\ heard[a].status = "CO_SIGN" => d.toTell \subseteq d.told \cup d.refusedForBudget
    /\ heard[a].status \in {"CO_SIGN", "BLOCK"} => heard[a].decision # 0

\* An asker that has heard nothing has a call under way, or something went wrong.
Awaited(a) == sends[a] > 0 /\ heard[a] = NotTold => CallOn(a) \/ mishaps > 0

\* The bot: whom it has seen it has proposed, and it does not come back to them.
Done == cycle.seen \cup saved

\* A cycle is at a mention it has still to do.
CycleHolds ==
    /\ cycle \in CycleRow /\ saved \subseteq Mentions
    /\ cycle.at = "idle" => cycle.seen = {} /\ cycle.todo = {}
    /\ cycle.at # "idle" => saved \subseteq cycle.seen
    /\ cycle.todo \cap Done = {}
    /\ cycle.at = "proposing" => cycle.mention \in Mentions /\ cycle.mention \notin cycle.todo \cup Done
    /\ \A m \in Done : ~CallOn(m) /\ (DecisionsOn(m) # {} \/ heard[m].status = "ALLOW")

\* The decisions on an ask, and those that calls may still write.
WillWrite(a) == {c \in calls : c.ask = a /\ c.at \in Unwritten}

\* The decisions on an ask and the calls that may still write one.
Weight(a) == Cardinality(DecisionsOn(a)) + Cardinality(WillWrite(a))

\* A mention that is done or being proposed.
InHand(m) == m \in Done \/ (cycle.at = "proposing" /\ cycle.mention = m)

\* One that is being asked about, or has been answered.
Going(m) == CallOn(m) \/ heard[m].status \in {"ALLOW", "CO_SIGN", "BLOCK"}

\* An ask is written at most as often as it is sent, a mention at most once more than things went wrong; and a mention that is
\* not in hand, or is not going well, no more often than that.
CountHolds ==
    /\ \A c, d \in calls : c.ask = d.ask /\ c.nth = d.nth => c = d
    /\ \A a \in Asks : Weight(a) <= sends[a]
    /\ \A m \in Mentions : Weight(m) <= 1 + mishaps
    /\ \A m \in Mentions : Weight(m) <= mishaps \/ (InHand(m) /\ Going(m))

\* What a turn emits is cut to the cap.
KeptOf(n) == IF n > MAX_ACTIONS_PER_TURN THEN MAX_ACTIONS_PER_TURN ELSE n

\* A turn's routing: what it kept of its emissions is asked, refused or left.
EmissionHolds ==
    /\ emission \in EmissionRow
    /\ emission.at # "none" =>
         /\ emission.asked + emission.malformed + Len(emission.left) = KeptOf(emission.over)
         /\ emission.capped = (emission.over > MAX_ACTIONS_PER_TURN)
    /\ emission.at = "waiting" => emission.asked \in DOMAIN TurnAsks /\ sends[AskOf(emission)] > 0
    /\ emission.at = "over" => emission.left = <<>> \/ mishaps > 0

\* What every state of the proposals keeps.
AskInv ==
    /\ AskTyped
    /\ \A c \in calls : CallHolds(c)
    /\ \A a \in Asks : HeardHolds(a)
    /\ \A a \in Asks : Awaited(a)
    /\ CycleHolds
    /\ CountHolds
    /\ EmissionHolds

\* The decisions are only added to, told of and resolved, and who is in the room stays.
DecisionsKeep ==
    /\ decisions' \in Seq(DecisionRow) /\ DOMAIN decisions \subseteq DOMAIN decisions' /\ present \subseteq present'
    /\ \A d \in DOMAIN decisions :
         /\ decisions'[d].ask = decisions[d].ask /\ decisions'[d].decision = decisions[d].decision
         /\ decisions'[d].toTell = decisions[d].toTell /\ decisions[d].told \subseteq decisions'[d].told
         /\ decisions[d].refusedForBudget \subseteq decisions'[d].refusedForBudget
         /\ decisions[d].resolution # "NONE" => decisions'[d].resolution = decisions[d].resolution
    /\ \A a \in Asks : sends[a] <= sends'[a] /\ sends[a] \in Nat /\ sends'[a] \in Nat

\* A call that is not touched goes on holding.
LEMMA CallStays ==
  ASSUME DecisionsKeep, NEW c \in CallRow, CallHolds(c)
  PROVE  CallHolds(c)'
<1>1. c.ask \in Asks /\ c.nth \in Nat /\ c.decision \in Nat
  BY DEF CallRow
<1>2. c.nth \in 1..sends'[c.ask]
  <2>1. sends[c.ask] \in Nat /\ sends'[c.ask] \in Nat /\ sends[c.ask] <= sends'[c.ask] /\ c.nth \in 1..sends[c.ask]
    BY <1>1 DEF DecisionsKeep, CallHolds
  <2> QED BY <1>1, <2>1
<1>3. CASE c.at \in Written
  <2>1. c.decision \in DOMAIN decisions
    BY <1>3 DEF CallHolds
  <2>2. PICK x : x = decisions[c.decision]
    OBVIOUS
  <2>3. PICK y : y = decisions'[c.decision]
    OBVIOUS
  <2>4. /\ c.decision \in DOMAIN decisions' /\ y.ask = x.ask /\ y.decision = x.decision /\ y.toTell = x.toTell
        /\ x.told \subseteq y.told /\ x.refusedForBudget \subseteq y.refusedForBudget /\ present \subseteq present'
    BY <2>1, <2>2, <2>3 DEF DecisionsKeep
  <2>5. /\ x.ask = c.ask /\ x.decision = c.verdict /\ (c.at = "people" => x.toTell \subseteq present)
        /\ (c.at = "telling" => x.toTell \subseteq x.told \cup x.refusedForBudget \cup c.todo)
        /\ c.verdict = (IF c.at = "answer" THEN "BLOCK" ELSE "CO_SIGN")
    BY <1>3, <2>2 DEF CallHolds
  <2>6. /\ y.ask = c.ask /\ y.decision = c.verdict /\ (c.at = "people" => y.toTell \subseteq present')
        /\ (c.at = "telling" => y.toTell \subseteq y.told \cup y.refusedForBudget \cup c.todo)
    BY <2>4, <2>5
  <2> QED BY <1>2, <1>3, <2>3, <2>4, <2>5, <2>6 DEF CallHolds, Written
<1>4. CASE c.at \notin Written
  BY <1>2, <1>4 DEF CallHolds
<1> QED BY <1>3, <1>4

\* What an asker was told goes on being true.
LEMMA HeardStays ==
  ASSUME DecisionsKeep, NEW a \in Asks, heard'[a] = heard[a], HeardHolds(a)
  PROVE  HeardHolds(a)'
<1>1. CASE heard[a].decision # 0
  <2>1. heard[a].decision \in DOMAIN decisions
    BY <1>1 DEF HeardHolds
  <2>2. PICK n : n = heard[a].decision
    OBVIOUS
  <2>3. PICK x : x = decisions[n]
    OBVIOUS
  <2>4. PICK y : y = decisions'[n]
    OBVIOUS
  <2>5. /\ n \in DOMAIN decisions' /\ y.ask = x.ask /\ y.decision = x.decision /\ y.toTell = x.toTell
        /\ x.told \subseteq y.told /\ x.refusedForBudget \subseteq y.refusedForBudget
        /\ (x.resolution # "NONE" => y.resolution = x.resolution)
    BY <2>1, <2>2, <2>3, <2>4 DEF DecisionsKeep
  <2>6. /\ x.ask = a /\ (heard[a].status \in {"CO_SIGN", "BLOCK"} => x.decision = heard[a].status)
        /\ (heard[a].status \in {"APPROVED", "DENIED"} => x.resolution = heard[a].status)
        /\ (heard[a].status = "CO_SIGN" => x.toTell \subseteq x.told \cup x.refusedForBudget)
    BY <1>1, <2>2, <2>3 DEF HeardHolds
  <2>7. heard'[a].decision = n /\ heard'[a].status = heard[a].status
    BY <2>2
  <2>8. /\ y.ask = a /\ (heard[a].status \in {"CO_SIGN", "BLOCK"} => y.decision = heard[a].status)
        /\ (heard[a].status \in {"APPROVED", "DENIED"} => y.resolution = heard[a].status)
        /\ (heard[a].status = "CO_SIGN" => y.toTell \subseteq y.told \cup y.refusedForBudget)
    BY <2>5, <2>6
  <2> QED BY <1>1, <2>2, <2>4, <2>5, <2>7, <2>8 DEF HeardHolds
<1>2. CASE heard[a].decision = 0
  BY <1>2 DEF HeardHolds
<1> QED BY <1>1, <1>2

\* Where a step leaves the decisions and the room alone.
LEMMA DecisionsAsTheyWere ==
  ASSUME AskInv, decisions' = decisions, present' = present, sends' = sends
  PROVE  DecisionsKeep
<1>1. \A a \in Asks : sends[a] \in Nat
  BY AskBounds DEF AskInv, AskTyped
<1> QED BY <1>1 DEF AskInv, AskTyped, DecisionsKeep

\* The decisions on an ask and the calls that may write one are as many as a number.
LEMMA WeightsAreNumbers ==
  ASSUME AskTyped, NEW a
  PROVE  /\ IsFiniteSet(DecisionsOn(a)) /\ IsFiniteSet(WillWrite(a))
         /\ Cardinality(DecisionsOn(a)) \in Nat /\ Cardinality(WillWrite(a)) \in Nat /\ Weight(a) \in Nat
<1>1. IsFiniteSet(DOMAIN decisions)
  <2>1. DOMAIN decisions = 1..Len(decisions) /\ Len(decisions) \in Int /\ 1 \in Int
    BY DEF AskTyped
  <2> QED BY <2>1, FS_Interval
<1>2. IsFiniteSet(DecisionsOn(a))
  BY <1>1, FS_Subset DEF DecisionsOn
<1>3. IsFiniteSet(WillWrite(a))
  BY FS_Subset DEF WillWrite, AskTyped
<1>4. Cardinality(DecisionsOn(a)) \in Nat /\ Cardinality(WillWrite(a)) \in Nat
  BY <1>2, <1>3, FS_CardinalityType
<1> QED BY <1>2, <1>3, <1>4 DEF Weight

\* A step that asks for nothing on the decisions.
SameAsks == DOMAIN decisions' = DOMAIN decisions /\ \A d \in DOMAIN decisions : decisions'[d].ask = decisions[d].ask

\* The decisions on an ask are those they were.
LEMMA DecisionsOnStay ==
  ASSUME SameAsks, NEW a
  PROVE  DecisionsOn(a)' = DecisionsOn(a)
BY DEF SameAsks, DecisionsOn

\* A call that leaves takes with it what it would have written.
LEMMA LeavingWeighs ==
  ASSUME AskTyped, AskTyped', SameAsks, NEW c \in calls, calls' = calls \ {c}, NEW a
  PROVE  /\ Weight(a)' = IF a = c.ask /\ c.at \in Unwritten THEN Weight(a) - 1 ELSE Weight(a)
         /\ Weight(a)' <= Weight(a)
<1>1. DecisionsOn(a)' = DecisionsOn(a)
  BY DecisionsOnStay
<1>2. Cardinality(DecisionsOn(a)) \in Nat /\ IsFiniteSet(WillWrite(a)) /\ Cardinality(WillWrite(a)) \in Nat
  BY WeightsAreNumbers
<1>3. CASE a = c.ask /\ c.at \in Unwritten
  <2>1. WillWrite(a)' = WillWrite(a) \ {c} /\ c \in WillWrite(a)
    BY <1>3 DEF WillWrite
  <2>2. Cardinality(WillWrite(a) \ {c}) = Cardinality(WillWrite(a)) - 1
    BY <1>2, <2>1, FS_RemoveElement
  <2> QED BY <1>1, <1>2, <1>3, <2>1, <2>2 DEF Weight
<1>4. CASE ~(a = c.ask /\ c.at \in Unwritten)
  <2>1. WillWrite(a)' = WillWrite(a)
    BY <1>4 DEF WillWrite
  <2> QED BY <1>1, <1>2, <1>4, <2>1 DEF Weight
<1> QED BY <1>3, <1>4

\* A call that goes on has as much to write as before.
LEMMA GoingOnWeighs ==
  ASSUME AskTyped, SameAsks, NEW c \in calls, NEW d, d.ask = c.ask, d.nth = c.nth, d.at \in Unwritten <=> c.at \in Unwritten,
         \A x, y \in calls : x.ask = y.ask /\ x.nth = y.nth => x = y, calls' = (calls \ {c}) \cup {d}, NEW a
  PROVE  Weight(a)' = Weight(a)
<1>1. DecisionsOn(a)' = DecisionsOn(a)
  BY DecisionsOnStay
<1>2. IsFiniteSet(WillWrite(a)) /\ Cardinality(WillWrite(a)) \in Nat
  BY WeightsAreNumbers
<1>3. CASE a = c.ask /\ c.at \in Unwritten
  <2>1. WillWrite(a)' = (WillWrite(a) \ {c}) \cup {d} /\ c \in WillWrite(a) /\ d \notin WillWrite(a) \ {c}
    BY <1>3 DEF WillWrite
  <2>2. Cardinality(WillWrite(a) \ {c}) = Cardinality(WillWrite(a)) - 1 /\ IsFiniteSet(WillWrite(a) \ {c})
    BY <1>2, <2>1, FS_RemoveElement
  <2>3. Cardinality((WillWrite(a) \ {c}) \cup {d}) = Cardinality(WillWrite(a) \ {c}) + 1
    BY <2>1, <2>2, FS_AddElement
  <2>4. Cardinality(WillWrite(a)') = Cardinality(WillWrite(a))
    BY <1>2, <2>1, <2>2, <2>3
  <2> QED BY <1>1, <2>4 DEF Weight
<1>4. CASE ~(a = c.ask /\ c.at \in Unwritten)
  <2>1. WillWrite(a)' = WillWrite(a)
    BY <1>4 DEF WillWrite
  <2> QED BY <1>1, <2>1 DEF Weight
<1> QED BY <1>3, <1>4

\* A new call may write one more.
LEMMA SendingWeighs ==
  ASSUME AskTyped, SameAsks, NEW c, c \notin calls, c.at \in Unwritten, calls' = calls \cup {c}, NEW a
  PROVE  Weight(a)' = IF a = c.ask THEN Weight(a) + 1 ELSE Weight(a)
<1>1. DecisionsOn(a)' = DecisionsOn(a)
  BY DecisionsOnStay
<1>2. Cardinality(DecisionsOn(a)) \in Nat /\ IsFiniteSet(WillWrite(a)) /\ Cardinality(WillWrite(a)) \in Nat
  BY WeightsAreNumbers
<1>3. CASE a = c.ask
  <2>1. WillWrite(a)' = WillWrite(a) \cup {c} /\ c \notin WillWrite(a)
    BY <1>3 DEF WillWrite
  <2>2. Cardinality(WillWrite(a) \cup {c}) = Cardinality(WillWrite(a)) + 1
    BY <1>2, <2>1, FS_AddElement
  <2> QED BY <1>1, <1>2, <1>3, <2>1, <2>2 DEF Weight
<1>4. CASE a # c.ask
  <2>1. WillWrite(a)' = WillWrite(a)
    BY <1>4 DEF WillWrite
  <2> QED BY <1>1, <1>4, <2>1 DEF Weight
<1> QED BY <1>3, <1>4

\* A call that writes its decision has one less to write.
LEMMA WritingWeighs ==
  ASSUME AskTyped, NEW c \in calls, c.at \in Unwritten, NEW d, d.ask = c.ask, d.at \notin Unwritten, calls' = (calls \ {c}) \cup {d},
         NEW row, row.ask = c.ask, decisions' = Append(decisions, row), NEW a
  PROVE  Weight(a)' = Weight(a)
<1>1. PICK n : n = Len(decisions) + 1
  OBVIOUS
<1>2. Len(decisions) \in Nat /\ DOMAIN decisions = 1..Len(decisions) /\ decisions \in Seq(DecisionRow)
  BY DEF AskTyped
<1>3. /\ DOMAIN decisions' = DOMAIN decisions \cup {n} /\ n \notin DOMAIN decisions /\ decisions'[n] = row
      /\ \A i \in DOMAIN decisions : decisions'[i] = decisions[i]
  BY <1>1, <1>2
<1>4. /\ Cardinality(DecisionsOn(a)) \in Nat /\ IsFiniteSet(WillWrite(a)) /\ Cardinality(WillWrite(a)) \in Nat
      /\ IsFiniteSet(DecisionsOn(a))
  BY WeightsAreNumbers
<1>5. CASE a = c.ask
  <2>1. WillWrite(a)' = WillWrite(a) \ {c} /\ c \in WillWrite(a)
    BY <1>5 DEF WillWrite
  <2>2. DecisionsOn(a)' = DecisionsOn(a) \cup {n} /\ n \notin DecisionsOn(a)
    BY <1>3, <1>5 DEF DecisionsOn
  <2>3. Cardinality(WillWrite(a) \ {c}) = Cardinality(WillWrite(a)) - 1
    BY <1>4, <2>1, FS_RemoveElement
  <2>4. Cardinality(DecisionsOn(a) \cup {n}) = Cardinality(DecisionsOn(a)) + 1
    BY <1>4, <2>2, FS_AddElement
  <2> QED BY <1>4, <2>1, <2>2, <2>3, <2>4 DEF Weight
<1>6. CASE a # c.ask
  <2>1. WillWrite(a)' = WillWrite(a)
    BY <1>6 DEF WillWrite
  <2>2. DecisionsOn(a)' = DecisionsOn(a)
    BY <1>3, <1>6 DEF DecisionsOn
  <2> QED BY <2>1, <2>2 DEF Weight
<1> QED BY <1>5, <1>6

\* What a call step leaves to the bot and to the turn.
LEMMA CycleStays ==
  ASSUME AskInv, DecisionsKeep, UNCHANGED <<cycle, saved>>, \A m \in Mentions : CallOn(m)' => CallOn(m),
         \A a \in Asks : heard'[a] = heard[a] \/ CallOn(a)
  PROVE  CycleHolds'
<1>1. \A m \in Done : m \in Mentions /\ m \in Asks
  BY MentionsAssumption DEF AskInv, CycleHolds, CycleRow, Done
<1>2. \A m \in Done : ~CallOn(m)' /\ (DecisionsOn(m)' # {} \/ heard'[m].status = "ALLOW")
  <2>1. TAKE m \in Done
  <2>2. ~CallOn(m) /\ (DecisionsOn(m) # {} \/ heard[m].status = "ALLOW")
    BY DEF AskInv, CycleHolds
  <2>3. heard'[m] = heard[m] /\ ~CallOn(m)'
    BY <1>1, <2>2
  <2>4. DecisionsOn(m) # {} => DecisionsOn(m)' # {}
    BY DEF DecisionsOn, DecisionsKeep
  <2> QED BY <2>2, <2>3, <2>4
<1>3. Done' = Done
  BY DEF Done
<1> QED BY <1>2, <1>3 DEF AskInv, CycleHolds

\* The emissions wait.
LEMMA EmissionStays ==
  ASSUME AskInv, DecisionsKeep, emission' = emission, mishaps <= mishaps', mishaps \in Nat, mishaps' \in Nat
  PROVE  EmissionHolds'
<1>1. emission.at = "waiting" => emission.asked \in DOMAIN TurnAsks /\ sends'[AskOf(emission)] > 0
  <2> SUFFICES ASSUME emission.at = "waiting" PROVE emission.asked \in DOMAIN TurnAsks /\ sends'[AskOf(emission)] > 0
    OBVIOUS
  <2>1. emission.asked \in DOMAIN TurnAsks /\ sends[AskOf(emission)] > 0
    BY DEF AskInv, EmissionHolds
  <2>2. PICK a : a = AskOf(emission)
    OBVIOUS
  <2>3. a \in Asks
    BY <2>1, <2>2, EmissionsAssumption DEF AskOf
  <2>4. sends[a] <= sends'[a] /\ sends[a] \in Nat /\ sends'[a] \in Nat
    BY <2>3 DEF DecisionsKeep
  <2> QED BY <2>1, <2>2, <2>4
<1>2. emission.at = "over" => emission.left = <<>> \/ mishaps' > 0
  BY DEF AskInv, EmissionHolds
<1>3. AskOf(emission)' = AskOf(emission)
  BY DEF AskOf
<1> QED BY <1>1, <1>2, <1>3 DEF AskInv, EmissionHolds

\* Faults are counted.
LEMMA MishapsAre == ASSUME AskTyped PROVE mishaps \in Nat
BY AskBounds DEF AskTyped

\* A call that leaves: its asker has heard, or something went wrong.
LEMMA CallLeaves ==
  ASSUME AskInv, NEW c \in calls, calls' = calls \ {c}, UNCHANGED <<decisions, sends, justified, present, cycle, saved, emission>>,
         mishaps' \in mishaps..MaxAskFaults, heard' \in [Asks -> AnswerRow], \A a \in Asks : a # c.ask => heard'[a] = heard[a],
         HeardHolds(c.ask)', heard'[c.ask] # NotTold \/ mishaps' > mishaps,
         mishaps' > mishaps \/ c.at \in Unwritten \/ heard'[c.ask].status \in {"ALLOW", "CO_SIGN", "BLOCK"}
  PROVE  AskInv'
<1>1. AskTyped /\ mishaps \in Nat /\ mishaps' \in Nat /\ mishaps' \in 0..MaxAskFaults /\ mishaps <= mishaps' /\ c \in CallRow /\ c.ask \in Asks
  BY MishapsAre, AskBounds DEF AskInv, AskTyped, CallRow
<1>2. IsFiniteSet(calls')
  BY <1>1, FS_RemoveElement DEF AskTyped
<1>3. AskTyped'
  BY <1>1, <1>2 DEF AskTyped
<1>4. DecisionsKeep
  BY DecisionsAsTheyWere
<1>5. \A d \in calls' : CallHolds(d)'
  <2>1. TAKE d \in calls'
  <2>2. d \in CallRow /\ CallHolds(d)
    BY DEF AskInv, AskTyped
  <2> QED BY <1>4, <2>2, CallStays
<1>6. \A a \in Asks : HeardHolds(a)'
  BY <1>4, HeardStays DEF AskInv
<1>7. \A a \in Asks : a # c.ask => (CallOn(a)' <=> CallOn(a))
  BY DEF CallOn
<1>8. CallOn(c.ask) /\ \A a \in Asks : CallOn(a)' => CallOn(a)
  BY DEF CallOn
<1>9. \A a \in Asks : Awaited(a)'
  <2>1. TAKE a \in Asks
  <2>2. Awaited(a)
    BY DEF AskInv
  <2>3. CASE a = c.ask
    BY <1>1, <2>3 DEF Awaited
  <2>4. CASE a # c.ask
    BY <1>1, <1>7, <2>2, <2>4 DEF Awaited
  <2> QED BY <2>3, <2>4
<1>10. CycleHolds'
  <2>1. \A m \in Mentions : CallOn(m)' => CallOn(m)
    BY <1>8, MentionsAssumption
  <2>2. \A a \in Asks : heard'[a] = heard[a] \/ CallOn(a)
    BY <1>8
  <2> QED BY <1>4, <2>1, <2>2, CycleStays
<1>11. EmissionHolds'
  BY <1>1, <1>4, EmissionStays
<1>12. SameAsks
  BY DEF SameAsks
<1>13. CountHolds'
  <2>1. \A a : /\ Weight(a)' = IF a = c.ask /\ c.at \in Unwritten THEN Weight(a) - 1 ELSE Weight(a)
               /\ Weight(a)' <= Weight(a) /\ Weight(a) \in Nat /\ Weight(a)' \in Int
    BY <1>1, <1>3, <1>12, LeavingWeighs, WeightsAreNumbers
  <2>2. \A x, y \in calls' : x.ask = y.ask /\ x.nth = y.nth => x = y
    BY DEF AskInv, CountHolds
  <2>3. \A a \in Asks : sends[a] \in Nat
    BY AskBounds, <1>1 DEF AskTyped
  <2>4. \A a \in Asks : Weight(a)' <= sends'[a]
    BY <2>1, <2>3 DEF AskInv, CountHolds
  <2>5. \A m \in Mentions : Weight(m)' <= 1 + mishaps'
    BY <1>1, <2>1 DEF AskInv, CountHolds
  <2>6. \A m \in Mentions : Weight(m)' <= mishaps' \/ (InHand(m) /\ Going(m))'
    <3>1. TAKE m \in Mentions
    <3>2. Weight(m) <= mishaps \/ (InHand(m) /\ Going(m))
      BY DEF AskInv, CountHolds
    <3>3. InHand(m)' <=> InHand(m)
      BY DEF InHand, Done
    <3>4. Weight(m) <= 1 + mishaps
      BY DEF AskInv, CountHolds
    <3>5. CASE m # c.ask
      <4>1. Going(m)' <=> Going(m)
        BY <1>7, <3>5, MentionsAssumption DEF Going
      <4> QED BY <1>1, <2>1, <3>2, <3>3, <4>1
    <3>6. CASE mishaps' > mishaps
      BY <1>1, <2>1, <3>4, <3>6
    <3>7. CASE m = c.ask /\ c.at \in Unwritten
      BY <1>1, <2>1, <3>4, <3>7
    <3>8. CASE m = c.ask /\ heard'[c.ask].status \in {"ALLOW", "CO_SIGN", "BLOCK"}
      <4>1. Going(m)'
        BY <3>8 DEF Going
      <4> QED BY <1>1, <2>1, <3>2, <3>3, <4>1
    <3> QED BY <3>5, <3>6, <3>7, <3>8
  <2> QED BY <2>2, <2>4, <2>5, <2>6 DEF CountHolds
<1> QED BY <1>3, <1>5, <1>6, <1>9, <1>10, <1>11, <1>13 DEF AskInv

\* A call that goes on to another await.
LEMMA CallGoes ==
  ASSUME AskInv, NEW c \in calls, NEW d \in CallRow, d.ask = c.ask, d.nth = c.nth, calls' = (calls \ {c}) \cup {d}, DecisionsKeep,
         CallHolds(d)', UNCHANGED <<sends, heard, justified, present, cycle, saved, emission, mishaps>>, \A a : Weight(a)' = Weight(a)
  PROVE  AskInv'
<1>1. AskTyped /\ mishaps \in Nat /\ mishaps' \in Nat /\ mishaps <= mishaps'
  BY MishapsAre DEF AskInv
<1>2. IsFiniteSet(calls')
  <2>1. IsFiniteSet(calls \ {c})
    BY <1>1, FS_RemoveElement DEF AskTyped
  <2> QED BY <2>1, FS_AddElement
<1>3. AskTyped'
  BY <1>1, <1>2 DEF AskTyped, DecisionsKeep
<1>4. \A x \in calls' : CallHolds(x)'
  <2>1. TAKE x \in calls'
  <2>2. CASE x \in calls
    <3>1. x \in CallRow /\ CallHolds(x)
      BY <2>2 DEF AskInv, AskTyped
    <3> QED BY <3>1, CallStays
  <2> QED BY <2>2
<1>5. \A a \in Asks : HeardHolds(a)'
  BY HeardStays DEF AskInv
<1>6. \A a \in Asks : CallOn(a)' <=> CallOn(a)
  BY DEF CallOn
<1>7. \A a \in Asks : Awaited(a)'
  BY <1>6 DEF AskInv, Awaited
<1>8. CycleHolds'
  BY <1>6, CycleStays, MentionsAssumption
<1>9. EmissionHolds'
  BY <1>1, EmissionStays
<1>10. CountHolds'
  <2>1. \A x, y \in calls' : x.ask = y.ask /\ x.nth = y.nth => x = y
    BY DEF AskInv, CountHolds
  <2>2. \A a \in Asks : Weight(a)' <= sends'[a]
    BY DEF AskInv, CountHolds
  <2>3. \A m \in Mentions : Weight(m)' <= 1 + mishaps'
    BY DEF AskInv, CountHolds
  <2>4. \A m \in Mentions : Weight(m)' <= mishaps' \/ (InHand(m) /\ Going(m))'
    <3>1. TAKE m \in Mentions
    <3>2. Weight(m) <= mishaps \/ (InHand(m) /\ Going(m))
      BY DEF AskInv, CountHolds
    <3>3. InHand(m)' <=> InHand(m)
      BY DEF InHand, Done
    <3>4. Going(m)' <=> Going(m)
      BY <1>6, MentionsAssumption DEF Going
    <3> QED BY <3>2, <3>3, <3>4
  <2> QED BY <2>1, <2>2, <2>3, <2>4 DEF CountHolds
<1> QED BY <1>3, <1>4, <1>5, <1>7, <1>8, <1>9, <1>10 DEF AskInv

\* A call is typed and holds.
LEMMA CallIs ==
  ASSUME AskInv, NEW c \in calls
  PROVE  c \in CallRow /\ CallHolds(c) /\ c.ask \in Asks /\ c.nth \in Nat /\ c.decision \in Nat /\ c.todo \in SUBSET Signers
         /\ c.at \in Unwritten \cup Written
BY DEF AskInv, AskTyped, CallRow

\* What an asker is told.
LEMMA TellingIs ==
  ASSUME NEW c, c.ask \in Asks, NEW status \in Statuses, NEW n \in Nat, heard \in [Asks -> AnswerRow], status # "nothing",
         heard' = [heard EXCEPT ![c.ask] = Told(status, n)]
  PROVE  /\ heard' \in [Asks -> AnswerRow] /\ heard'[c.ask].status = status /\ heard'[c.ask].decision = n /\ heard'[c.ask] # NotTold
         /\ \A a \in Asks : a # c.ask => heard'[a] = heard[a]
<1>1. PICK x : x = Told(status, n)
  OBVIOUS
<1>2. x \in AnswerRow /\ x.status = status /\ x.decision = n
  BY <1>1 DEF Told, AnswerRow
<1>3. NotTold.status = "nothing"
  BY DEF NotTold
<1>4. heard' = [heard EXCEPT ![c.ask] = x]
  BY <1>1
<1>5. heard' \in [Asks -> AnswerRow] /\ heard'[c.ask] = x /\ \A a \in Asks : a # c.ask => heard'[a] = heard[a]
  BY <1>2, <1>4
<1> QED BY <1>2, <1>3, <1>5

\* A call that is answered without a decision.
LEMMA AnsweredWithout ==
  ASSUME AskInv, NEW c \in calls, calls' = calls \ {c}, UNCHANGED <<decisions, sends, justified, present, cycle, saved, emission>>,
         mishaps' \in mishaps..MaxAskFaults, NEW status \in {"refused", "ALLOW"}, heard' = [heard EXCEPT ![c.ask] = Told(status, 0)],
         mishaps' > mishaps \/ c.at \in Unwritten
  PROVE  AskInv'
<1>1. /\ heard' \in [Asks -> AnswerRow] /\ heard'[c.ask].status = status /\ heard'[c.ask].decision = 0 /\ heard'[c.ask] # NotTold
      /\ \A a \in Asks : a # c.ask => heard'[a] = heard[a]
  <2>1. c.ask \in Asks /\ heard \in [Asks -> AnswerRow] /\ status \in Statuses /\ 0 \in Nat /\ status # "nothing"
    BY CallIs DEF AskInv, AskTyped, Statuses
  <2> QED BY <2>1, TellingIs
<1>2. HeardHolds(c.ask)'
  BY <1>1 DEF HeardHolds
<1> QED BY <1>1, <1>2, CallLeaves

\* The door refuses a call.
LEMMA AskIsRefused ==
  ASSUME AskInv, NEW c \in calls, RefuseAtDoor(c) PROVE AskInv'
<1>1. mishaps' \in mishaps..MaxAskFaults /\ mishaps' > mishaps
  <2>1. mishaps \in Nat /\ mishaps < MaxAskFaults /\ mishaps' = mishaps + 1 /\ MaxAskFaults \in Nat
    BY MishapsAre, AskBounds DEF RefuseAtDoor, AskInv
  <2> QED BY <2>1
<1> QED BY <1>1, AnsweredWithout DEF RefuseAtDoor, Leaves

\* Where no fault happens.
LEMMA NoMishap == ASSUME AskInv, mishaps' = mishaps PROVE mishaps' \in mishaps..MaxAskFaults
BY AskBounds DEF AskInv, AskTyped

\* A call that has not written, and goes on to write.
LEMMA GoesOnUnwritten ==
  ASSUME AskInv, NEW c \in calls, c.at \in Unwritten, NEW d, d \in CallRow, d.ask = c.ask, d.nth = c.nth, d.at \in Unwritten,
         d.at = "record" => d.verdict \in {"CO_SIGN", "BLOCK"}, calls' = (calls \ {c}) \cup {d},
         UNCHANGED <<decisions, sends, heard, justified, present, cycle, saved, emission, mishaps>>
  PROVE  AskInv'
<1>1. DecisionsKeep
  BY DecisionsAsTheyWere
<1>2. SameAsks
  BY DEF SameAsks
<1>3. AskTyped /\ \A x, y \in calls : x.ask = y.ask /\ x.nth = y.nth => x = y
  BY DEF AskInv, CountHolds
<1>4. \A a : Weight(a)' = Weight(a)
  BY <1>2, <1>3, GoingOnWeighs
<1>5. CallHolds(d)'
  <2>1. c.nth \in 1..sends[c.ask]
    BY CallIs DEF CallHolds
  <2>2. d.at \notin Written
    BY DEF Unwritten, Written
  <2> QED BY <2>1, <2>2 DEF CallHolds
<1> QED BY <1>1, <1>4, <1>5, CallGoes

\* It is given what it rests on.
LEMMA AskHasABasis ==
  ASSUME AskInv, NEW c \in calls, ReadBasis(c) PROVE AskInv'
<1>1. mishaps' \in mishaps..MaxAskFaults
  BY NoMishap DEF ReadBasis
<1>2. CASE c.ask \in justified
  <2>1. PICK d : d = [c EXCEPT !.at = "evaluate"]
    OBVIOUS
  <2>2. d \in CallRow /\ d.ask = c.ask /\ d.nth = c.nth /\ d.at = "evaluate"
    BY <2>1, CallIs DEF CallRow, Unwritten
  <2>3. d.at \in Unwritten /\ c.at \in Unwritten /\ (d.at = "record" => d.verdict \in {"CO_SIGN", "BLOCK"})
    BY <2>2 DEF Unwritten, ReadBasis
  <2>4. calls' = (calls \ {c}) \cup {d} /\ UNCHANGED <<decisions, sends, heard, justified, present, cycle, saved, emission, mishaps>>
    BY <1>2, <2>1 DEF ReadBasis, Moves
  <2> QED BY <2>2, <2>3, <2>4, GoesOnUnwritten
<1>3. CASE c.ask \notin justified
  <2>1. calls' = calls \ {c} /\ heard' = [heard EXCEPT ![c.ask] = Told("refused", 0)] /\ c.at \in Unwritten
    BY <1>3 DEF ReadBasis, Leaves, Unwritten
  <2> QED BY <1>1, <2>1, AnsweredWithout DEF ReadBasis
<1> QED BY <1>2, <1>3

\* The gate evaluates it.
LEMMA AskIsEvaluated ==
  ASSUME AskInv, NEW c \in calls, NEW verdict \in {"ALLOW", "CO_SIGN", "BLOCK"}, Evaluates(c, verdict) PROVE AskInv'
<1>1. mishaps' \in mishaps..MaxAskFaults /\ c.at \in Unwritten
  BY NoMishap DEF Evaluates, Unwritten
<1>2. CASE verdict = "ALLOW"
  <2>1. calls' = calls \ {c} /\ heard' = [heard EXCEPT ![c.ask] = Told("ALLOW", 0)]
    BY <1>2 DEF Evaluates, Leaves
  <2> QED BY <1>1, <2>1, AnsweredWithout DEF Evaluates
<1>3. CASE verdict # "ALLOW"
  <2>1. PICK d : d = [c EXCEPT !.at = "record", !.verdict = verdict]
    OBVIOUS
  <2>2. d \in CallRow /\ d.ask = c.ask /\ d.nth = c.nth /\ d.at = "record" /\ d.verdict = verdict
    BY <1>3, <2>1, CallIs DEF CallRow, Unwritten
  <2>3. d.at \in Unwritten
    BY <2>2 DEF Unwritten
  <2>4. calls' = (calls \ {c}) \cup {d} /\ UNCHANGED <<decisions, sends, heard, justified, present, cycle, saved, emission, mishaps>>
    BY <1>3, <2>1 DEF Evaluates, Moves
  <2> QED BY <1>1, <1>3, <2>2, <2>3, <2>4, GoesOnUnwritten
<1> QED BY <1>2, <1>3

\* The decision is written.
LEMMA AskIsWritten ==
  ASSUME AskInv, NEW c \in calls, WriteDecision(c) PROVE AskInv'
<1>1. c \in CallRow /\ c.ask \in Asks /\ c.at \in Unwritten /\ c.verdict \in {"CO_SIGN", "BLOCK"} /\ c.nth \in 1..sends[c.ask]
  BY CallIs DEF WriteDecision, Unwritten, CallHolds
<1>2. PICK row : row = Row(c)
  OBVIOUS
<1>3. present \in SUBSET Signers
  BY DEF AskInv, AskTyped
<1>4. /\ row \in DecisionRow /\ row.ask = c.ask /\ row.decision = c.verdict /\ row.toTell = present
  BY <1>1, <1>2, <1>3 DEF Row, DecisionRow
<1>5. PICK n : n = Len(decisions) + 1
  OBVIOUS
<1>6. decisions \in Seq(DecisionRow)
  BY DEF AskInv, AskTyped
<1>7. PICK place : place = IF c.verdict = "CO_SIGN" THEN "people" ELSE "answer"
  OBVIOUS
<1>8. PICK d : d = [c EXCEPT !.at = place, !.decision = n]
  OBVIOUS
<1>9. n \in Nat /\ place \in Written
  BY <1>5, <1>6, <1>7 DEF Written
<1>10. d \in CallRow /\ d.ask = c.ask /\ d.nth = c.nth /\ d.at = place /\ d.decision = n /\ d.verdict = c.verdict
  BY <1>1, <1>8, <1>9 DEF CallRow
<1>11. decisions' = Append(decisions, row) /\ calls' = (calls \ {c}) \cup {d}
  BY <1>2, <1>5, <1>7, <1>8 DEF WriteDecision, Moves
<1>12. /\ decisions' \in Seq(DecisionRow) /\ n \in DOMAIN decisions' /\ decisions'[n] = row /\ DOMAIN decisions \subseteq DOMAIN decisions'
       /\ \A i \in DOMAIN decisions : decisions'[i] = decisions[i]
  BY <1>4, <1>5, <1>6, <1>11
<1>13. UNCHANGED <<sends, heard, justified, present, cycle, saved, emission, mishaps>>
  BY DEF WriteDecision
<1>14. DecisionsKeep
  <2>1. \A a \in Asks : sends[a] \in Nat
    BY AskBounds DEF AskInv, AskTyped
  <2> QED BY <1>12, <1>13, <2>1 DEF DecisionsKeep
<1>15. \A a : Weight(a)' = Weight(a)
  <2>1. AskTyped /\ d.at \notin Unwritten
    BY <1>9, <1>10 DEF AskInv, Written, Unwritten
  <2> QED BY <1>1, <1>4, <1>10, <1>11, <2>1, WritingWeighs
<1>16. CallHolds(d)'
  BY <1>1, <1>4, <1>7, <1>9, <1>10, <1>12, <1>13 DEF CallHolds
<1> QED BY <1>10, <1>11, <1>13, <1>14, <1>15, <1>16, CallGoes

\* Who may sign is read.
LEMMA AskFindsPeople ==
  ASSUME AskInv, NEW c \in calls, ReadPeople(c) PROVE AskInv'
<1>1. c \in CallRow /\ CallHolds(c) /\ c.at = "people" /\ present \in SUBSET Signers
  BY CallIs DEF ReadPeople, AskInv, AskTyped
<1>2. PICK d : d = [c EXCEPT !.at = "telling", !.todo = present]
  OBVIOUS
<1>3. /\ d \in CallRow /\ d.ask = c.ask /\ d.nth = c.nth /\ d.at = "telling" /\ d.decision = c.decision /\ d.verdict = c.verdict
      /\ d.todo = present
  BY <1>1, <1>2 DEF CallRow, Written
<1>4. calls' = (calls \ {c}) \cup {d} /\ UNCHANGED <<decisions, sends, heard, justified, present, cycle, saved, emission, mishaps>>
  BY <1>2 DEF ReadPeople, Moves
<1>5. DecisionsKeep /\ SameAsks
  BY <1>4, DecisionsAsTheyWere DEF SameAsks
<1>6. AskTyped /\ (\A x, y \in calls : x.ask = y.ask /\ x.nth = y.nth => x = y) /\ c.at \notin Unwritten /\ d.at \notin Unwritten
  BY <1>1, <1>3 DEF AskInv, CountHolds, Unwritten
<1>7. \A a : Weight(a)' = Weight(a)
  BY <1>3, <1>4, <1>5, <1>6, GoingOnWeighs
<1>8. CallHolds(d)'
  BY <1>1, <1>3, <1>4 DEF CallHolds, Written
<1> QED BY <1>3, <1>4, <1>5, <1>7, <1>8, CallGoes

\* One of them is told.
LEMMA AskTells ==
  ASSUME AskInv, NEW c \in calls, NEW h \in Signers, NEW told \in BOOLEAN, Tells(c, h, told) PROVE AskInv'
<1>1. c \in CallRow /\ CallHolds(c) /\ c.at = "telling" /\ c.todo \in SUBSET Signers
  BY CallIs DEF Tells
<1>2. PICK n : n = c.decision
  OBVIOUS
<1>3. PICK x : x = decisions[n]
  OBVIOUS
<1>4. /\ n \in DOMAIN decisions /\ x.ask = c.ask /\ x.decision = c.verdict /\ x.toTell \subseteq x.told \cup x.refusedForBudget \cup c.todo
      /\ c.verdict = "CO_SIGN" /\ c.nth \in 1..sends[c.ask]
  BY <1>1, <1>2, <1>3 DEF CallHolds, Written
<1>5. decisions \in Seq(DecisionRow) /\ x \in DecisionRow
  BY <1>3, <1>4 DEF AskInv, AskTyped
<1>6. PICK t : t = IF told THEN x.told \cup {h} ELSE x.told
  OBVIOUS
<1>7. PICK r : r = IF told THEN x.refusedForBudget ELSE x.refusedForBudget \cup {h}
  OBVIOUS
<1>8. PICK y : y = [x EXCEPT !.told = t, !.refusedForBudget = r]
  OBVIOUS
<1>9. /\ y \in DecisionRow /\ y.ask = x.ask /\ y.decision = x.decision /\ y.toTell = x.toTell /\ y.told = t /\ y.refusedForBudget = r
      /\ y.resolution = x.resolution
  BY <1>5, <1>6, <1>7, <1>8 DEF DecisionRow
<1>10. decisions' = [decisions EXCEPT ![n] = y]
  BY <1>2, <1>3, <1>4, <1>5, <1>6, <1>7, <1>8 DEF Tells
<1>11. /\ decisions' \in Seq(DecisionRow) /\ DOMAIN decisions' = DOMAIN decisions /\ decisions'[n] = y
       /\ \A i \in DOMAIN decisions : i # n => decisions'[i] = decisions[i]
  BY <1>4, <1>5, <1>9, <1>10
<1>12. x.told \subseteq t /\ x.refusedForBudget \subseteq r /\ h \in t \cup r
  BY <1>6, <1>7
<1>13. PICK d : d = [c EXCEPT !.todo = c.todo \ {h}]
  OBVIOUS
<1>14. /\ d \in CallRow /\ d.ask = c.ask /\ d.nth = c.nth /\ d.at = "telling" /\ d.decision = n /\ d.verdict = c.verdict
       /\ d.todo = c.todo \ {h}
  BY <1>1, <1>2, <1>13 DEF CallRow
<1>15. calls' = (calls \ {c}) \cup {d} /\ UNCHANGED <<sends, heard, justified, present, cycle, saved, emission, mishaps>>
  BY <1>13 DEF Tells, TellsNext, Moves
<1>16. DecisionsKeep
  <2>1. \A a \in Asks : sends[a] \in Nat
    BY AskBounds DEF AskInv, AskTyped
  <2>2. \A i \in DOMAIN decisions :
         /\ decisions'[i].ask = decisions[i].ask /\ decisions'[i].decision = decisions[i].decision
         /\ decisions'[i].toTell = decisions[i].toTell /\ decisions[i].told \subseteq decisions'[i].told
         /\ decisions[i].refusedForBudget \subseteq decisions'[i].refusedForBudget
         /\ decisions[i].resolution # "NONE" => decisions'[i].resolution = decisions[i].resolution
    BY <1>3, <1>9, <1>11, <1>12
  <2> QED BY <1>11, <1>15, <2>1, <2>2 DEF DecisionsKeep
<1>17. SameAsks
  BY <1>3, <1>9, <1>11 DEF SameAsks
<1>18. AskTyped /\ (\A u, v \in calls : u.ask = v.ask /\ u.nth = v.nth => u = v) /\ c.at \notin Unwritten /\ d.at \notin Unwritten
  BY <1>1, <1>14 DEF AskInv, CountHolds, Unwritten
<1>19. \A a : Weight(a)' = Weight(a)
  BY <1>14, <1>15, <1>17, <1>18, GoingOnWeighs
<1>20. CallHolds(d)'
  <2>1. y.toTell \subseteq y.told \cup y.refusedForBudget \cup d.todo
    BY <1>4, <1>9, <1>12, <1>14
  <2> QED BY <1>4, <1>9, <1>11, <1>14, <1>15, <2>1 DEF CallHolds, Written
<1> QED BY <1>14, <1>15, <1>16, <1>19, <1>20, CallGoes

\* The call is answered.
LEMMA AskIsAnswered ==
  ASSUME AskInv, NEW c \in calls, Answer(c) PROVE AskInv'
<1>1. c \in CallRow /\ CallHolds(c) /\ c.at \in Written /\ (c.at = "answer" \/ (c.at = "telling" /\ c.todo = {})) /\ c.decision \in Nat
  BY CallIs DEF Answer, Written
<1>2. PICK x : x = decisions[c.decision]
  OBVIOUS
<1>3. /\ c.decision \in DOMAIN decisions /\ x.ask = c.ask /\ x.decision = c.verdict /\ c.verdict \in {"CO_SIGN", "BLOCK"}
      /\ (c.verdict = "CO_SIGN" => x.toTell \subseteq x.told \cup x.refusedForBudget)
  BY <1>1, <1>2 DEF CallHolds
<1>4. calls' = calls \ {c} /\ heard' = [heard EXCEPT ![c.ask] = Told(c.verdict, c.decision)]
      /\ UNCHANGED <<decisions, sends, justified, present, cycle, saved, emission>>
  BY DEF Answer, Leaves
<1>5. mishaps' \in mishaps..MaxAskFaults
  BY NoMishap DEF Answer
<1>6. /\ heard' \in [Asks -> AnswerRow] /\ heard'[c.ask].status = c.verdict /\ heard'[c.ask].decision = c.decision
      /\ heard'[c.ask] # NotTold /\ \A a \in Asks : a # c.ask => heard'[a] = heard[a]
  <2>1. c.ask \in Asks /\ heard \in [Asks -> AnswerRow] /\ c.verdict \in Statuses /\ c.decision \in Nat /\ c.verdict # "nothing"
    BY <1>1, <1>3, CallIs DEF AskInv, AskTyped, Statuses
  <2>2. PICK v \in Statuses : v = c.verdict
    BY <2>1
  <2>3. PICK n \in Nat : n = c.decision
    BY <2>1
  <2>4. v # "nothing" /\ heard' = [heard EXCEPT ![c.ask] = Told(v, n)]
    BY <1>4, <2>1, <2>2, <2>3
  <2>5. /\ heard' \in [Asks -> AnswerRow] /\ heard'[c.ask].status = v /\ heard'[c.ask].decision = n
        /\ heard'[c.ask] # NotTold /\ \A a \in Asks : a # c.ask => heard'[a] = heard[a]
    BY <2>1, <2>4, TellingIs, ZenonT(60)
  <2> QED BY <2>2, <2>3, <2>5
<1>7. c.decision # 0
  BY <1>3 DEF AskInv, AskTyped
<1>8. HeardHolds(c.ask)'
  BY <1>2, <1>3, <1>4, <1>6, <1>7 DEF HeardHolds
<1> QED BY <1>3, <1>4, <1>5, <1>6, <1>8, CallLeaves

\* It dies where it is.
LEMMA AskDies ==
  ASSUME AskInv, NEW c \in calls, CallDies(c) PROVE AskInv'
<1>1. mishaps' \in mishaps..MaxAskFaults /\ mishaps' > mishaps
  <2>1. mishaps \in Nat /\ mishaps < MaxAskFaults /\ mishaps' = mishaps + 1 /\ MaxAskFaults \in Nat
    BY MishapsAre, AskBounds DEF CallDies, AskInv
  <2> QED BY <2>1
<1>2. HeardHolds(c.ask)' /\ heard' \in [Asks -> AnswerRow]
  <2>1. DecisionsKeep
    BY DecisionsAsTheyWere DEF CallDies
  <2>2. c.ask \in Asks /\ HeardHolds(c.ask) /\ heard' = heard /\ heard \in [Asks -> AnswerRow]
    BY CallIs DEF CallDies, AskInv, AskTyped
  <2> QED BY <2>1, <2>2, HeardStays
<1> QED BY <1>1, <1>2, CallLeaves DEF CallDies, Leaves

\* Where only the decisions and the room move.
LEMMA RoomMoves ==
  ASSUME AskInv, AskTyped', DecisionsKeep, SameAsks, UNCHANGED <<calls, sends, heard, cycle, saved, emission, mishaps>>
  PROVE  AskInv'
<1>1. AskTyped /\ mishaps \in Nat
  BY MishapsAre DEF AskInv
<1>2. \A c \in calls' : CallHolds(c)'
  <2>1. TAKE c \in calls'
  <2>2. c \in CallRow /\ CallHolds(c)
    BY DEF AskInv, AskTyped
  <2> QED BY <2>2, CallStays
<1>3. \A a \in Asks : HeardHolds(a)'
  BY HeardStays DEF AskInv
<1>4. \A a : CallOn(a)' <=> CallOn(a)
  BY DEF CallOn
<1>5. \A a \in Asks : Awaited(a)'
  BY <1>4 DEF AskInv, Awaited
<1>6. CycleHolds'
  BY <1>4, CycleStays
<1>7. EmissionHolds'
  BY <1>1, EmissionStays
<1>8. \A a : Weight(a)' = Weight(a)
  BY DecisionsOnStay DEF Weight, WillWrite
<1>9. CountHolds'
  <2>1. \A m : (InHand(m)' <=> InHand(m)) /\ (Going(m)' <=> Going(m))
    BY <1>4 DEF InHand, Done, Going
  <2>2. \A x, y \in calls' : x.ask = y.ask /\ x.nth = y.nth => x = y
    BY DEF AskInv, CountHolds
  <2>3. \A a \in Asks : Weight(a)' <= sends'[a]
    BY <1>8 DEF AskInv, CountHolds
  <2>4. \A m \in Mentions : Weight(m)' <= 1 + mishaps'
    BY <1>8 DEF AskInv, CountHolds
  <2>5. \A m \in Mentions : Weight(m)' <= mishaps' \/ (InHand(m) /\ Going(m))'
    BY <1>8, <2>1 DEF AskInv, CountHolds
  <2> QED BY <2>2, <2>3, <2>4, <2>5 DEF CountHolds
<1> QED BY <1>2, <1>3, <1>5, <1>6, <1>7, <1>9 DEF AskInv

\* One decision changes, and not what it is on.
LEMMA DecisionChanges ==
  ASSUME AskInv, NEW n \in DOMAIN decisions, NEW y \in DecisionRow, decisions' = [decisions EXCEPT ![n] = y],
         NEW x, x = decisions[n],
         y.ask = x.ask, y.decision = x.decision, y.toTell = x.toTell, y.told = x.told, y.refusedForBudget = x.refusedForBudget,
         x.resolution # "NONE" => y.resolution = x.resolution,
         UNCHANGED <<calls, sends, heard, justified, present, cycle, saved, emission, mishaps>>
  PROVE  AskInv'
<1>1. decisions \in Seq(DecisionRow)
  BY DEF AskInv, AskTyped
<1>2. /\ decisions' \in Seq(DecisionRow) /\ DOMAIN decisions' = DOMAIN decisions /\ decisions'[n] = y
      /\ \A i \in DOMAIN decisions : i # n => decisions'[i] = decisions[i]
  BY <1>1
<1>3. AskTyped'
  BY <1>2 DEF AskInv, AskTyped
<1>4. SameAsks
  BY <1>2 DEF SameAsks
<1>5. DecisionsKeep
  <2>1. \A a \in Asks : sends[a] \in Nat
    BY AskBounds DEF AskInv, AskTyped
  <2>2. \A i \in DOMAIN decisions :
         /\ decisions'[i].ask = decisions[i].ask /\ decisions'[i].decision = decisions[i].decision
         /\ decisions'[i].toTell = decisions[i].toTell /\ decisions[i].told \subseteq decisions'[i].told
         /\ decisions[i].refusedForBudget \subseteq decisions'[i].refusedForBudget
         /\ decisions[i].resolution # "NONE" => decisions'[i].resolution = decisions[i].resolution
    BY <1>2
  <2> QED BY <1>2, <2>1, <2>2 DEF DecisionsKeep
<1> QED BY <1>3, <1>4, <1>5, RoomMoves

\* A decision is resolved.
LEMMA AskResolves ==
  ASSUME AskInv, NEW n \in DOMAIN decisions, NEW resolution \in {"APPROVED", "DENIED"}, ResolveRow(n, resolution) PROVE AskInv'
<1>1. PICK x : x = decisions[n]
  OBVIOUS
<1>2. x \in DecisionRow /\ x.resolution = "NONE"
  BY <1>1 DEF AskInv, AskTyped, ResolveRow
<1>3. PICK y : y = [x EXCEPT !.resolution = resolution]
  OBVIOUS
<1>4. /\ y \in DecisionRow /\ y.ask = x.ask /\ y.decision = x.decision /\ y.toTell = x.toTell /\ y.told = x.told
      /\ y.refusedForBudget = x.refusedForBudget
  BY <1>2, <1>3 DEF DecisionRow
<1>5. decisions' = [decisions EXCEPT ![n] = y] /\ UNCHANGED <<calls, sends, heard, justified, present, cycle, saved, emission, mishaps>>
  BY <1>1, <1>3 DEF ResolveRow
<1> QED BY <1>1, <1>2, <1>4, <1>5, DecisionChanges

\* Its window closes.
LEMMA AskCloses ==
  ASSUME AskInv, NEW n \in DOMAIN decisions, WindowCloses(n) PROVE AskInv'
<1>1. PICK x : x = decisions[n]
  OBVIOUS
<1>2. x \in DecisionRow
  BY <1>1 DEF AskInv, AskTyped
<1>3. PICK y : y = [x EXCEPT !.open = FALSE]
  OBVIOUS
<1>4. /\ y \in DecisionRow /\ y.ask = x.ask /\ y.decision = x.decision /\ y.toTell = x.toTell /\ y.told = x.told
      /\ y.refusedForBudget = x.refusedForBudget /\ y.resolution = x.resolution
  BY <1>2, <1>3 DEF DecisionRow
<1>5. decisions' = [decisions EXCEPT ![n] = y] /\ UNCHANGED <<calls, sends, heard, justified, present, cycle, saved, emission, mishaps>>
  BY <1>1, <1>3 DEF WindowCloses
<1> QED BY <1>1, <1>4, <1>5, DecisionChanges

\* Somebody who may sign joins.
LEMMA AskSignerJoins ==
  ASSUME AskInv, NEW h \in Signers, SignerJoins(h) PROVE AskInv'
<1>1. AskTyped' /\ SameAsks
  BY DEF AskInv, AskTyped, SignerJoins, SameAsks
<1>2. DecisionsKeep
  <2>1. \A a \in Asks : sends[a] \in Nat
    BY AskBounds DEF AskInv, AskTyped
  <2> QED BY <2>1 DEF DecisionsKeep, AskInv, AskTyped, SignerJoins
<1> QED BY <1>1, <1>2, RoomMoves DEF SignerJoins

\* What an ask rests on changes.
LEMMA AskBasisChanges ==
  ASSUME AskInv, NEW a \in Asks, BasisChanges(a) PROVE AskInv'
<1>1. AskTyped' /\ SameAsks
  BY DEF AskInv, AskTyped, BasisChanges, SameAsks
<1>2. DecisionsKeep
  BY DecisionsAsTheyWere DEF BasisChanges
<1> QED BY <1>1, <1>2, RoomMoves DEF BasisChanges

\* The asks of the bot and of a turn are nobody's own.
LEMMA OwnIsNoMention ==
  ASSUME NEW a \in OwnAsks
  PROVE  a \in Asks /\ a \notin Mentions
BY DEF OwnAsks

\* The asker polls its decision.
LEMMA AskIsPolled ==
  ASSUME AskInv, NEW a \in OwnAsks, Poll(a) PROVE AskInv'
<1>1. a \in Asks /\ a \notin Mentions /\ HeardHolds(a) /\ heard[a].decision # 0
  BY OwnIsNoMention DEF AskInv, Poll
<1>2. PICK n : n = heard[a].decision
  OBVIOUS
<1>3. PICK x : x = decisions[n]
  OBVIOUS
<1>4. n \in DOMAIN decisions /\ x.ask = a /\ n # 0
  BY <1>1, <1>2, <1>3 DEF HeardHolds
<1>5. x \in DecisionRow /\ n \in Nat /\ heard \in [Asks -> AnswerRow]
  BY <1>3, <1>4 DEF AskInv, AskTyped
<1>6. PICK v : v = StatusOf(x)
  OBVIOUS
<1>7. v \in {"pending", "closed", "APPROVED", "DENIED"} /\ (v \in {"APPROVED", "DENIED"} => x.resolution = v)
  BY <1>5, <1>6 DEF StatusOf, DecisionRow
<1>8. PICK y : y = Told(v, n)
  OBVIOUS
<1>9. y \in AnswerRow /\ y.status = v /\ y.decision = n
  BY <1>5, <1>7, <1>8 DEF Told, AnswerRow, Statuses
<1>10. heard' = [heard EXCEPT ![a] = y]
  BY <1>1, <1>2, <1>3, <1>5, <1>6, <1>8 DEF Poll
<1>11. heard' \in [Asks -> AnswerRow] /\ heard'[a] = y /\ \A b \in Asks : b # a => heard'[b] = heard[b]
  BY <1>1, <1>5, <1>9, <1>10
<1>12. UNCHANGED <<calls, decisions, sends, justified, present, cycle, saved, emission, mishaps>>
  BY DEF Poll
<1>13. HeardHolds(a)'
  BY <1>3, <1>4, <1>7, <1>9, <1>11, <1>12 DEF HeardHolds
<1>14. DecisionsKeep
  BY <1>12, DecisionsAsTheyWere
<1>15. \A b \in Asks : HeardHolds(b)'
  BY <1>11, <1>13, <1>14, HeardStays DEF AskInv
<1>16. AskTyped'
  BY <1>11, <1>12 DEF AskInv, AskTyped
<1>17. \A c \in calls' : CallHolds(c)'
  <2>1. TAKE c \in calls'
  <2>2. c \in CallRow /\ CallHolds(c)
    BY <1>12 DEF AskInv, AskTyped
  <2> QED BY <1>14, <2>2, CallStays
<1>18. \A b : CallOn(b)' <=> CallOn(b)
  BY <1>12 DEF CallOn
<1>19. \A b \in Asks : Awaited(b)'
  <2>1. y # NotTold
    BY <1>4, <1>9 DEF NotTold
  <2> QED BY <1>11, <1>12, <1>18, <2>1 DEF AskInv, Awaited
<1>20. \A m \in Mentions : heard'[m] = heard[m]
  BY <1>1, <1>11, MentionsAssumption
<1>21. CycleHolds'
  <2>1. \A m \in Done : m \in Mentions
    BY DEF AskInv, CycleHolds, CycleRow, Done
  <2>2. Done' = Done /\ \A b : DecisionsOn(b)' = DecisionsOn(b)
    BY <1>12 DEF Done, DecisionsOn
  <2>3. \A m \in Done : ~CallOn(m)' /\ (DecisionsOn(m)' # {} \/ heard'[m].status = "ALLOW")
    BY <1>18, <1>20, <2>1, <2>2 DEF AskInv, CycleHolds
  <2> QED BY <1>12, <2>2, <2>3 DEF AskInv, CycleHolds
<1>22. EmissionHolds'
  BY <1>12, <1>14, EmissionStays, MishapsAre DEF AskInv
<1>23. CountHolds'
  <2>1. \A b : Weight(b)' = Weight(b)
    BY <1>12 DEF Weight, WillWrite, DecisionsOn
  <2>2. \A m \in Mentions : (InHand(m)' <=> InHand(m)) /\ (Going(m)' <=> Going(m))
    BY <1>12, <1>18, <1>20 DEF InHand, Done, Going
  <2>3. \A b, c \in calls' : b.ask = c.ask /\ b.nth = c.nth => b = c
    BY <1>12 DEF AskInv, CountHolds
  <2>4. \A b \in Asks : Weight(b)' <= sends'[b]
    BY <1>12, <2>1 DEF AskInv, CountHolds
  <2>5. \A m \in Mentions : Weight(m)' <= 1 + mishaps'
    BY <1>12, <2>1 DEF AskInv, CountHolds
  <2>6. \A m \in Mentions : Weight(m)' <= mishaps' \/ (InHand(m) /\ Going(m))'
    BY <1>12, <2>1, <2>2 DEF AskInv, CountHolds
  <2> QED BY <2>3, <2>4, <2>5, <2>6 DEF CountHolds
<1> QED BY <1>15, <1>16, <1>17, <1>19, <1>21, <1>22, <1>23 DEF AskInv

\* An ask is sent: a call of its own, with no decision yet.
LEMMA AskIsSent ==
  ASSUME AskInv, NEW a \in Asks, Sends(a), UNCHANGED <<decisions, justified, present, mishaps>>,
         heard' = heard \/ heard' = [heard EXCEPT ![a] = NotTold],
         CycleHolds', EmissionHolds', a \in Mentions => Weight(a) <= mishaps,
         \A m \in Mentions : m # a => (InHand(m) => InHand(m)'), a \in Mentions => InHand(a)'
  PROVE  AskInv'
<1>1. AskTyped /\ mishaps \in Nat /\ heard \in [Asks -> AnswerRow] /\ sends[a] \in Nat /\ sends[a] < MaxSends /\ MaxSends \in Nat
  BY MishapsAre, AskBounds DEF AskInv, AskTyped, Sends
<1>2. PICK c : c = Call(a)
  OBVIOUS
<1>3. c \in CallRow /\ c.ask = a /\ c.nth = sends[a] + 1 /\ c.at = "door"
  BY <1>1, <1>2 DEF Call, CallRow, Unwritten
<1>4. calls' = calls \cup {c} /\ c \in calls'
  BY <1>2 DEF Sends
<1>5. sends' \in [Asks -> 0..MaxSends] /\ sends'[a] = sends[a] + 1 /\ \A b \in Asks : b # a => sends'[b] = sends[b]
  BY <1>1 DEF Sends, AskTyped
<1>6. heard' \in [Asks -> AnswerRow] /\ (\A b \in Asks : b # a => heard'[b] = heard[b]) /\ (heard'[a] = heard[a] \/ heard'[a] = NotTold)
  <2>1. NotTold \in AnswerRow
    BY DEF NotTold, AnswerRow, Statuses
  <2> QED BY <1>1, <2>1
<1>7. \A b \in Asks : sends[b] \in Nat
  BY AskBounds DEF AskInv, AskTyped
<1>8. DecisionsKeep /\ SameAsks
  <2>1. decisions' = decisions /\ present' = present /\ decisions \in Seq(DecisionRow)
    BY <1>1 DEF AskTyped
  <2>2. \A b \in Asks : sends[b] <= sends'[b] /\ sends[b] \in Nat /\ sends'[b] \in Nat
    BY <1>1, <1>5, <1>7
  <2> QED BY <2>1, <2>2 DEF DecisionsKeep, SameAsks
<1>9. AskTyped'
  <2>1. IsFiniteSet(calls')
    BY <1>1, <1>4, FS_AddElement DEF AskTyped
  <2> QED BY <1>1, <1>3, <1>4, <1>5, <1>6, <2>1 DEF AskTyped
<1>10. \A x \in calls' : CallHolds(x)'
  <2>1. TAKE x \in calls'
  <2>2. CASE x \in calls
    <3>1. x \in CallRow /\ CallHolds(x)
      BY <2>2 DEF AskInv, AskTyped
    <3> QED BY <1>8, <3>1, CallStays
  <2>3. CASE x = c
    BY <1>1, <1>3, <1>5, <2>3 DEF CallHolds, Written
  <2> QED BY <1>4, <2>2, <2>3
<1>11. \A b \in Asks : HeardHolds(b)'
  <2>1. TAKE b \in Asks
  <2>2. CASE heard'[b] = heard[b]
    BY <1>8, <2>2, HeardStays DEF AskInv
  <2>3. CASE heard'[b] = NotTold
    BY <2>3 DEF HeardHolds, NotTold
  <2> QED BY <1>6, <2>2, <2>3
<1>12. CallOn(a)' /\ \A b : b # a => (CallOn(b)' <=> CallOn(b))
  BY <1>3, <1>4 DEF CallOn
<1>13. \A b \in Asks : Awaited(b)'
  <2>1. TAKE b \in Asks
  <2>2. CASE b # a
    <3>1. sends'[b] = sends[b] /\ heard'[b] = heard[b] /\ (CallOn(b)' <=> CallOn(b)) /\ Awaited(b)
      BY <1>5, <1>6, <1>12, <2>2 DEF AskInv
    <3> QED BY <3>1 DEF Awaited
  <2> QED BY <1>12, <2>2 DEF Awaited
<1>14. CountHolds'
  <2>1. \A x \in calls : x.ask = a => x.nth \in Nat /\ x.nth <= sends[a]
    <3>1. TAKE x \in calls
    <3>2. x.nth \in 1..sends[x.ask]
      BY CallIs DEF CallHolds
    <3> QED BY <1>1, <3>2
  <2>2. c \notin calls
    BY <1>1, <1>3, <2>1
  <2>3. \A x, y \in calls' : x.ask = y.ask /\ x.nth = y.nth => x = y
    BY <1>1, <1>3, <1>4, <2>1 DEF AskInv, CountHolds
  <2>4. c.at \in Unwritten
    BY <1>3 DEF Unwritten
  <2>5. \A b : Weight(b)' = IF b = a THEN Weight(b) + 1 ELSE Weight(b)
    BY <1>1, <1>3, <1>4, <1>8, <2>2, <2>4, SendingWeighs
  <2>6. \A b \in Asks : Weight(b)' <= sends'[b]
    <3>1. TAKE b \in Asks
    <3>2. Weight(b) \in Nat /\ Weight(b) <= sends[b]
      BY <1>1, WeightsAreNumbers DEF AskInv, CountHolds
    <3> QED BY <1>1, <1>5, <2>5, <3>2
  <2>7. \A m \in Mentions : Weight(m)' <= 1 + mishaps'
    <3>1. TAKE m \in Mentions
    <3>2. Weight(m) \in Nat /\ Weight(m) <= 1 + mishaps /\ (m = a => Weight(m) <= mishaps)
      BY <1>1, WeightsAreNumbers DEF AskInv, CountHolds
    <3> QED BY <1>1, <2>5, <3>2
  <2>8. \A m \in Mentions : Weight(m)' <= mishaps' \/ (InHand(m) /\ Going(m))'
    <3>1. TAKE m \in Mentions
    <3>2. Weight(m) <= mishaps \/ (InHand(m) /\ Going(m))
      BY DEF AskInv, CountHolds
    <3>3. CASE m = a
      BY <1>12, <3>3 DEF Going
    <3>4. CASE m # a
      <4>1. m \in Asks /\ heard'[m] = heard[m] /\ (CallOn(m)' <=> CallOn(m)) /\ Weight(m)' = Weight(m) /\ (InHand(m) => InHand(m)')
        BY <1>6, <1>12, <2>5, <3>4, MentionsAssumption
      <4>2. Going(m) => Going(m)'
        BY <4>1 DEF Going
      <4> QED BY <3>2, <4>1, <4>2
    <3> QED BY <3>3, <3>4
  <2> QED BY <2>3, <2>6, <2>7, <2>8 DEF CountHolds
<1> QED BY <1>9, <1>10, <1>11, <1>13, <1>14 DEF AskInv

\* It asks.
LEMMA AskIsAsked ==
  ASSUME AskInv, NEW a \in OwnAsks, Ask(a) PROVE AskInv'
<1>1. a \in Asks /\ a \notin Mentions /\ Sends(a) /\ UNCHANGED <<decisions, heard, justified, present, cycle, saved, emission, mishaps>>
  BY OwnIsNoMention DEF Ask
<1>2. DecisionsKeep
  <2>1. \A b \in Asks : sends[b] \in Nat
    BY AskBounds DEF AskInv, AskTyped
  <2>2. \A b \in Asks : sends'[b] = sends[b] \/ sends'[b] = sends[b] + 1
    BY <1>1 DEF Sends, AskInv, AskTyped
  <2> QED BY <1>1, <2>1, <2>2 DEF DecisionsKeep, AskInv, AskTyped
<1>3. \A m \in Mentions : CallOn(m)' => CallOn(m)
  <2>1. Call(a).ask = a
    BY DEF Call
  <2> QED BY <1>1, <2>1 DEF CallOn, Sends
<1>4. CycleHolds'
  BY <1>1, <1>2, <1>3, CycleStays
<1>5. EmissionHolds'
  BY <1>1, <1>2, EmissionStays, MishapsAre DEF AskInv
<1>6. \A m : InHand(m)' <=> InHand(m)
  BY <1>1 DEF InHand, Done
<1> QED BY <1>1, <1>4, <1>5, <1>6, AskIsSent

\* The first of what there is to do is one of them.
LEMMA FirstIsOne ==
  ASSUME NEW S \in SUBSET Mentions, S # {}
  PROVE  First(S) \in S
<1>1. S \in SUBSET Nat
  BY MentionsAssumption
<1>2. \E x \in S : \A y \in S : x <= y
  BY <1>1, FirstOfNumbers
<1> QED BY <1>2, Zenon DEF First

\* The reply bot proposes for a mention.
LEMMA BotProposes ==
  ASSUME AskInv, Propose PROVE AskInv'
<1>1. cycle \in CycleRow /\ cycle.at = "next" /\ cycle.todo # {} /\ cycle.todo \in SUBSET Mentions
  BY DEF AskInv, CycleHolds, Propose, CycleRow
<1>2. PICK m : m = First(cycle.todo)
  OBVIOUS
<1>3. m \in cycle.todo /\ m \in Mentions /\ m \in Asks /\ m \in Nat
  BY <1>1, <1>2, FirstIsOne, MentionsAssumption
<1>4. Sends(m) /\ heard' = [heard EXCEPT ![m] = NotTold] /\ UNCHANGED <<decisions, justified, present, saved, emission, mishaps>>
      /\ cycle' = [cycle EXCEPT !.at = "proposing", !.mention = m, !.todo = cycle.todo \ {m}]
  BY <1>2 DEF Propose
<1>5. /\ cycle' \in CycleRow /\ cycle'.at = "proposing" /\ cycle'.mention = m /\ cycle'.todo = cycle.todo \ {m} /\ cycle'.seen = cycle.seen
  BY <1>1, <1>3, <1>4 DEF CycleRow
<1>6. Done' = Done /\ m \notin Done
  BY <1>3, <1>4, <1>5 DEF Done, AskInv, CycleHolds
<1>7. CycleHolds'
  <2>1. \A k \in Done : ~CallOn(k)' /\ (DecisionsOn(k)' # {} \/ heard'[k].status = "ALLOW")
    <3>1. TAKE k \in Done
    <3>2. ~CallOn(k) /\ (DecisionsOn(k) # {} \/ heard[k].status = "ALLOW") /\ k \in Asks /\ k # m
      BY <1>6, MentionsAssumption DEF AskInv, CycleHolds, CycleRow, Done
    <3>3. heard'[k] = heard[k] /\ DecisionsOn(k)' = DecisionsOn(k)
      BY <1>4, <3>2 DEF AskInv, AskTyped, DecisionsOn
    <3>4. Call(m).ask = m
      BY DEF Call
    <3>5. ~CallOn(k)'
      BY <1>4, <3>2, <3>4 DEF CallOn, Sends
    <3> QED BY <3>2, <3>3, <3>5
  <2> QED BY <1>1, <1>3, <1>4, <1>5, <1>6, <2>1 DEF AskInv, CycleHolds
<1>8. EmissionHolds'
  <2>1. DecisionsKeep
    <3>1. \A b \in Asks : sends[b] \in Nat
      BY AskBounds DEF AskInv, AskTyped
    <3>2. \A b \in Asks : sends'[b] = sends[b] \/ sends'[b] = sends[b] + 1
      BY <1>4 DEF Sends, AskInv, AskTyped
    <3> QED BY <1>4, <3>1, <3>2 DEF DecisionsKeep, AskInv, AskTyped
  <2> QED BY <1>4, <2>1, EmissionStays, MishapsAre DEF AskInv
<1>9. ~InHand(m)
  BY <1>1, <1>6 DEF InHand
<1>10. Weight(m) <= mishaps
  BY <1>3, <1>9 DEF AskInv, CountHolds
<1>11. InHand(m)' /\ \A k \in Mentions : InHand(k) => InHand(k)'
  BY <1>1, <1>5, <1>6 DEF InHand
<1> QED BY <1>3, <1>4, <1>7, <1>8, <1>10, <1>11, AskIsSent

\* A turn requests what it emitted.
LEMMA TurnRequests ==
  ASSUME AskInv, RequestEmitted PROVE AskInv'
<1>1. /\ emission \in EmissionRow /\ emission.at = "routing" /\ emission.left # <<>> /\ emission.left \in Seq({"good", "bad"})
      /\ emission.asked \in Nat /\ emission.malformed \in Nat /\ emission.over \in Nat
      /\ emission.asked + emission.malformed + Len(emission.left) = KeptOf(emission.over)
      /\ emission.capped = (emission.over > MAX_ACTIONS_PER_TURN)
  BY DEF AskInv, EmissionHolds, RequestEmitted, EmissionRow
<1>2. PICK rest : rest = Tail(emission.left)
  OBVIOUS
<1>3. rest \in Seq({"good", "bad"}) /\ Len(rest) + 1 = Len(emission.left) /\ Len(rest) \in Nat
  BY <1>1, <1>2
<1>4. PICK n : n = emission.asked + 1
  OBVIOUS
<1>5. emission' = [emission EXCEPT !.at = "waiting", !.left = rest, !.asked = n]
  BY <1>2, <1>4 DEF RequestEmitted
<1>6. /\ emission' \in EmissionRow /\ emission'.at = "waiting" /\ emission'.left = rest /\ emission'.asked = n
      /\ emission'.malformed = emission.malformed /\ emission'.over = emission.over /\ emission'.capped = emission.capped
  <2>1. n \in Nat /\ rest \in Seq({"good", "bad"}) /\ emission \in EmissionRow
    BY <1>1, <1>3, <1>4
  <2>2. PICK S : S = Seq({"good", "bad"})
    OBVIOUS
  <2> QED BY ONLY <1>5, <2>1, <2>2 DEF EmissionRow
<1>7. n \in DOMAIN TurnAsks
  <2>1. Len(TurnAsks) \in Nat /\ MAX_ACTIONS_PER_TURN \in Nat /\ MAX_ACTIONS_PER_TURN <= Len(TurnAsks) /\ DOMAIN TurnAsks = 1..Len(TurnAsks)
    BY EmissionsAssumption
  <2>2. KeptOf(emission.over) <= MAX_ACTIONS_PER_TURN
    BY <1>1, <2>1 DEF KeptOf
  <2> QED BY <1>1, <1>3, <1>4, <2>1, <2>2
<1>8. PICK a : a = TurnAsks[n]
  OBVIOUS
<1>9. a \in Asks /\ a \notin Mentions /\ a = AskOf(emission')
  BY <1>6, <1>7, <1>8, EmissionsAssumption DEF AskOf
<1>10. Sends(a) /\ UNCHANGED <<decisions, heard, justified, present, cycle, saved, mishaps>>
  BY <1>9 DEF RequestEmitted
<1>11. sends'[a] > 0 /\ \A b \in Asks : sends'[b] = sends[b] \/ sends'[b] = sends[b] + 1
  BY <1>9, <1>10, AskBounds DEF Sends, AskInv, AskTyped
<1>12. DecisionsKeep
  <2>1. \A b \in Asks : sends[b] \in Nat
    BY AskBounds DEF AskInv, AskTyped
  <2> QED BY <1>10, <1>11, <2>1 DEF DecisionsKeep, AskInv, AskTyped
<1>13. \A m \in Mentions : CallOn(m)' => CallOn(m)
  <2>1. Call(a).ask = a
    BY DEF Call
  <2> QED BY <1>9, <1>10, <2>1 DEF CallOn, Sends
<1>14. CycleHolds'
  BY <1>10, <1>12, <1>13, CycleStays
<1>15. EmissionHolds'
  <2>1. AskOf(emission)' = a
    BY <1>6, <1>8 DEF AskOf
  <2>2. emission'.asked + emission'.malformed + Len(emission'.left) = KeptOf(emission'.over)
    BY <1>1, <1>3, <1>4, <1>6, SMTT(30)
  <2> QED BY <1>1, <1>6, <1>7, <1>11, <2>1, <2>2 DEF EmissionHolds
<1>16. \A m : InHand(m)' <=> InHand(m)
  BY <1>10 DEF InHand, Done
<1> QED BY <1>9, <1>10, <1>14, <1>15, <1>16, AskIsSent

\* Where no call, decision or answer moves, a step of the bot or of the turn.
LEMMA WalkMoves ==
  ASSUME AskInv, UNCHANGED <<calls, decisions, sends, heard, justified, present>>, mishaps' \in mishaps..MaxAskFaults,
         CycleHolds', EmissionHolds', \A m \in Mentions : Weight(m) <= mishaps' \/ (InHand(m) /\ Going(m))'
  PROVE  AskInv'
<1>1. AskTyped /\ mishaps \in Nat /\ mishaps' \in Nat /\ mishaps' \in 0..MaxAskFaults /\ mishaps <= mishaps'
  BY MishapsAre, AskBounds DEF AskInv, AskTyped
<1>2. AskTyped'
  BY <1>1 DEF AskTyped
<1>3. DecisionsKeep
  BY DecisionsAsTheyWere
<1>4. \A c \in calls' : CallHolds(c)'
  <2>1. \A c \in calls : c \in CallRow /\ CallHolds(c)
    BY <1>1 DEF AskInv, AskTyped
  <2> QED BY <1>3, <2>1, CallStays
<1>5. \A a \in Asks : HeardHolds(a)'
  BY <1>3, HeardStays DEF AskInv
<1>6. \A a \in Asks : Awaited(a)'
  <2>1. TAKE a \in Asks
  <2>2. Awaited(a) /\ sends'[a] = sends[a] /\ heard'[a] = heard[a] /\ (CallOn(a)' <=> CallOn(a))
    BY DEF AskInv, CallOn
  <2> QED BY <1>1, <2>2 DEF Awaited
<1>7. \A a : Weight(a)' = Weight(a)
  BY DEF Weight, DecisionsOn, WillWrite
<1>8. CountHolds'
  <2>1. \A x, y \in calls' : x.ask = y.ask /\ x.nth = y.nth => x = y
    BY DEF AskInv, CountHolds
  <2>2. \A a \in Asks : Weight(a)' <= sends'[a]
    BY <1>7 DEF AskInv, CountHolds
  <2>3. \A m \in Mentions : Weight(m)' <= 1 + mishaps'
    <3>1. TAKE m \in Mentions
    <3>2. Weight(m) \in Nat /\ Weight(m) <= 1 + mishaps
      BY <1>1, WeightsAreNumbers DEF AskInv, CountHolds
    <3> QED BY <1>1, <1>7, <3>2
  <2>4. \A m \in Mentions : Weight(m)' <= mishaps' \/ (InHand(m) /\ Going(m))'
    BY <1>7
  <2> QED BY <2>1, <2>2, <2>3, <2>4 DEF CountHolds
<1> QED BY <1>2, <1>4, <1>5, <1>6, <1>8 DEF AskInv

\* A fault pays for a decision more.
LEMMA FaultPays ==
  ASSUME AskInv, mishaps < MaxAskFaults, mishaps' = mishaps + 1
  PROVE  /\ mishaps' \in mishaps..MaxAskFaults /\ \A m \in Mentions : Weight(m) <= mishaps'
         /\ mishaps \in Nat /\ mishaps' \in Nat /\ mishaps <= mishaps'
<1>1. AskTyped /\ mishaps \in Nat /\ MaxAskFaults \in Nat
  BY MishapsAre, AskBounds DEF AskInv
<1>2. \A m \in Mentions : Weight(m) <= mishaps'
  <2>1. TAKE m \in Mentions
  <2>2. Weight(m) \in Nat /\ Weight(m) <= 1 + mishaps
    BY <1>1, WeightsAreNumbers DEF AskInv, CountHolds
  <2> QED BY <1>1, <2>2
<1> QED BY <1>1, <1>2

\* Where the emission stays, its routing goes on holding.
LEMMA EmissionWaits ==
  ASSUME AskInv, UNCHANGED <<decisions, sends, present, emission>>, mishaps' \in mishaps..MaxAskFaults
  PROVE  EmissionHolds'
<1>1. DecisionsKeep
  BY DecisionsAsTheyWere
<1>2. mishaps \in Nat /\ mishaps' \in Nat /\ mishaps <= mishaps'
  BY MishapsAre, AskBounds DEF AskInv
<1> QED BY <1>1, <1>2, EmissionStays

\* The run of the bot begins with the mentions that no run has seen.
LEMMA BotStarts ==
  ASSUME AskInv, StartCycle PROVE AskInv'
<1>1. /\ cycle.at = "idle" /\ cycle.seen = {} /\ saved \subseteq Mentions
      /\ UNCHANGED <<calls, decisions, sends, heard, justified, present, saved, emission, mishaps>>
  BY DEF AskInv, CycleHolds, StartCycle
<1>2. cycle' = [at |-> "next", mention |-> 0, todo |-> Mentions \ saved, seen |-> saved]
  BY DEF StartCycle
<1>3. cycle' \in CycleRow /\ cycle'.at = "next" /\ cycle'.todo = Mentions \ saved /\ cycle'.seen = saved
  BY <1>1, <1>2 DEF CycleRow
<1>4. Done = saved /\ Done' = saved
  BY <1>1, <1>3 DEF Done
<1>5. \A m : (CallOn(m)' <=> CallOn(m)) /\ DecisionsOn(m)' = DecisionsOn(m) /\ (Going(m)' <=> Going(m))
  BY <1>1 DEF CallOn, DecisionsOn, Going
<1>6. CycleHolds'
  <2>1. \A m \in Done' : ~CallOn(m)' /\ (DecisionsOn(m)' # {} \/ heard'[m].status = "ALLOW")
    BY <1>1, <1>4, <1>5 DEF AskInv, CycleHolds
  <2> QED BY <1>1, <1>3, <1>4, <2>1 DEF CycleHolds
<1>7. mishaps' \in mishaps..MaxAskFaults
  BY <1>1, NoMishap
<1>8. \A m \in Mentions : Weight(m) <= mishaps' \/ (InHand(m) /\ Going(m))'
  <2>1. \A m : InHand(m) => InHand(m)'
    BY <1>1, <1>4 DEF InHand
  <2> QED BY <1>1, <1>5, <2>1 DEF AskInv, CountHolds
<1>9. EmissionHolds'
  BY <1>1, <1>7, EmissionWaits
<1> QED BY <1>1, <1>6, <1>7, <1>8, <1>9, WalkMoves

\* A mention that is left for the next run is not seen.
LEMMA BotSkips ==
  ASSUME AskInv, SkipMention PROVE AskInv'
<1>1. /\ cycle \in CycleRow /\ cycle.at = "next" /\ mishaps < MaxAskFaults /\ mishaps' = mishaps + 1
      /\ UNCHANGED <<calls, decisions, sends, heard, justified, present, saved, emission>>
  BY DEF AskInv, CycleHolds, SkipMention
<1>2. PICK rest : rest = cycle.todo \ {First(cycle.todo)}
  OBVIOUS
<1>3. cycle' = [cycle EXCEPT !.todo = rest]
  BY <1>2 DEF SkipMention
<1>4. /\ cycle' \in CycleRow /\ cycle'.at = "next" /\ cycle'.todo = rest /\ cycle'.seen = cycle.seen
  BY <1>1, <1>2, <1>3 DEF CycleRow
<1>5. Done' = Done /\ rest \subseteq cycle.todo
  BY <1>1, <1>2, <1>4 DEF Done
<1>6. \A m : (CallOn(m)' <=> CallOn(m)) /\ DecisionsOn(m)' = DecisionsOn(m)
  BY <1>1 DEF CallOn, DecisionsOn
<1>7. CycleHolds'
  <2>1. \A m \in Done' : ~CallOn(m)' /\ (DecisionsOn(m)' # {} \/ heard'[m].status = "ALLOW")
    BY <1>1, <1>5, <1>6 DEF AskInv, CycleHolds
  <2> QED BY <1>1, <1>4, <1>5, <2>1 DEF AskInv, CycleHolds
<1>8. mishaps' \in mishaps..MaxAskFaults /\ \A m \in Mentions : Weight(m) <= mishaps'
  BY <1>1, FaultPays
<1>9. EmissionHolds'
  BY <1>1, <1>8, EmissionWaits
<1> QED BY <1>1, <1>7, <1>8, <1>9, WalkMoves

\* A mention is seen when its proposal was answered with a verdict.
LEMMA BotHasProposed ==
  ASSUME AskInv, Proposed PROVE AskInv'
<1>1. /\ cycle \in CycleRow /\ cycle.at = "proposing" /\ ~CallOn(cycle.mention)
      /\ UNCHANGED <<calls, decisions, sends, heard, justified, present, saved, emission, mishaps>>
  BY DEF AskInv, CycleHolds, Proposed, CallOn
<1>2. PICK k : k = cycle.mention
  OBVIOUS
<1>3. k \in Mentions /\ k \in Asks /\ k \notin cycle.todo /\ saved \subseteq cycle.seen /\ cycle.todo \cap Done = {}
  BY <1>1, <1>2, MentionsAssumption DEF AskInv, CycleHolds
<1>4. PICK seen : seen = Seen(k)
  OBVIOUS
<1>5. /\ cycle.seen \subseteq seen /\ seen \subseteq cycle.seen \cup {k}
      /\ (heard[k].status \in {"ALLOW", "CO_SIGN", "BLOCK"} <=> k \in seen) \/ k \in cycle.seen
  BY <1>4 DEF Seen
<1>6. cycle' = [cycle EXCEPT !.at = "next", !.seen = seen]
  BY <1>2, <1>4 DEF Proposed
<1>7. cycle' \in CycleRow /\ cycle'.at = "next" /\ cycle'.todo = cycle.todo /\ cycle'.seen = seen
  BY <1>1, <1>3, <1>5, <1>6 DEF CycleRow
<1>8. Done \subseteq Done' /\ Done' \subseteq Done \cup {k} /\ seen \subseteq Done' /\ k \notin Done
  BY <1>1, <1>2, <1>5, <1>7 DEF Done, AskInv, CycleHolds
<1>9. \A m : (CallOn(m)' <=> CallOn(m)) /\ DecisionsOn(m)' = DecisionsOn(m) /\ (Going(m)' <=> Going(m))
  BY <1>1 DEF CallOn, DecisionsOn, Going
<1>10. k \in seen => heard[k].status = "ALLOW" \/ DecisionsOn(k) # {}
  <2>1. SUFFICES ASSUME k \in seen, heard[k].status # "ALLOW" PROVE DecisionsOn(k) # {}
    OBVIOUS
  <2>2. heard[k].status \in {"CO_SIGN", "BLOCK"}
    BY <1>5, <1>8, <2>1 DEF Done
  <2>3. heard[k].decision \in DOMAIN decisions /\ decisions[heard[k].decision].ask = k
    BY <1>3, <2>2 DEF AskInv, HeardHolds
  <2> QED BY <2>3 DEF DecisionsOn
<1>11. CycleHolds'
  <2>1. \A m \in Done' : ~CallOn(m)' /\ (DecisionsOn(m)' # {} \/ heard'[m].status = "ALLOW")
    <3>1. TAKE m \in Done'
    <3>2. CASE m \in Done
      BY <1>1, <1>9, <3>2 DEF AskInv, CycleHolds
    <3>3. CASE m = k /\ m \notin Done
      <4>1. k \in seen
        BY <1>1, <1>7, <3>3 DEF Done
      <4> QED BY <1>1, <1>2, <1>9, <1>10, <3>3, <4>1
    <3> QED BY <1>8, <3>2, <3>3
  <2>2. saved \subseteq Mentions
    BY DEF AskInv, CycleHolds
  <2> QED BY <1>1, <1>3, <1>5, <1>7, <1>8, <2>1, <2>2 DEF CycleHolds
<1>12. mishaps' \in mishaps..MaxAskFaults
  BY <1>1, NoMishap
<1>13. \A m \in Mentions : Weight(m) <= mishaps' \/ (InHand(m) /\ Going(m))'
  <2>1. TAKE m \in Mentions
  <2>2. Weight(m) <= mishaps \/ (InHand(m) /\ Going(m))
    BY DEF AskInv, CountHolds
  <2>3. InHand(m) /\ Going(m) => m \in Done'
    <3>1. CASE m = k
      BY <1>1, <1>2, <1>5, <1>8, <3>1 DEF Going, Done
    <3>2. CASE m # k
      BY <1>1, <1>2, <1>8, <3>2 DEF InHand
    <3> QED BY <3>1, <3>2
  <2>4. m \in Done' => InHand(m)'
    BY DEF InHand
  <2> QED BY <1>1, <1>9, <2>2, <2>3, <2>4
<1>14. EmissionHolds'
  BY <1>1, <1>12, EmissionWaits
<1> QED BY <1>1, <1>11, <1>12, <1>13, <1>14, WalkMoves

\* What the run has seen is what its caller persists.
LEMMA BotIsSaved ==
  ASSUME AskInv, SaveSeen PROVE AskInv'
<1>1. /\ cycle \in CycleRow /\ cycle.at = "next" /\ saved \subseteq cycle.seen /\ cycle.seen \subseteq Mentions
      /\ saved' = cycle.seen /\ cycle' = Idle
      /\ UNCHANGED <<calls, decisions, sends, heard, justified, present, emission, mishaps>>
  BY DEF AskInv, CycleHolds, SaveSeen, CycleRow
<1>2. cycle' \in CycleRow /\ cycle'.at = "idle" /\ cycle'.todo = {} /\ cycle'.seen = {}
  BY <1>1 DEF Idle, CycleRow
<1>3. Done' = Done
  BY <1>1, <1>2 DEF Done
<1>4. \A m : (CallOn(m)' <=> CallOn(m)) /\ DecisionsOn(m)' = DecisionsOn(m) /\ (Going(m)' <=> Going(m))
  BY <1>1 DEF CallOn, DecisionsOn, Going
<1>5. CycleHolds'
  <2>1. \A m \in Done' : ~CallOn(m)' /\ (DecisionsOn(m)' # {} \/ heard'[m].status = "ALLOW")
    BY <1>1, <1>3, <1>4 DEF AskInv, CycleHolds
  <2> QED BY <1>1, <1>2, <1>3, <2>1 DEF CycleHolds
<1>6. mishaps' \in mishaps..MaxAskFaults
  BY <1>1, NoMishap
<1>7. \A m \in Mentions : Weight(m) <= mishaps' \/ (InHand(m) /\ Going(m))'
  <2>1. \A m : InHand(m) => InHand(m)'
    BY <1>1, <1>3 DEF InHand
  <2> QED BY <1>1, <1>4, <2>1 DEF AskInv, CountHolds
<1>8. EmissionHolds'
  BY <1>1, <1>6, EmissionWaits
<1> QED BY <1>1, <1>5, <1>6, <1>7, <1>8, WalkMoves

\* A run that dies forgets what it saw: what it proposed it proposes again.
LEMMA BotHasDied ==
  ASSUME AskInv, BotDies PROVE AskInv'
<1>1. /\ cycle' = Idle /\ saved \subseteq cycle.seen /\ saved \subseteq Mentions /\ mishaps < MaxAskFaults /\ mishaps' = mishaps + 1
      /\ UNCHANGED <<calls, decisions, sends, heard, justified, present, saved, emission>>
  BY DEF AskInv, CycleHolds, BotDies
<1>2. cycle' \in CycleRow /\ cycle'.at = "idle" /\ cycle'.todo = {} /\ cycle'.seen = {}
  BY <1>1 DEF Idle, CycleRow
<1>3. Done' = saved /\ saved \subseteq Done
  BY <1>1, <1>2 DEF Done
<1>4. \A m : (CallOn(m)' <=> CallOn(m)) /\ DecisionsOn(m)' = DecisionsOn(m)
  BY <1>1 DEF CallOn, DecisionsOn
<1>5. CycleHolds'
  <2>1. \A m \in Done' : ~CallOn(m)' /\ (DecisionsOn(m)' # {} \/ heard'[m].status = "ALLOW")
    BY <1>1, <1>3, <1>4 DEF AskInv, CycleHolds
  <2> QED BY <1>1, <1>2, <1>3, <2>1 DEF CycleHolds
<1>6. mishaps' \in mishaps..MaxAskFaults /\ \A m \in Mentions : Weight(m) <= mishaps'
  BY <1>1, FaultPays
<1>7. EmissionHolds'
  BY <1>1, <1>6, EmissionWaits
<1> QED BY <1>1, <1>5, <1>6, <1>7, WalkMoves

\* A step of the turn's routing that sends nothing.
LEMMA EmissionMoves ==
  ASSUME AskInv, UNCHANGED <<calls, decisions, sends, heard, justified, present, cycle, saved, mishaps>>, EmissionHolds'
  PROVE  AskInv'
<1>1. mishaps' \in mishaps..MaxAskFaults
  BY NoMishap
<1>2. DecisionsKeep
  BY DecisionsAsTheyWere
<1>3. CycleHolds'
  <2>1. \A m \in Mentions : CallOn(m)' => CallOn(m)
    BY DEF CallOn
  <2> QED BY <1>2, <2>1, CycleStays
<1>4. \A m \in Mentions : Weight(m) <= mishaps' \/ (InHand(m) /\ Going(m))'
  <2>1. \A m : (InHand(m)' <=> InHand(m)) /\ (Going(m)' <=> Going(m))
    BY DEF InHand, Done, Going, CallOn
  <2> QED BY <2>1 DEF AskInv, CountHolds
<1> QED BY <1>1, <1>3, <1>4, WalkMoves

\* What is routed is what is under the cap.
LEMMA TurnRoutes ==
  ASSUME AskInv, NEW es \in Emissions, RouteEmissions(es) PROVE AskInv'
<1>1. PICK n : n = Len(es)
  OBVIOUS
<1>2. es \in Seq({"good", "bad"}) /\ n \in Nat /\ MAX_ACTIONS_PER_TURN \in Nat
  BY <1>1, EmissionsAssumption
<1>3. PICK k : k = KeptOf(n)
  OBVIOUS
<1>4. k \in 0..n
  BY <1>2, <1>3 DEF KeptOf
<1>5. PICK kept : kept = [i \in 1..k |-> es[i]]
  OBVIOUS
<1>6. kept \in Seq({"good", "bad"}) /\ Len(kept) = k
  BY <1>1, <1>2, <1>4, <1>5
<1>7. PICK over : over = (n > MAX_ACTIONS_PER_TURN)
  OBVIOUS
<1>8. over \in BOOLEAN
  BY <1>7
<1>9. Kept(es) = kept
  BY <1>1, <1>3, <1>5 DEF Kept, KeptOf
<1>10. OverCap(es) = over
  BY <1>1, <1>7 DEF OverCap
<1>11. emission' = [NoTurn EXCEPT !.at = "routing", !.capped = over, !.left = kept, !.over = n]
  BY <1>1, <1>9, <1>10, Zenon DEF RouteEmissions
<1>12. /\ emission'.at = "routing" /\ emission'.left = kept /\ emission'.asked = 0 /\ emission'.malformed = 0 /\ emission'.over = n
       /\ emission'.capped = over /\ emission' \in EmissionRow
  <2>1. PICK S : S = Seq({"good", "bad"})
    OBVIOUS
  <2> QED BY ONLY <1>2, <1>6, <1>8, <1>11, <2>1 DEF EmissionRow, NoTurn
<1>13. EmissionHolds'
  BY <1>3, <1>4, <1>6, <1>7, <1>12 DEF EmissionHolds
<1> QED BY <1>13, EmissionMoves DEF RouteEmissions

\* What the invariant says of the turn's routing.
LEMMA TurnIs ==
  ASSUME AskInv
  PROVE  /\ emission \in EmissionRow /\ emission.left \in Seq({"good", "bad"}) /\ emission.asked \in Nat /\ emission.malformed \in Nat
         /\ emission.over \in Nat /\ Len(emission.left) \in Nat
BY DEF AskInv, EmissionHolds, EmissionRow

\* A malformed emission is counted as it is left out.
LEMMA TurnRefuses ==
  ASSUME AskInv, RefuseMalformed PROVE AskInv'
<1>1. /\ emission.at = "routing" /\ emission.left # <<>>
      /\ emission.asked + emission.malformed + Len(emission.left) = KeptOf(emission.over)
      /\ emission.capped = (emission.over > MAX_ACTIONS_PER_TURN)
  BY DEF AskInv, EmissionHolds, RefuseMalformed
<1>2. PICK rest : rest = Tail(emission.left)
  OBVIOUS
<1>3. rest \in Seq({"good", "bad"}) /\ Len(rest) + 1 = Len(emission.left) /\ Len(rest) \in Nat
  BY <1>1, <1>2, TurnIs
<1>4. PICK n : n = emission.malformed + 1
  OBVIOUS
<1>5. emission' = [emission EXCEPT !.left = rest, !.malformed = n]
  BY <1>2, <1>4 DEF RefuseMalformed
<1>6. /\ emission' \in EmissionRow /\ emission'.at = "routing" /\ emission'.left = rest /\ emission'.asked = emission.asked
      /\ emission'.malformed = n /\ emission'.over = emission.over /\ emission'.capped = emission.capped
  <2>1. n \in Nat /\ emission \in EmissionRow /\ rest \in Seq({"good", "bad"}) /\ emission.at = "routing"
    BY <1>1, <1>3, <1>4, TurnIs
  <2>2. PICK S : S = Seq({"good", "bad"})
    OBVIOUS
  <2>3. emission' \in EmissionRow
    BY ONLY <1>5, <2>1, <2>2 DEF EmissionRow
  <2> QED BY ONLY <1>5, <2>1, <2>2, <2>3 DEF EmissionRow
<1>7. emission'.asked + emission'.malformed + Len(emission'.left) = KeptOf(emission'.over)
  <2>1. PICK l, r : l = Len(emission.left) /\ r = Len(rest)
    OBVIOUS
  <2>2. emission.asked \in Nat /\ emission.malformed \in Nat /\ r \in Nat /\ l = r + 1
    BY <1>3, <2>1, TurnIs
  <2>3. emission.asked + emission.malformed + l = KeptOf(emission.over)
    BY <1>1, <2>1
  <2>4. emission.asked + n + r = KeptOf(emission.over)
    BY ONLY <1>4, <2>2, <2>3
  <2> QED BY <1>6, <2>1, <2>4
<1>8. EmissionHolds'
  BY <1>1, <1>6, <1>7 DEF EmissionHolds
<1> QED BY <1>8, EmissionMoves DEF RefuseMalformed

\* An emission that was answered lets the next one go; one that threw ends the routing, and something went wrong.
LEMMA TurnHears ==
  ASSUME AskInv, EmittedAnswered PROVE AskInv'
<1>1. /\ emission.at = "waiting" /\ emission.asked \in DOMAIN TurnAsks /\ sends[AskOf(emission)] > 0
      /\ emission.asked + emission.malformed + Len(emission.left) = KeptOf(emission.over)
      /\ emission.capped = (emission.over > MAX_ACTIONS_PER_TURN)
  BY DEF AskInv, EmissionHolds, EmittedAnswered
<1>2. PICK a : a = AskOf(emission)
  OBVIOUS
<1>3. a \in Asks /\ sends[a] > 0 /\ ~CallOn(a)
  BY <1>1, <1>2, EmissionsAssumption DEF AskOf, EmittedAnswered, CallOn
<1>4. heard[a] = NotTold => mishaps > 0
  BY <1>3 DEF AskInv, Awaited
<1>5. PICK at : at = IF heard[a] = NotTold THEN "over" ELSE "routing"
  OBVIOUS
<1>6. at \in {"over", "routing"} /\ (at = "over" => mishaps > 0)
  BY <1>4, <1>5
<1>7. emission' = [emission EXCEPT !.at = at]
  BY <1>2, <1>5 DEF EmittedAnswered
<1>8. /\ emission' \in EmissionRow /\ emission'.at = at /\ emission'.left = emission.left /\ emission'.asked = emission.asked
      /\ emission'.malformed = emission.malformed /\ emission'.over = emission.over /\ emission'.capped = emission.capped
  BY <1>6, <1>7, TurnIs DEF EmissionRow
<1>9. EmissionHolds'
  BY <1>1, <1>6, <1>8 DEF EmissionHolds, EmittedAnswered
<1> QED BY <1>9, EmissionMoves DEF EmittedAnswered

\* The routing is over when nothing is left.
LEMMA TurnEnds ==
  ASSUME AskInv, EndRouting PROVE AskInv'
<1>1. /\ emission.at = "routing" /\ emission.left = <<>>
      /\ emission.asked + emission.malformed + Len(emission.left) = KeptOf(emission.over)
      /\ emission.capped = (emission.over > MAX_ACTIONS_PER_TURN)
  BY DEF AskInv, EmissionHolds, EndRouting
<1>2. emission' = [emission EXCEPT !.at = "over"]
  BY DEF EndRouting
<1>3. /\ emission' \in EmissionRow /\ emission'.at = "over" /\ emission'.left = emission.left /\ emission'.asked = emission.asked
      /\ emission'.malformed = emission.malformed /\ emission'.over = emission.over /\ emission'.capped = emission.capped
  BY <1>2, TurnIs DEF EmissionRow
<1>4. EmissionHolds'
  BY <1>1, <1>3 DEF EmissionHolds
<1> QED BY <1>4, EmissionMoves DEF EndRouting

\* A server that has just started has nothing of any ask.
LEMMA AskBegins ==
  ASSUME AskInit PROVE AskInv
<1>1. calls = {} /\ decisions = <<>> /\ sends = [a \in Asks |-> 0] /\ heard = [a \in Asks |-> NotTold] /\ mishaps = 0
      /\ saved = {} /\ cycle = Idle /\ emission = NoTurn
  BY DEF AskInit
<1>2. NotTold \in AnswerRow /\ NotTold.decision = 0 /\ NotTold.status = "nothing"
  BY DEF NotTold, AnswerRow, Statuses
<1>3. AskTyped
  <2>1. IsFiniteSet(calls)
    BY <1>1, FS_EmptySet
  <2>2. decisions \in Seq(DecisionRow)
    BY <1>1
  <2>3. sends \in [Asks -> 0..MaxSends] /\ heard \in [Asks -> AnswerRow] /\ mishaps \in 0..MaxAskFaults
    BY <1>1, <1>2, AskBounds
  <2>4. justified \subseteq Asks /\ present \subseteq Signers /\ calls \subseteq CallRow
    BY <1>1 DEF AskInit
  <2> QED BY <2>1, <2>2, <2>3, <2>4 DEF AskTyped
<1>4. /\ \A c \in calls : CallHolds(c)
      /\ \A a \in Asks : HeardHolds(a) /\ Awaited(a)
  BY <1>1, <1>2 DEF HeardHolds, Awaited
<1>5. CycleHolds
  <2>1. cycle \in CycleRow /\ cycle.at = "idle" /\ cycle.seen = {} /\ cycle.todo = {}
    BY <1>1 DEF Idle, CycleRow
  <2>2. Done = {}
    BY <1>1, <2>1 DEF Done
  <2> QED BY <1>1, <2>1, <2>2 DEF CycleHolds
<1>6. \A a : Weight(a) = 0
  <2>1. \A a : DecisionsOn(a) = {} /\ WillWrite(a) = {}
    BY <1>1 DEF DecisionsOn, WillWrite
  <2>2. Cardinality({}) = 0
    BY FS_EmptySet
  <2> QED BY <2>1, <2>2 DEF Weight
<1>7. CountHolds
  BY <1>1, <1>6, MentionsAssumption DEF CountHolds
<1>8. EmissionHolds
  <2>1. emission \in EmissionRow /\ emission.at = "none"
    BY <1>1 DEF NoTurn, EmissionRow
  <2> QED BY <2>1 DEF EmissionHolds
<1> QED BY <1>3, <1>4, <1>5, <1>7, <1>8 DEF AskInv

\* No step of an ask, a call, the bot, the turn or the room breaks it.
LEMMA AskGoesOn ==
  ASSUME AskInv, [AskNext]_askVars PROVE AskInv'
<1>1. CASE OwnNext
  BY <1>1, AskIsAsked, AskIsPolled, AskBasisChanges, OwnIsNoMention DEF OwnNext
<1>2. CASE BotNext
  BY <1>2, BotStarts, BotProposes, BotSkips, BotHasProposed, BotIsSaved, BotHasDied DEF BotNext
<1>3. CASE TurnNext
  BY <1>3, TurnRoutes, TurnRefuses, TurnRequests, TurnHears, TurnEnds DEF TurnNext
<1>4. CASE \E c \in calls : CallStep(c)
  BY <1>4, AskIsRefused, AskHasABasis, AskIsWritten, AskFindsPeople, AskIsAnswered, AskDies, AskIsEvaluated, AskTells DEF CallStep
<1>5. CASE AskedNext
  BY <1>4, <1>5, AskCloses, AskResolves, AskSignerJoins DEF AskedNext
<1>6. CASE UNCHANGED askVars
  <2>1. UNCHANGED <<calls, decisions, sends, heard, justified, present, cycle, saved, emission, mishaps>>
    BY <1>6 DEF askVars
  <2>2. EmissionHolds'
    BY <2>1, NoMishap, EmissionWaits
  <2> QED BY <2>1, <2>2, EmissionMoves
<1> QED BY <1>1, <1>2, <1>3, <1>5, <1>6 DEF AskNext

\* What the properties say follows from what is kept.
LEMMA AskersHear == ASSUME AskInv PROVE ProposalsHold
<1>1. AskersHearTheLog
  BY DEF AskersHearTheLog, AskInv, HeardHolds
<1>2. SignersWereTold
  <2>1. SUFFICES ASSUME NEW a \in Asks, heard[a].status = "CO_SIGN"
                 PROVE  decisions[heard[a].decision].toTell
                            \subseteq decisions[heard[a].decision].told \cup decisions[heard[a].decision].refusedForBudget
    BY DEF SignersWereTold
  <2> QED BY <2>1 DEF AskInv, HeardHolds
<1>3. MentionsAreProposed
  <2>1. \A m \in cycle.seen \cup saved : DecisionsOn(m) # {} \/ heard[m].status = "ALLOW"
    BY DEF AskInv, CycleHolds, Done
  <2>2. \A a \in Asks : Cardinality(DecisionsOn(a)) <= Weight(a) /\ Weight(a) \in Nat /\ Cardinality(DecisionsOn(a)) \in Nat
    BY WeightsAreNumbers DEF Weight, AskInv
  <2>3. \A a \in Asks : sends[a] \in Nat /\ Weight(a) <= sends[a]
    BY AskBounds DEF AskInv, CountHolds, AskTyped
  <2>4. \A m \in Mentions : m \in Asks /\ Weight(m) <= 1 + mishaps /\ mishaps \in Nat
    BY MentionsAssumption, MishapsAre DEF AskInv, CountHolds
  <2>5. \A m \in Mentions : Cardinality(DecisionsOn(m)) <= 1 + mishaps
    BY <2>2, <2>4
  <2>6. \A a \in Asks : Cardinality(DecisionsOn(a)) <= sends[a]
    BY <2>2, <2>3
  <2> QED BY <2>1, <2>5, <2>6 DEF MentionsAreProposed
<1>4. EmissionsAreRouted
  <2>1. SUFFICES ASSUME emission.at = "over", mishaps = 0
                 PROVE  /\ emission.asked + emission.malformed <= MAX_ACTIONS_PER_TURN
                        /\ emission.asked + emission.malformed = emission.over \/ emission.capped
    BY DEF EmissionsAreRouted
  <2>2. emission.left = <<>> /\ emission.asked + emission.malformed + Len(emission.left) = KeptOf(emission.over)
        /\ emission.capped = (emission.over > MAX_ACTIONS_PER_TURN)
    BY <2>1 DEF AskInv, EmissionHolds
  <2>3. Len(emission.left) = 0 /\ MAX_ACTIONS_PER_TURN \in Nat
    BY <2>2, EmissionsAssumption
  <2>4. emission.over > MAX_ACTIONS_PER_TURN => emission.capped
    BY <2>2, Zenon
  <2>5. emission.asked + emission.malformed = KeptOf(emission.over) /\ emission.over \in Nat
    BY <2>2, <2>3, TurnIs
  <2>6. CASE emission.over > MAX_ACTIONS_PER_TURN
    <3>1. emission.asked + emission.malformed <= MAX_ACTIONS_PER_TURN
      BY <2>3, <2>5, <2>6 DEF KeptOf
    <3> QED BY <2>4, <2>6, <3>1
  <2>7. CASE ~(emission.over > MAX_ACTIONS_PER_TURN)
    BY <2>3, <2>5, <2>7 DEF KeptOf
  <2> QED BY <2>6, <2>7
<1> QED BY <1>1, <1>2, <1>3, <1>4 DEF ProposalsHold

\* The invariant of the asks holds in every state.
LEMMA AskInvHolds == AskSpec => []AskInv
BY AskBegins, AskGoesOn, PTL DEF AskSpec

\* For any asks, verdicts, mentions, emissions and faults: an asker hears what the log says, the signers in the room were
\* interrupted or refused for the budget, a mention the bot has seen was proposed and is proposed again only for a fault, and
\* a turn's emissions are each asked, refused or over a cap the room is told of.
THEOREM ProposalsHoldHolds == AskSpec => []ProposalsHold
BY AskInvHolds, AskersHear, PTL

\* The types of the asks follow.
LEMMA AskTypes == ASSUME AskInv PROVE AskTypeOK
<1>1. \A a \in Asks : heard[a].decision \in 0..Len(decisions)
  <2>1. TAKE a \in Asks
  <2>2. heard[a].decision \in Nat /\ DOMAIN decisions = 1..Len(decisions) /\ Len(decisions) \in Nat
    BY DEF AskInv, AskTyped, AnswerRow
  <2>3. heard[a].decision # 0 => heard[a].decision \in DOMAIN decisions
    BY DEF AskInv, HeardHolds
  <2>4. PICK n : n = heard[a].decision
    OBVIOUS
  <2>5. PICK l : l = Len(decisions)
    OBVIOUS
  <2>6. n \in Nat /\ l \in Nat /\ (n # 0 => n \in 1..l)
    BY <2>2, <2>3, <2>4, <2>5
  <2>7. n \in 0..l
    BY ONLY <2>6
  <2> QED BY <2>4, <2>5, <2>7, Zenon
<1>2. \A d \in DOMAIN decisions : decisions[d].decision \in {"CO_SIGN", "BLOCK"}
  <2>1. \A d \in DOMAIN decisions : decisions[d] \in DecisionRow
    BY DEF AskInv, AskTyped
  <2> QED BY <2>1 DEF DecisionRow
<1>3. \A c \in calls : c.at \in {"door", "evaluate", "record", "people", "telling", "answer"}
  BY DEF AskInv, AskTyped, CallRow, Unwritten, Written
<1>4. saved \subseteq Mentions /\ emission.at \in {"none", "routing", "waiting", "over"}
  BY DEF AskInv, CycleHolds, EmissionHolds, EmissionRow
<1> QED BY <1>1, <1>2, <1>3, <1>4 DEF AskTypeOK, AskInv, AskTyped

-----------------------------------------------------------------------------
(* The windows of turns and the promotions. *)

\* Where a reader is, and the rows of the readers, the connections and the room.
WindowPlaces == {"briefing", "documents", "summary", "messages", "turns", "flatten", "shown"}
PromotePlaces == {"item", "insert", "append", "commitPromotion", "over"}
StorePlaces == {"connect", "role", "setting", "store", "commit"}
Checked == {"insert", "append", "commitPromotion"}
ReaderPlaces == WindowPlaces \cup PromotePlaces \cup StorePlaces \cup {"none", "failed"}
Principals == {PrincipalOf[u] : u \in Users} \cup {NoPrincipal}

PartsRow == [briefing : Nat, documents : SUBSET Nat, covers : Nat, messages : SUBSET Nat, turns : SUBSET Nat, own : SUBSET Nat,
             whose : Principals]
SinceRow == [said : Nat, done : Nat, documents : SUBSET Nat]
ReaderRow == [at : ReaderPlaces, parts : PartsRow, since : SinceRow]
ConnRow == [user : Users \cup {"nobody"}, role : {"owner", "restricted"}, principal : Principals]
RoomRow == [said : Nat, folded : Nat, done : Nat, briefing : Nat, briefings : Nat, documents : SUBSET Nat, given : Nat]

\* The types of the windows.
WindowTyped ==
    /\ room \in RoomRow /\ gone \in SUBSET Nat /\ items \in Seq(Notables)
    /\ conns \in [Conns -> ConnRow] /\ readers \in [Users -> ReaderRow]
    /\ happened \in 0..(MaxChanges + MaxWindowFaults)

\* The room folds what was said, and takes back what was given.
RoomHolds ==
    /\ room.folded <= room.said /\ room.done > 0
    /\ room.documents \cup gone \subseteq 1..room.given /\ room.documents \cap gone = {}

\* A connection is held at the places of a transaction, by one; restricted and named before the store is read; and free it is clean.
Holding == {"role", "setting", "store", "commit", "append", "commitPromotion"}

\* A connection is held at those places, restricted and named before the store is read, and is clean when it is free.
ConnHolds(c) ==
    /\ conns[c].user = "nobody" => conns[c] = Clean
    /\ conns[c].user # "nobody" => readers[conns[c].user].at \in Holding
    /\ conns[c].user # "nobody" /\ readers[conns[c].user].at \in {"setting", "store"} => conns[c].role = "restricted"
    /\ conns[c].user # "nobody" /\ readers[conns[c].user].at = "store" => conns[c].principal = PrincipalOf[conns[c].user]

\* Every connection is held by one at most, and every reader that is in a transaction holds one.
PoolHolds ==
    /\ \A c \in Conns : ConnHolds(c)
    /\ \A c, d \in Conns : conns[c].user = conns[d].user /\ conns[c].user # "nobody" => c = d
    /\ \A u \in Users : readers[u].at \in Holding => \E c \in Conns : conns[c].user = u

\* What was read of the store is the reader's own; a promotion reads its item only.
OwnHolds(u) ==
    /\ readers[u].parts.own \subseteq DOMAIN items
    /\ \A i \in readers[u].parts.own : items[i].of = PrincipalOf[u]
    /\ u \notin Turns => readers[u].parts.own \subseteq {ItemOf[u]}

\* A window is a turn's, a promotion a human's, and checked before it is inserted.
PlaceHolds(u) ==
    /\ readers[u].at \in WindowPlaces => u \in Turns
    /\ readers[u].at \in PromotePlaces => u \notin Turns
    /\ u \notin Turns /\ readers[u].at \notin {"none", "failed"} => u \in ByHuman
    /\ readers[u].at \in Checked => ItemOf[u] \in readers[u].parts.own /\ (u \in Verbatim \/ items[ItemOf[u]].short)

\* What was there when the window was started is read, or still to be read, or was taken back.
Assembling(u) == u \in Turns /\ readers[u].at \notin {"none", "failed"}

\* The places past the messages, and past the turns.
AfterMessages == StorePlaces \cup {"turns", "flatten", "shown"}
AfterTurns == StorePlaces \cup {"flatten", "shown"}

\* What was there since then, at a place, with the parts that were read.
SinceKept(u, at, p, since) ==
    /\ since.said <= room.said /\ since.done \in 1..room.done
    /\ since.documents \subseteq (IF at \in {"briefing", "documents"} THEN room.documents ELSE p.documents) \cup gone
    /\ at \in AfterMessages =>
          /\ \A m \in p.messages : m > p.covers
          /\ Cardinality(p.messages) = Limit \/ (p.covers + 1)..since.said \subseteq p.messages
    /\ at \in AfterTurns /\ u \in Rooted => since.done \in p.turns \/ Cardinality(p.turns) = RecentTurns

\* So it is of a window that is being assembled.
SinceHolds(u) == Assembling(u) => SinceKept(u, readers[u].at, readers[u].parts, readers[u].since)

\* A promotion that is in the room is of an item of its approver, who is human.
PromotedHolds ==
    /\ promoted = promotions
    /\ \A p \in promoted :
         /\ p.by \in ByHuman /\ p.item \in DOMAIN items /\ items[p.item].of = p.of
         /\ p.verbatim \/ items[p.item].short

\* What every state of the windows keeps.
WindowInv ==
    /\ WindowTyped
    /\ RoomHolds
    /\ PoolHolds
    /\ \A u \in Users : OwnHolds(u)
    /\ \A u \in Users : PlaceHolds(u)
    /\ \A u \in Users : SinceHolds(u)
    /\ PromotedHolds

\* The newest of an interval are as many as asked for, or all of it.
LEMMA NewestOfInterval ==
  ASSUME NEW a \in Nat, NEW b \in Nat, NEW n \in Nat \ {0}
  PROVE  LET w == Newest((a + 1)..b, n) IN w \subseteq (a + 1)..b /\ (Cardinality(w) = n \/ w = (a + 1)..b)
<1>1. PICK w : w = Newest((a + 1)..b, n)
  OBVIOUS
<1>2. PICK S : S = (a + 1)..b
  OBVIOUS
<1>3. w = {i \in S : Cardinality({j \in S : j > i}) < n}
  BY <1>1, <1>2 DEF Newest
<1>4. \A i \in S : Cardinality({j \in S : j > i}) = b - i
  <2>1. TAKE i \in S
  <2>2. i \in Int /\ i <= b /\ a + 1 <= i /\ b \in Int /\ i + 1 \in Int
    BY <1>2
  <2>3. {j \in S : j > i} = (i + 1)..b
    BY <1>2, <2>2
  <2>4. Cardinality((i + 1)..b) = IF i + 1 > b THEN 0 ELSE b - (i + 1) + 1
    BY <2>2, FS_Interval
  <2>5. Cardinality((i + 1)..b) = b - i
    BY <2>2, <2>4
  <2> QED BY <2>3, <2>5
<1>5. w = {i \in S : b - i < n}
  BY <1>3, <1>4
<1>6. CASE b - n <= a
  <2>1. \A i \in S : b - i < n
    BY <1>2, <1>6
  <2>2. w = S
    BY <1>5, <2>1
  <2> QED BY <1>1, <1>2, <2>2
<1>7. CASE ~(b - n <= a)
  <2>1. PICK lo \in Int : lo = b - n + 1
    OBVIOUS
  <2>2. w = lo..b
    BY <1>2, <1>5, <1>7, <2>1
  <2>3. Cardinality(lo..b) = IF lo > b THEN 0 ELSE b - lo + 1
    BY <2>1, FS_Interval
  <2>4. Cardinality(lo..b) = n
    BY <2>1, <2>3
  <2> QED BY <1>1, <1>2, <1>5, <2>2, <2>4
<1> QED BY <1>6, <1>7

\* A reader is where it is, with what it read.
LEMMA ReaderIs ==
  ASSUME WindowInv, NEW u \in Users
  PROVE  /\ readers[u] \in ReaderRow /\ readers[u].parts \in PartsRow /\ readers[u].since \in SinceRow /\ readers[u].at \in ReaderPlaces
         /\ OwnHolds(u) /\ PlaceHolds(u) /\ SinceHolds(u)
<1>1. readers[u] \in ReaderRow
  BY DEF WindowInv, WindowTyped
<1>2. readers[u].parts \in PartsRow /\ readers[u].since \in SinceRow /\ readers[u].at \in ReaderPlaces
  BY <1>1 DEF ReaderRow
<1> QED BY <1>1, <1>2 DEF WindowInv

\* One reader goes on, the room stands still.
ReaderGoes(u, r) ==
    /\ r \in ReaderRow /\ readers' = [readers EXCEPT ![u] = r]
    /\ UNCHANGED <<room, gone, items>>

\* A reader that goes on, alone, leaves the others as they were.
LEMMA ReaderMoves ==
  ASSUME WindowInv, NEW u \in Users, NEW r, ReaderGoes(u, r), happened' \in 0..(MaxChanges + MaxWindowFaults),
         conns' \in [Conns -> ConnRow], PoolHolds', OwnHolds(u)', PlaceHolds(u)', SinceHolds(u)', PromotedHolds'
  PROVE  WindowInv'
<1>1. readers \in [Users -> ReaderRow] /\ readers' = [readers EXCEPT ![u] = r] /\ r \in ReaderRow /\ UNCHANGED <<room, gone, items>>
  BY DEF WindowInv, WindowTyped, ReaderGoes
<1>2. readers' \in [Users -> ReaderRow] /\ readers'[u] = r /\ \A v \in Users : v # u => readers'[v] = readers[v]
  BY <1>1
<1>3. WindowTyped'
  BY <1>1, <1>2 DEF WindowInv, WindowTyped
<1>4. RoomHolds'
  BY <1>1 DEF WindowInv, RoomHolds
<1>5. \A v \in Users : v # u => OwnHolds(v)' /\ PlaceHolds(v)' /\ SinceHolds(v)'
  <2>1. TAKE v \in Users
  <2>2. HAVE v # u
  <2>3. readers'[v] = readers[v] /\ OwnHolds(v) /\ PlaceHolds(v) /\ SinceHolds(v)
    BY <1>2, <2>2, ReaderIs
  <2>4. OwnHolds(v)'
    BY <1>1, <2>3 DEF OwnHolds
  <2>5. PlaceHolds(v)'
    BY <1>1, <2>3 DEF PlaceHolds
  <2>6. SinceHolds(v)'
    BY <1>1, <2>3 DEF SinceHolds, SinceKept, Assembling
  <2> QED BY <2>4, <2>5, <2>6
<1> QED BY <1>3, <1>4, <1>5 DEF WindowInv

\* No connection moves.
LEMMA PoolWaits ==
  ASSUME WindowInv, NEW u \in Users, NEW r, ReaderGoes(u, r), conns' = conns, r.at \notin {"setting", "store"},
         r.at \in Holding <=> readers[u].at \in Holding
  PROVE  conns' \in [Conns -> ConnRow] /\ PoolHolds'
<1>1. /\ conns \in [Conns -> ConnRow] /\ readers'[u] = r /\ \A v \in Users : v # u => readers'[v] = readers[v]
  BY DEF WindowInv, WindowTyped, ReaderGoes
<1>2. \A c \in Conns : ConnHolds(c)'
  <2>1. TAKE c \in Conns
  <2>2. ConnHolds(c) /\ (conns[c].user # "nobody" => conns[c].user \in Users)
    BY <1>1 DEF WindowInv, PoolHolds, ConnRow
  <2> QED BY <1>1, <2>2 DEF ConnHolds
<1>3. \A v \in Users : readers'[v].at \in Holding => \E c \in Conns : conns'[c].user = v
  BY <1>1 DEF WindowInv, PoolHolds
<1> QED BY <1>1, <1>2, <1>3 DEF WindowInv, PoolHolds

\* A free connection is taken.
LEMMA PoolGives ==
  ASSUME WindowInv, NEW u \in Users, NEW r, ReaderGoes(u, r), NEW c \in Free, conns' = [conns EXCEPT ![c].user = u],
         r.at \in {"role", "append"}, readers[u].at \notin Holding
  PROVE  conns' \in [Conns -> ConnRow] /\ PoolHolds'
<1>1. /\ conns \in [Conns -> ConnRow] /\ readers'[u] = r /\ \A v \in Users : v # u => readers'[v] = readers[v]
  BY DEF WindowInv, WindowTyped, ReaderGoes
<1>2. c \in Conns /\ conns[c].user = "nobody"
  BY DEF Free
<1>3. PICK k : k = [conns[c] EXCEPT !.user = u]
  OBVIOUS
<1>4. k \in ConnRow /\ k.user = u
  <2>1. conns[c] \in ConnRow
    BY <1>1, <1>2
  <2> QED BY <1>3, <2>1 DEF ConnRow
<1>5. conns' = [conns EXCEPT ![c] = k]
  BY <1>3
<1>6. conns' \in [Conns -> ConnRow] /\ conns'[c] = k /\ \A d \in Conns : d # c => conns'[d] = conns[d]
  BY <1>1, <1>2, <1>4, <1>5
<1>7. u # "nobody"
  BY UsersAssumption
<1>8. \A d \in Conns : conns[d].user # u
  BY <1>7 DEF WindowInv, PoolHolds, ConnHolds
<1>9. r.at \in Holding /\ r.at \notin {"setting", "store"}
  BY DEF Holding
<1>10. \A d \in Conns : ConnHolds(d)'
  <2>1. TAKE d \in Conns
  <2>2. CASE d = c
    BY <1>1, <1>4, <1>6, <1>7, <1>9, <2>2 DEF ConnHolds
  <2>3. CASE d # c
    <3>1. ConnHolds(d) /\ conns'[d] = conns[d] /\ conns[d].user # u /\ (conns[d].user # "nobody" => conns[d].user \in Users)
      BY <1>1, <1>6, <1>8, <2>3 DEF WindowInv, PoolHolds, ConnRow
    <3> QED BY <1>1, <3>1 DEF ConnHolds
  <2> QED BY <2>2, <2>3
<1>11. \A d, e \in Conns : conns'[d].user = conns'[e].user /\ conns'[d].user # "nobody" => d = e
  BY <1>4, <1>6, <1>8 DEF WindowInv, PoolHolds
<1>12. \A v \in Users : readers'[v].at \in Holding => \E d \in Conns : conns'[d].user = v
  <2>1. TAKE v \in Users
  <2>2. HAVE readers'[v].at \in Holding
  <2>3. CASE v = u
    BY <1>2, <1>4, <1>6, <2>3
  <2>4. CASE v # u
    <3>1. PICK d \in Conns : conns[d].user = v
      BY <1>1, <2>2, <2>4 DEF WindowInv, PoolHolds
    <3>2. d # c
      BY <1>2, <3>1, UsersAssumption
    <3> QED BY <1>6, <3>1, <3>2
  <2> QED BY <2>3, <2>4
<1> QED BY <1>6, <1>10, <1>11, <1>12 DEF PoolHolds

\* The connection a reader holds is the only one.
LEMMA HeldIsOne ==
  ASSUME WindowInv, NEW u \in Users, readers[u].at \in Holding
  PROVE  Held(u) \in Conns /\ conns[Held(u)].user = u /\ \A c \in Conns : conns[c].user = u => c = Held(u)
<1>1. \E c \in Conns : conns[c].user = u
  BY DEF WindowInv, PoolHolds
<1>2. Held(u) \in Conns /\ conns[Held(u)].user = u
  BY <1>1, Zenon DEF Held
<1>3. u # "nobody"
  BY UsersAssumption
<1> QED BY <1>2, <1>3 DEF WindowInv, PoolHolds

\* The connection that is held is set.
LEMMA PoolServes ==
  ASSUME WindowInv, NEW u \in Users, NEW r, ReaderGoes(u, r), readers[u].at \in Holding, r.at \in Holding, NEW k \in ConnRow, k.user = u,
         NEW h, h = Held(u), conns' = [conns EXCEPT ![h] = k], k.role = "restricted", r.at = "store" => k.principal = PrincipalOf[u]
  PROVE  conns' \in [Conns -> ConnRow] /\ PoolHolds'
<1>1. /\ conns \in [Conns -> ConnRow] /\ readers'[u] = r /\ \A v \in Users : v # u => readers'[v] = readers[v]
  BY DEF WindowInv, WindowTyped, ReaderGoes
<1>2. h \in Conns /\ conns[h].user = u /\ \A c \in Conns : conns[c].user = u => c = h
  BY HeldIsOne
<1>3. conns' \in [Conns -> ConnRow] /\ conns'[h] = k /\ \A d \in Conns : d # h => conns'[d] = conns[d]
  BY <1>1, <1>2
<1>4. u # "nobody"
  BY UsersAssumption
<1>5. \A d \in Conns : ConnHolds(d)'
  <2>1. TAKE d \in Conns
  <2>2. CASE d = h
    BY <1>1, <1>3, <1>4, <2>2 DEF ConnHolds
  <2>3. CASE d # h
    <3>1. ConnHolds(d) /\ conns'[d] = conns[d] /\ conns[d].user # u /\ (conns[d].user # "nobody" => conns[d].user \in Users)
      BY <1>1, <1>2, <1>3, <2>3 DEF WindowInv, PoolHolds, ConnRow
    <3> QED BY <1>1, <3>1 DEF ConnHolds
  <2> QED BY <2>2, <2>3
<1>6. \A d \in Conns : conns'[d].user = conns[d].user
  BY <1>2, <1>3
<1>7. \A v \in Users : readers'[v].at \in Holding => \E d \in Conns : conns'[d].user = v
  BY <1>1, <1>6 DEF WindowInv, PoolHolds
<1> QED BY <1>3, <1>5, <1>6, <1>7 DEF WindowInv, PoolHolds

\* What a reader holds is given back, clean.
LEMMA PoolTakesBack ==
  ASSUME WindowInv, NEW u \in Users, NEW r, ReaderGoes(u, r), r.at \notin Holding,
         conns' = [c \in Conns |-> IF conns[c].user = u THEN Clean ELSE conns[c]]
  PROVE  conns' \in [Conns -> ConnRow] /\ PoolHolds'
<1>1. /\ conns \in [Conns -> ConnRow] /\ readers'[u] = r /\ \A v \in Users : v # u => readers'[v] = readers[v]
  BY DEF WindowInv, WindowTyped, ReaderGoes
<1>2. Clean \in ConnRow /\ Clean.user = "nobody"
  BY DEF Clean, ConnRow, Principals
<1>3. conns' \in [Conns -> ConnRow] /\ \A c \in Conns : conns'[c] = IF conns[c].user = u THEN Clean ELSE conns[c]
  BY <1>1, <1>2
<1>4. u # "nobody"
  BY UsersAssumption
<1>5. \A c \in Conns : ConnHolds(c)'
  <2>1. TAKE c \in Conns
  <2>2. CASE conns[c].user = u
    BY <1>2, <1>3, <2>2 DEF ConnHolds
  <2>3. CASE conns[c].user # u
    <3>1. ConnHolds(c) /\ conns'[c] = conns[c] /\ (conns[c].user # "nobody" => conns[c].user \in Users)
      BY <1>1, <1>3, <2>3 DEF WindowInv, PoolHolds, ConnRow
    <3> QED BY <1>1, <2>3, <3>1 DEF ConnHolds
  <2> QED BY <2>2, <2>3
<1>6. \A c, d \in Conns : conns'[c].user = conns'[d].user /\ conns'[c].user # "nobody" => c = d
  BY <1>2, <1>3 DEF WindowInv, PoolHolds
<1>7. \A v \in Users : readers'[v].at \in Holding => \E c \in Conns : conns'[c].user = v
  <2>1. TAKE v \in Users
  <2>2. HAVE readers'[v].at \in Holding
  <2>3. v # u
    BY <1>1, <2>2
  <2>4. PICK c \in Conns : conns[c].user = v
    BY <1>1, <2>2, <2>3 DEF WindowInv, PoolHolds
  <2> QED BY <1>3, <2>3, <2>4
<1> QED BY <1>3, <1>5, <1>6, <1>7 DEF PoolHolds

\* Where no connection and nothing promoted moves.
LEMMA ReaderWalks ==
  ASSUME WindowInv, NEW u \in Users, NEW r, ReaderGoes(u, r), UNCHANGED <<conns, promoted, promotions, happened>>,
         r.at \notin {"setting", "store"}, r.at \in Holding <=> readers[u].at \in Holding, OwnHolds(u)', PlaceHolds(u)', SinceHolds(u)'
  PROVE  WindowInv'
<1>1. conns' \in [Conns -> ConnRow] /\ PoolHolds'
  BY PoolWaits
<1>2. happened' \in 0..(MaxChanges + MaxWindowFaults)
  BY DEF WindowInv, WindowTyped
<1>3. PromotedHolds'
  BY DEF WindowInv, PromotedHolds, ReaderGoes
<1> QED BY <1>1, <1>2, <1>3, ReaderMoves

\* A reader that goes on with what it has of the store in hand has the same.
LEMMA OwnStays ==
  ASSUME WindowInv, NEW u \in Users, NEW r, ReaderGoes(u, r), r.parts.own = readers[u].parts.own
  PROVE  OwnHolds(u)'
<1>1. readers'[u] = r /\ items' = items /\ OwnHolds(u)
  BY DEF WindowInv, WindowTyped, ReaderGoes
<1> QED BY <1>1 DEF OwnHolds

\* A part of a window is read from the room.
LEMMA PartIsRead ==
  ASSUME WindowInv, NEW u \in Users, NEW place \in {"briefing", "documents", "summary", "messages", "turns"},
         NEW next \in {"documents", "summary", "messages", "turns", "connect"}, NEW parts \in PartsRow, Reads(u, place, next, parts),
         parts.own = readers[u].parts.own, SinceKept(u, next, parts, readers[u].since)
  PROVE  WindowInv'
<1>1. /\ readers[u] \in ReaderRow /\ readers[u].at = place /\ PlaceHolds(u) /\ SinceHolds(u)
  BY ReaderIs DEF Reads, At
<1>2. u \in Turns
  BY <1>1 DEF PlaceHolds, WindowPlaces
<1>3. PICK r : r = [readers[u] EXCEPT !.at = next, !.parts = parts]
  OBVIOUS
<1>4. r \in ReaderRow /\ r.at = next /\ r.parts = parts /\ r.since = readers[u].since
  BY <1>1, <1>3 DEF ReaderRow, ReaderPlaces, WindowPlaces, StorePlaces
<1>5. readers \in [Users -> ReaderRow]
  BY DEF WindowInv, WindowTyped
<1>6. readers' = [readers EXCEPT ![u] = r] /\ UNCHANGED <<room, gone, items, conns, promoted, promotions, happened>>
  BY <1>3, <1>5 DEF Reads
<1>7. ReaderGoes(u, r) /\ readers'[u] = r
  BY <1>4, <1>5, <1>6 DEF ReaderGoes
<1>8. r.at \notin {"setting", "store"} /\ r.at \notin Holding /\ readers[u].at \notin Holding
  BY <1>1, <1>4 DEF Holding
<1>9. PlaceHolds(u)'
  BY <1>2, <1>4, <1>7 DEF PlaceHolds, PromotePlaces, Checked
<1>10. SinceHolds(u)'
  BY <1>4, <1>6, <1>7 DEF SinceHolds, SinceKept
<1> QED BY <1>4, <1>6, <1>7, <1>8, <1>9, <1>10, OwnStays, ReaderWalks

\* What is known where a part is to be read.
LEMMA WhereAWindowIs ==
  ASSUME WindowInv, NEW u \in Users, readers[u].at \in WindowPlaces
  PROVE  /\ u \in Turns /\ readers[u].parts \in PartsRow /\ SinceKept(u, readers[u].at, readers[u].parts, readers[u].since)
         /\ readers[u].since.said \in Nat /\ readers[u].since.done \in Nat
         /\ room \in RoomRow /\ room.folded \in Nat /\ room.said \in Nat /\ room.done \in Nat /\ room.folded <= room.said
<1>1. /\ u \in Turns /\ readers[u].parts \in PartsRow /\ SinceHolds(u) /\ readers[u].at \notin {"none", "failed"} /\ readers[u].since \in SinceRow
  BY ReaderIs DEF PlaceHolds, WindowPlaces
<1>2. room \in RoomRow /\ room.folded <= room.said
  BY DEF WindowInv, WindowTyped, RoomHolds
<1>3. room.folded \in Nat /\ room.said \in Nat /\ room.done \in Nat
  BY <1>2 DEF RoomRow
<1>4. readers[u].since.said \in Nat /\ readers[u].since.done \in Nat
  BY <1>1 DEF SinceRow
<1> QED BY <1>1, <1>2, <1>3, <1>4 DEF SinceHolds, Assembling

\* The briefing is read.
LEMMA BriefingIsRead ==
  ASSUME WindowInv, NEW u \in Users, ReadBriefing(u) PROVE WindowInv'
<1>1. readers[u].at = "briefing"
  BY DEF ReadBriefing, Reads, At
<1>2. readers[u].parts \in PartsRow /\ SinceKept(u, "briefing", readers[u].parts, readers[u].since) /\ room \in RoomRow
  BY <1>1, WhereAWindowIs DEF WindowPlaces
<1>3. room.briefing \in Nat
  BY <1>2 DEF RoomRow
<1>4. PICK parts : parts = [readers[u].parts EXCEPT !.briefing = room.briefing]
  OBVIOUS
<1>5. parts \in PartsRow /\ parts.own = readers[u].parts.own
  BY <1>2, <1>3, <1>4 DEF PartsRow
<1>6. SinceKept(u, "documents", parts, readers[u].since)
  BY <1>2 DEF SinceKept, AfterMessages, AfterTurns, StorePlaces
<1>7. Reads(u, "briefing", "documents", parts)
  BY <1>4 DEF ReadBriefing
<1> QED BY <1>5, <1>6, <1>7, PartIsRead

\* So are the documents.
LEMMA DocumentsAreRead ==
  ASSUME WindowInv, NEW u \in Users, ReadDocuments(u) PROVE WindowInv'
<1>1. readers[u].at = "documents"
  BY DEF ReadDocuments, Reads, At
<1>2. readers[u].parts \in PartsRow /\ SinceKept(u, "documents", readers[u].parts, readers[u].since) /\ room \in RoomRow
  BY <1>1, WhereAWindowIs DEF WindowPlaces
<1>3. room.documents \in SUBSET Nat
  BY <1>2 DEF RoomRow
<1>4. PICK parts : parts = [readers[u].parts EXCEPT !.documents = room.documents]
  OBVIOUS
<1>5. parts \in PartsRow /\ parts.own = readers[u].parts.own /\ parts.documents = room.documents
  BY <1>2, <1>3, <1>4 DEF PartsRow
<1>6. SinceKept(u, "summary", parts, readers[u].since)
  BY <1>2, <1>5 DEF SinceKept, AfterMessages, AfterTurns, StorePlaces
<1>7. Reads(u, "documents", "summary", parts)
  BY <1>4 DEF ReadDocuments
<1> QED BY <1>5, <1>6, <1>7, PartIsRead

\* So is the summary.
LEMMA SummaryIsRead ==
  ASSUME WindowInv, NEW u \in Users, ReadSummary(u) PROVE WindowInv'
<1>1. readers[u].at = "summary"
  BY DEF ReadSummary, Reads, At
<1>2. readers[u].parts \in PartsRow /\ SinceKept(u, "summary", readers[u].parts, readers[u].since) /\ room.folded \in Nat
  BY <1>1, WhereAWindowIs DEF WindowPlaces
<1>3. PICK parts : parts = [readers[u].parts EXCEPT !.covers = room.folded]
  OBVIOUS
<1>4. parts \in PartsRow /\ parts.own = readers[u].parts.own /\ parts.documents = readers[u].parts.documents
  BY <1>2, <1>3 DEF PartsRow
<1>5. SinceKept(u, "messages", parts, readers[u].since)
  BY <1>2, <1>4 DEF SinceKept, AfterMessages, AfterTurns, StorePlaces
<1>6. Reads(u, "summary", "messages", parts)
  BY <1>3 DEF ReadSummary
<1> QED BY <1>4, <1>5, <1>6, PartIsRead

\* Whatever was folded since, the floor is the summary in hand.
LEMMA MessagesAreRead ==
  ASSUME WindowInv, NEW u \in Users, ReadMessages(u) PROVE WindowInv'
<1>1. readers[u].at = "messages"
  BY DEF ReadMessages, Reads, At
<1>2. PICK p : p = readers[u].parts
  OBVIOUS
<1>3. /\ p \in PartsRow /\ SinceKept(u, "messages", p, readers[u].since) /\ room.said \in Nat
      /\ readers[u].since.said \in Nat /\ readers[u].since.said <= room.said
  BY <1>1, <1>2, WhereAWindowIs DEF WindowPlaces, SinceKept
<1>4. PICK floor \in Nat : floor = p.covers
  BY <1>3 DEF PartsRow
<1>5. PICK window : window = Newest((floor + 1)..room.said, Limit)
  OBVIOUS
<1>6. window \subseteq (floor + 1)..room.said /\ (Cardinality(window) = Limit \/ window = (floor + 1)..room.said)
  BY <1>3, <1>5, NewestOfInterval, WindowAssumption
<1>7. window \in SUBSET Nat /\ \A m \in window : m > floor
  BY <1>3, <1>6
<1>8. PICK parts : parts = [p EXCEPT !.messages = window]
  OBVIOUS
<1>9. /\ parts \in PartsRow /\ parts.own = p.own /\ parts.documents = p.documents /\ parts.messages = window
      /\ parts.covers = floor
  BY <1>3, <1>4, <1>7, <1>8 DEF PartsRow
<1>10. PICK next : next = IF u \in Rooted THEN "turns" ELSE "connect"
  OBVIOUS
<1>11. next \in {"turns", "connect"} /\ (u \in Rooted => next = "turns")
  BY <1>10
<1>12. SinceKept(u, next, parts, readers[u].since)
  <2>1. Cardinality(window) = Limit \/ (floor + 1)..readers[u].since.said \subseteq window
    BY <1>3, <1>6
  <2>2. ~(next \in AfterTurns /\ u \in Rooted) /\ next \notin {"briefing", "documents"}
    BY <1>11 DEF AfterTurns, StorePlaces
  <2>3. \A m \in parts.messages : m > parts.covers
    BY <1>7, <1>9
  <2>4. Cardinality(parts.messages) = Limit \/ (parts.covers + 1)..readers[u].since.said \subseteq parts.messages
    BY <1>9, <2>1
  <2> QED BY <1>3, <1>9, <2>2, <2>3, <2>4 DEF SinceKept
<1>13. Reads(u, "messages", next, parts)
  BY <1>2, <1>4, <1>5, <1>8, <1>10 DEF ReadMessages, FloorInHand
<1> QED BY <1>2, <1>9, <1>11, <1>12, <1>13, PartIsRead

\* So are the turns.
LEMMA TurnsAreRead ==
  ASSUME WindowInv, NEW u \in Users, ReadTurns(u) PROVE WindowInv'
<1>1. readers[u].at = "turns"
  BY DEF ReadTurns, Reads, At
<1>2. PICK p : p = readers[u].parts
  OBVIOUS
<1>3. /\ p \in PartsRow /\ SinceKept(u, "turns", p, readers[u].since) /\ room.done \in Nat
      /\ readers[u].since.done \in 1..room.done
  BY <1>1, <1>2, WhereAWindowIs DEF WindowPlaces, SinceKept
<1>4. PICK window : window = Newest(1..room.done, RecentTurns)
  OBVIOUS
<1>5. window \subseteq 1..room.done /\ (Cardinality(window) = RecentTurns \/ window = 1..room.done)
  <2>1. RecentTurns \in Nat \ {0} /\ 0 \in Nat /\ 0 + 1 = 1
    BY WindowAssumption
  <2>2. PICK b \in Nat : b = room.done
    BY <1>3
  <2>3. window = Newest((0 + 1)..b, RecentTurns)
    BY <1>4, <2>1, <2>2
  <2>4. window \subseteq (0 + 1)..b /\ (Cardinality(window) = RecentTurns \/ window = (0 + 1)..b)
    BY <2>1, <2>3, NewestOfInterval
  <2> QED BY <2>1, <2>2, <2>4
<1>6. window \in SUBSET Nat
  BY <1>3, <1>5
<1>7. PICK parts : parts = [p EXCEPT !.turns = window]
  OBVIOUS
<1>8. /\ parts \in PartsRow /\ parts.own = p.own /\ parts.documents = p.documents /\ parts.messages = p.messages
      /\ parts.covers = p.covers /\ parts.turns = window
  BY <1>3, <1>6, <1>7 DEF PartsRow
<1>9. SinceKept(u, "connect", parts, readers[u].since)
  BY <1>3, <1>5, <1>8 DEF SinceKept, AfterMessages, AfterTurns, StorePlaces
<1>10. Reads(u, "turns", "connect", parts)
  BY <1>2, <1>4, <1>7 DEF ReadTurns
<1> QED BY <1>2, <1>8, <1>9, <1>10, PartIsRead

\* A window is started with the room as it is.
LEMMA WindowIsStarted ==
  ASSUME WindowInv, NEW u \in Users, StartWindow(u) PROVE WindowInv'
<1>1. u \in Turns /\ readers[u].at = "none" /\ readers \in [Users -> ReaderRow]
  BY DEF StartWindow, At, WindowInv, WindowTyped
<1>2. room \in RoomRow /\ room.done > 0
  BY DEF WindowInv, WindowTyped, RoomHolds
<1>3. PICK since : since = [said |-> room.said, done |-> room.done, documents |-> room.documents]
  OBVIOUS
<1>4. since \in SinceRow /\ since.said = room.said /\ since.done = room.done /\ since.documents = room.documents
  BY <1>2, <1>3 DEF RoomRow, SinceRow
<1>5. NoParts \in PartsRow /\ NoParts.own = {}
  BY DEF NoParts, PartsRow, Principals
<1>6. PICK r : r = [NoReader EXCEPT !.at = "briefing", !.since = since]
  OBVIOUS
<1>7. r \in ReaderRow /\ r.at = "briefing" /\ r.parts = NoParts /\ r.since = since
  BY <1>4, <1>5, <1>6 DEF NoReader, ReaderRow, ReaderPlaces, WindowPlaces
<1>8. readers' = [readers EXCEPT ![u] = r] /\ UNCHANGED <<room, gone, items, conns, promoted, promotions, happened>>
  BY <1>3, <1>6 DEF StartWindow
<1>9. ReaderGoes(u, r) /\ readers'[u] = r
  BY <1>1, <1>7, <1>8 DEF ReaderGoes
<1>10. r.at \notin {"setting", "store"} /\ r.at \notin Holding /\ readers[u].at \notin Holding
  BY <1>1, <1>7 DEF Holding
<1>11. OwnHolds(u)'
  BY <1>5, <1>7, <1>9 DEF OwnHolds
<1>12. PlaceHolds(u)'
  BY <1>1, <1>7, <1>9 DEF PlaceHolds, PromotePlaces, Checked
<1>13. SinceHolds(u)'
  <2>1. room.done \in Nat /\ room.said \in Nat /\ room.done \in 1..room.done
    BY <1>2 DEF RoomRow
  <2>2. SinceKept(u, r.at, r.parts, r.since)
    BY <1>4, <1>7, <2>1 DEF SinceKept, AfterMessages, AfterTurns, StorePlaces
  <2> QED BY <1>8, <1>9, <2>2 DEF SinceHolds, SinceKept
<1> QED BY <1>8, <1>9, <1>10, <1>11, <1>12, <1>13, ReaderWalks

\* A reader that goes from place to place keeps what it read.
LEMMA PlaceGoes ==
  ASSUME WindowInv, NEW u \in Users, NEW next \in ReaderPlaces, GoesTo(u, next), UNCHANGED <<room, gone, items>>,
         next = "failed" \/ u \notin Turns \/ (readers[u].at \in AfterTurns /\ next \in AfterTurns)
  PROVE  \E r : /\ ReaderGoes(u, r) /\ r.at = next /\ r.parts = readers[u].parts
                /\ readers'[u] = r /\ OwnHolds(u)' /\ SinceHolds(u)'
<1>1. readers \in [Users -> ReaderRow] /\ readers[u] \in ReaderRow
  BY ReaderIs DEF WindowInv, WindowTyped
<1>2. PICK r : r = [readers[u] EXCEPT !.at = next]
  OBVIOUS
<1>3. r \in ReaderRow /\ r.at = next /\ r.parts = readers[u].parts /\ r.since = readers[u].since
  BY <1>1, <1>2 DEF ReaderRow
<1>4. readers' = [readers EXCEPT ![u] = r]
  BY <1>1, <1>2 DEF GoesTo
<1>5. ReaderGoes(u, r) /\ readers'[u] = r
  BY <1>1, <1>3, <1>4 DEF ReaderGoes
<1>6. OwnHolds(u)'
  BY <1>3, <1>5, OwnStays
<1>7. SinceHolds(u)'
  <2>1. SUFFICES ASSUME u \in Turns, next \notin {"none", "failed"} PROVE SinceKept(u, r.at, r.parts, r.since)'
    BY <1>3, <1>5 DEF SinceHolds, Assembling
  <2>2. readers[u].at \in AfterTurns /\ next \in AfterTurns /\ readers[u].at \notin {"none", "failed"}
    BY <2>1 DEF AfterTurns, StorePlaces
  <2>3. SinceKept(u, readers[u].at, readers[u].parts, readers[u].since)
    BY <2>1, <2>2, ReaderIs DEF SinceHolds, Assembling
  <2>4. readers[u].at \in AfterMessages /\ readers[u].at \notin {"briefing", "documents"} /\ next \in AfterMessages
        /\ next \notin {"briefing", "documents"}
    BY <2>2 DEF AfterTurns, AfterMessages, StorePlaces
  <2> QED BY <1>3, <2>2, <2>3, <2>4 DEF SinceKept
<1> QED BY <1>3, <1>5, <1>6, <1>7

\* windowFor lets the window through, or throws.
LEMMA WindowIsFlattened ==
  ASSUME WindowInv, NEW u \in Users, Flatten(u) PROVE WindowInv'
<1>1. u \in Turns /\ readers[u].at = "flatten"
  BY DEF Flatten, At
<1>2. PICK next : next = IF readers[u].parts.own = {} \/ readers[u].parts.whose = PrincipalOf[u] THEN "shown" ELSE "failed"
  OBVIOUS
<1>3. next \in {"shown", "failed"} /\ next \in ReaderPlaces
  BY <1>2 DEF ReaderPlaces, WindowPlaces
<1>4. GoesTo(u, next) /\ UNCHANGED <<room, gone, items, conns, promoted, promotions, happened>>
  BY <1>2 DEF Flatten
<1>5. next = "failed" \/ (readers[u].at \in AfterTurns /\ next \in AfterTurns)
  BY <1>1, <1>3 DEF AfterTurns
<1>6. PICK r : /\ ReaderGoes(u, r) /\ r.at = next /\ r.parts = readers[u].parts /\ readers'[u] = r /\ OwnHolds(u)' /\ SinceHolds(u)'
  BY <1>3, <1>4, <1>5, PlaceGoes
<1>7. r.at \notin {"setting", "store"} /\ r.at \notin Holding /\ readers[u].at \notin Holding
  BY <1>1, <1>3, <1>6 DEF Holding
<1>8. PlaceHolds(u)'
  BY <1>1, <1>3, <1>6 DEF PlaceHolds, PromotePlaces, Checked
<1> QED BY <1>4, <1>6, <1>7, <1>8, ReaderWalks

\* Only a human's promotion is begun.
LEMMA PromotionIsStarted ==
  ASSUME WindowInv, NEW u \in Users, StartPromote(u) PROVE WindowInv'
<1>1. u \in Promotes /\ u \notin Turns /\ readers[u].at = "none" /\ readers \in [Users -> ReaderRow] /\ readers[u] \in ReaderRow
  BY UsersAssumption, ReaderIs DEF StartPromote, At, WindowInv, WindowTyped
<1>2. PICK next : next = IF u \in ByHuman THEN "connect" ELSE "failed"
  OBVIOUS
<1>3. next \in {"connect", "failed"} /\ next \in ReaderPlaces /\ (next = "connect" => u \in ByHuman)
  BY <1>2 DEF ReaderPlaces, StorePlaces
<1>4. GoesTo(u, next) /\ UNCHANGED <<room, gone, items, conns, promoted, promotions, happened>>
  BY <1>2 DEF StartPromote, GoesTo
<1>5. PICK r : /\ ReaderGoes(u, r) /\ r.at = next /\ r.parts = readers[u].parts /\ readers'[u] = r /\ OwnHolds(u)' /\ SinceHolds(u)'
  BY <1>1, <1>3, <1>4, PlaceGoes
<1>6. r.at \notin {"setting", "store"} /\ r.at \notin Holding /\ readers[u].at \notin Holding
  BY <1>1, <1>3, <1>5 DEF Holding
<1>7. PlaceHolds(u)'
  BY <1>1, <1>3, <1>5 DEF PlaceHolds, WindowPlaces, PromotePlaces, Checked
<1> QED BY <1>4, <1>5, <1>6, <1>7, ReaderWalks

\* What is to be promoted is of the own store, and has what is promoted of it.
LEMMA ItemIsChecked ==
  ASSUME WindowInv, NEW u \in Users, CheckItem(u) PROVE WindowInv'
<1>1. readers[u].at = "item" /\ PlaceHolds(u) /\ OwnHolds(u)
  BY ReaderIs DEF CheckItem, At
<1>2. u \notin Turns /\ u \in ByHuman /\ readers[u].parts.own \subseteq {ItemOf[u]}
  BY <1>1 DEF PlaceHolds, PromotePlaces, OwnHolds
<1>3. PICK next : next = IF readers[u].parts.own # {} /\ (u \in Verbatim \/ items[ItemOf[u]].short) THEN "insert" ELSE "failed"
  OBVIOUS
<1>4. next \in {"insert", "failed"} /\ next \in ReaderPlaces
  BY <1>3 DEF ReaderPlaces, PromotePlaces
<1>5. next = "insert" => ItemOf[u] \in readers[u].parts.own /\ (u \in Verbatim \/ items[ItemOf[u]].short)
  BY <1>2, <1>3
<1>6. GoesTo(u, next) /\ UNCHANGED <<room, gone, items, conns, promoted, promotions, happened>>
  BY <1>3 DEF CheckItem
<1>7. PICK r : /\ ReaderGoes(u, r) /\ r.at = next /\ r.parts = readers[u].parts /\ readers'[u] = r /\ OwnHolds(u)' /\ SinceHolds(u)'
  BY <1>2, <1>4, <1>6, PlaceGoes
<1>8. r.at \notin {"setting", "store"} /\ r.at \notin Holding /\ readers[u].at \notin Holding
  BY <1>1, <1>4, <1>7 DEF Holding
<1>9. PlaceHolds(u)'
  BY <1>2, <1>4, <1>5, <1>6, <1>7 DEF PlaceHolds, WindowPlaces, Checked
<1> QED BY <1>6, <1>7, <1>8, <1>9, ReaderWalks

\* The event is the row's transaction's.
LEMMA PromotionIsAppended ==
  ASSUME WindowInv, NEW u \in Users, AppendPromotion(u) PROVE WindowInv'
<1>1. readers[u].at = "append" /\ PlaceHolds(u)
  BY ReaderIs DEF AppendPromotion, At
<1>2. u \notin Turns /\ u \in ByHuman /\ ItemOf[u] \in readers[u].parts.own /\ (u \in Verbatim \/ items[ItemOf[u]].short)
  BY <1>1 DEF PlaceHolds, PromotePlaces, Checked
<1>3. "commitPromotion" \in ReaderPlaces
  BY DEF ReaderPlaces, PromotePlaces
<1>4. GoesTo(u, "commitPromotion") /\ UNCHANGED <<room, gone, items, conns, promoted, promotions, happened>>
  BY DEF AppendPromotion, AppendPromotionEvent
<1>5. PICK r : /\ ReaderGoes(u, r) /\ r.at = "commitPromotion" /\ r.parts = readers[u].parts /\ readers'[u] = r
               /\ OwnHolds(u)' /\ SinceHolds(u)'
  BY <1>2, <1>3, <1>4, PlaceGoes
<1>6. r.at \notin {"setting", "store"} /\ r.at \in Holding /\ readers[u].at \in Holding
  BY <1>1, <1>5 DEF Holding
<1>7. PlaceHolds(u)'
  BY <1>2, <1>4, <1>5 DEF PlaceHolds, WindowPlaces, Checked
<1> QED BY <1>4, <1>5, <1>6, <1>7, ReaderWalks

\* Where a connection moves and nothing is promoted.
LEMMA ReaderServed ==
  ASSUME WindowInv, NEW u \in Users, NEW r, ReaderGoes(u, r), UNCHANGED <<promoted, promotions>>,
         happened' \in 0..(MaxChanges + MaxWindowFaults), conns' \in [Conns -> ConnRow], PoolHolds', OwnHolds(u)', PlaceHolds(u)', SinceHolds(u)'
  PROVE  WindowInv'
<1>1. PromotedHolds'
  BY DEF WindowInv, PromotedHolds, ReaderGoes
<1> QED BY <1>1, ReaderMoves

\* At the places of the store's transaction a turn is after its messages, and a promotion a human's.
LEMMA StoreIs ==
  ASSUME WindowInv, NEW u \in Users, readers[u].at \in StorePlaces
  PROVE  /\ readers[u].at \in AfterTurns /\ (u \notin Turns => u \in ByHuman)
         /\ happened \in 0..(MaxChanges + MaxWindowFaults)
<1>1. PlaceHolds(u)
  BY ReaderIs
<1> QED BY <1>1 DEF PlaceHolds, StorePlaces, AfterTurns, WindowInv, WindowTyped

\* BEGIN of the store's transaction.
LEMMA StoreIsOpened ==
  ASSUME WindowInv, NEW u \in Users, Connect(u) PROVE WindowInv'
<1>1. readers[u].at = "connect" /\ readers[u].at \in StorePlaces
  BY DEF Connect, At, StorePlaces
<1>2. "role" \in ReaderPlaces /\ "role" \in AfterTurns
  BY DEF ReaderPlaces, StorePlaces, AfterTurns
<1>3. GoesTo(u, "role") /\ UNCHANGED <<room, gone, items, promoted, promotions, happened>>
  BY DEF Connect
<1>4. PICK r : /\ ReaderGoes(u, r) /\ r.at = "role" /\ r.parts = readers[u].parts /\ readers'[u] = r /\ OwnHolds(u)' /\ SinceHolds(u)'
  BY <1>1, <1>2, <1>3, StoreIs, PlaceGoes
<1>5. PICK c \in Free : conns' = [conns EXCEPT ![c].user = u]
  BY DEF Connect
<1>6. readers[u].at \notin Holding
  BY <1>1 DEF Holding
<1>7. conns' \in [Conns -> ConnRow] /\ PoolHolds'
  BY <1>4, <1>5, <1>6, PoolGives
<1>8. PlaceHolds(u)'
  BY <1>1, <1>4, StoreIs DEF PlaceHolds, WindowPlaces, PromotePlaces, Checked
<1> QED BY <1>1, <1>3, <1>4, <1>7, <1>8, StoreIs, ReaderServed

\* The role that row security binds is taken.
LEMMA RoleIsTaken ==
  ASSUME WindowInv, NEW u \in Users, TakeRole(u) PROVE WindowInv'
<1>1. readers[u].at = "role" /\ readers[u].at \in StorePlaces /\ readers[u].at \in Holding
  BY DEF TakeRole, At, StorePlaces, Holding
<1>2. "setting" \in ReaderPlaces /\ "setting" \in AfterTurns
  BY DEF ReaderPlaces, StorePlaces, AfterTurns
<1>3. GoesTo(u, "setting") /\ UNCHANGED <<room, gone, items, promoted, promotions, happened>>
  BY DEF TakeRole
<1>4. PICK r : /\ ReaderGoes(u, r) /\ r.at = "setting" /\ r.parts = readers[u].parts /\ readers'[u] = r /\ OwnHolds(u)' /\ SinceHolds(u)'
  BY <1>1, <1>2, <1>3, StoreIs, PlaceGoes
<1>5. PICK h : h = Held(u)
  OBVIOUS
<1>6. h \in Conns /\ conns[h].user = u /\ conns[h] \in ConnRow
  BY <1>1, <1>5, HeldIsOne DEF WindowInv, WindowTyped
<1>7. PICK k : k = [conns[h] EXCEPT !.role = "restricted"]
  OBVIOUS
<1>8. k \in ConnRow /\ k.user = u /\ k.role = "restricted"
  BY <1>6, <1>7 DEF ConnRow
<1>9. conns' = [conns EXCEPT ![h] = k]
  BY <1>5, <1>6, <1>7 DEF TakeRole, AsRestricted, WindowInv, WindowTyped
<1>10. r.at \in Holding /\ r.at # "store"
  BY <1>4 DEF Holding
<1>11. conns' \in [Conns -> ConnRow] /\ PoolHolds'
  BY <1>1, <1>4, <1>5, <1>8, <1>9, <1>10, PoolServes
<1>12. PlaceHolds(u)'
  BY <1>1, <1>4, StoreIs DEF PlaceHolds, WindowPlaces, PromotePlaces, Checked
<1> QED BY <1>1, <1>3, <1>4, <1>11, <1>12, StoreIs, ReaderServed

\* The principal is named, on the connection in hand.
LEMMA PrincipalIsNamed ==
  ASSUME WindowInv, NEW u \in Users, NamePrincipal(u) PROVE WindowInv'
<1>1. readers[u].at = "setting" /\ readers[u].at \in StorePlaces /\ readers[u].at \in Holding
  BY DEF NamePrincipal, At, StorePlaces, Holding
<1>2. "store" \in ReaderPlaces /\ "store" \in AfterTurns
  BY DEF ReaderPlaces, StorePlaces, AfterTurns
<1>3. GoesTo(u, "store") /\ UNCHANGED <<room, gone, items, promoted, promotions, happened>>
  BY DEF NamePrincipal
<1>4. PICK r : /\ ReaderGoes(u, r) /\ r.at = "store" /\ r.parts = readers[u].parts /\ readers'[u] = r /\ OwnHolds(u)' /\ SinceHolds(u)'
  BY <1>1, <1>2, <1>3, StoreIs, PlaceGoes
<1>5. PICK h : h = Held(u)
  OBVIOUS
<1>6. h \in Conns /\ conns[h].user = u /\ conns[h] \in ConnRow
  BY <1>1, <1>5, HeldIsOne DEF WindowInv, WindowTyped
<1>7. conns[h].role = "restricted"
  <2>1. ConnHolds(h) /\ u # "nobody"
    BY <1>6, UsersAssumption DEF WindowInv, PoolHolds
  <2> QED BY <1>1, <1>6, <2>1 DEF ConnHolds
<1>8. PICK k : k = [conns[h] EXCEPT !.principal = PrincipalOf[u]]
  OBVIOUS
<1>9. k \in ConnRow /\ k.user = u /\ k.role = "restricted" /\ k.principal = PrincipalOf[u]
  BY <1>6, <1>7, <1>8 DEF ConnRow, Principals
<1>10. conns' = [conns EXCEPT ![h] = k]
  BY <1>5, <1>6, <1>8 DEF NamePrincipal, WindowInv, WindowTyped
<1>11. r.at \in Holding
  BY <1>4 DEF Holding
<1>12. conns' \in [Conns -> ConnRow] /\ PoolHolds'
  BY <1>1, <1>4, <1>5, <1>9, <1>10, <1>11, PoolServes
<1>13. PlaceHolds(u)'
  BY <1>1, <1>4, StoreIs DEF PlaceHolds, WindowPlaces, PromotePlaces, Checked
<1> QED BY <1>1, <1>3, <1>4, <1>12, <1>13, StoreIs, ReaderServed

\* A connection that is restricted to a principal shows that principal's items, whatever is in the table.
LEMMA StoreIsRead ==
  ASSUME WindowInv, NEW u \in Users, ReadStore(u) PROVE WindowInv'
<1>1. readers[u].at = "store" /\ readers[u].at \in StorePlaces /\ readers[u].at \in Holding /\ readers \in [Users -> ReaderRow]
  BY DEF ReadStore, At, StorePlaces, Holding, WindowInv, WindowTyped
<1>2. PICK h : h = Held(u)
  OBVIOUS
<1>3. h \in Conns /\ conns[h].user = u
  BY <1>1, <1>2, HeldIsOne
<1>4. conns[h].role = "restricted" /\ conns[h].principal = PrincipalOf[u]
  <2>1. ConnHolds(h) /\ u # "nobody"
    BY <1>3, UsersAssumption DEF WindowInv, PoolHolds
  <2> QED BY <1>1, <1>3, <2>1 DEF ConnHolds
<1>5. Visible(conns[h]) = {i \in DOMAIN items : items[i].of = PrincipalOf[u]}
  BY <1>4 DEF Visible
<1>6. PICK own : own = IF u \in Turns THEN Newest(Visible(conns[h]), OwnItems)
                                      ELSE Newest(Visible(conns[h]), PromoteItems) \cap {ItemOf[u]}
  OBVIOUS
<1>7. own \subseteq Visible(conns[h]) /\ (u \notin Turns => own \subseteq {ItemOf[u]})
  BY <1>6 DEF Newest
<1>8. own \subseteq DOMAIN items /\ own \in SUBSET Nat /\ \A i \in own : items[i].of = PrincipalOf[u]
  BY <1>5, <1>7 DEF WindowInv, WindowTyped
<1>9. PICK p : p = [readers[u].parts EXCEPT !.whose = PrincipalOf[u], !.own = own]
  OBVIOUS
<1>10. /\ p \in PartsRow /\ p.own = own /\ p.documents = readers[u].parts.documents /\ p.messages = readers[u].parts.messages
       /\ p.covers = readers[u].parts.covers /\ p.turns = readers[u].parts.turns
  <2>1. readers[u].parts \in PartsRow /\ PrincipalOf[u] \in Principals
    BY ReaderIs DEF Principals
  <2> QED BY <1>8, <1>9, <2>1 DEF PartsRow
<1>11. PICK r : r = [readers[u] EXCEPT !.at = "commit", !.parts = p]
  OBVIOUS
<1>12. r \in ReaderRow /\ r.at = "commit" /\ r.parts = p /\ r.since = readers[u].since
  BY <1>1, <1>10, <1>11 DEF ReaderRow, ReaderPlaces, StorePlaces
<1>13. readers' = [readers EXCEPT ![u] = r] /\ UNCHANGED <<room, gone, items, conns, promoted, promotions, happened>>
  <2>1. readers[u] \in ReaderRow /\ readers[u].parts \in PartsRow
    BY ReaderIs
  <2>2. readers' = [readers EXCEPT ![u].at = "commit", ![u].parts.whose = PrincipalOf[u], ![u].parts.own = own]
    BY <1>2, <1>6, Zenon DEF ReadStore
  <2>3. PICK q : q = PrincipalOf[u]
    OBVIOUS
  <2>4. readers' = [readers EXCEPT ![u] = [[[@ EXCEPT !.at = "commit"] EXCEPT !.parts.whose = q] EXCEPT !.parts.own = own]]
    BY ONLY <1>1, <2>1, <2>2, <2>3
  <2>5. [[[readers[u] EXCEPT !.at = "commit"] EXCEPT !.parts.whose = q] EXCEPT !.parts.own = own] = r
    BY ONLY <1>9, <1>11, <2>1, <2>3 DEF ReaderRow, PartsRow
  <2>6. readers' = [readers EXCEPT ![u] = r]
    BY ONLY <1>1, <2>4, <2>5
  <2> QED BY <2>6 DEF ReadStore
<1>14. ReaderGoes(u, r) /\ readers'[u] = r
  BY <1>1, <1>12, <1>13 DEF ReaderGoes
<1>15. r.at \notin {"setting", "store"} /\ r.at \in Holding
  BY <1>12 DEF Holding
<1>16. OwnHolds(u)'
  BY <1>7, <1>8, <1>10, <1>12, <1>13, <1>14 DEF OwnHolds
<1>17. PlaceHolds(u)'
  BY <1>1, <1>12, <1>14, StoreIs DEF PlaceHolds, WindowPlaces, PromotePlaces, Checked
<1>18. SinceHolds(u)'
  <2>1. SUFFICES ASSUME u \in Turns PROVE SinceKept(u, r.at, r.parts, r.since)'
    BY <1>12, <1>14 DEF SinceHolds, Assembling
  <2>2. SinceKept(u, "store", readers[u].parts, readers[u].since)
    BY <1>1, <2>1, ReaderIs DEF SinceHolds, Assembling
  <2> QED BY <1>10, <1>12, <1>13, <2>2 DEF SinceKept, AfterTurns, AfterMessages, StorePlaces
<1> QED BY <1>1, <1>13, <1>14, <1>15, <1>16, <1>17, <1>18, ReaderWalks

\* What is given back is what was held.
LEMMA GivenBack ==
  ASSUME WindowInv, NEW u \in Users, readers[u].at \in Holding, conns' = [conns EXCEPT ![Held(u)] = TransactionEnds(@)]
  PROVE  conns' = [c \in Conns |-> IF conns[c].user = u THEN Clean ELSE conns[c]]
<1>1. PICK h : h = Held(u)
  OBVIOUS
<1>2. conns \in [Conns -> ConnRow] /\ h \in Conns /\ conns[h].user = u /\ \A c \in Conns : conns[c].user = u => c = h
  BY <1>1, HeldIsOne DEF WindowInv, WindowTyped
<1>3. conns' = [conns EXCEPT ![h] = Clean]
  BY <1>1 DEF TransactionEnds
<1> QED BY <1>2, <1>3

\* COMMIT of the store's transaction.
LEMMA StoreIsCommitted ==
  ASSUME WindowInv, NEW u \in Users, CommitStore(u) PROVE WindowInv'
<1>1. readers[u].at = "commit" /\ readers[u].at \in StorePlaces /\ readers[u].at \in Holding
  BY DEF CommitStore, At, StorePlaces, Holding
<1>2. PICK next : next = IF u \in Turns THEN "flatten" ELSE "item"
  OBVIOUS
<1>3. /\ next \in {"flatten", "item"} /\ next \in ReaderPlaces /\ (u \in Turns => next = "flatten") /\ (u \notin Turns => next = "item")
      /\ (u \notin Turns \/ next \in AfterTurns) /\ next \notin Holding
  BY <1>2 DEF ReaderPlaces, WindowPlaces, PromotePlaces, AfterTurns, Holding
<1>4. GoesTo(u, next) /\ UNCHANGED <<room, gone, items, promoted, promotions, happened>>
  BY <1>2 DEF CommitStore
<1>5. PICK r : /\ ReaderGoes(u, r) /\ r.at = next /\ r.parts = readers[u].parts /\ readers'[u] = r /\ OwnHolds(u)' /\ SinceHolds(u)'
  BY <1>1, <1>3, <1>4, StoreIs, PlaceGoes
<1>6. conns' = [c \in Conns |-> IF conns[c].user = u THEN Clean ELSE conns[c]]
  BY <1>1, GivenBack DEF CommitStore
<1>7. conns' \in [Conns -> ConnRow] /\ PoolHolds'
  BY <1>3, <1>5, <1>6, PoolTakesBack
<1>8. PlaceHolds(u)'
  BY <1>1, <1>3, <1>5, StoreIs DEF PlaceHolds, WindowPlaces, PromotePlaces, Checked
<1> QED BY <1>1, <1>4, <1>5, <1>7, <1>8, StoreIs, ReaderServed

\* Whatever fails is rolled back, and its connection released.
LEMMA ReaderFails ==
  ASSUME WindowInv, NEW u \in Users, ReadFails(u) PROVE WindowInv'
<1>1. GoesTo(u, "failed") /\ UNCHANGED <<room, gone, items, promoted, promotions>>
  BY DEF ReadFails
<1>2. "failed" \in ReaderPlaces
  BY DEF ReaderPlaces
<1>3. PICK r : /\ ReaderGoes(u, r) /\ r.at = "failed" /\ r.parts = readers[u].parts /\ readers'[u] = r /\ OwnHolds(u)' /\ SinceHolds(u)'
  BY <1>1, <1>2, PlaceGoes
<1>4. happened' \in 0..(MaxChanges + MaxWindowFaults)
  BY WindowAssumption DEF ReadFails, WindowInv, WindowTyped
<1>5. conns' = [c \in Conns |-> IF conns[c].user = u THEN Clean ELSE conns[c]] /\ r.at \notin Holding
  BY <1>3 DEF ReadFails, TransactionEnds, Holding
<1>6. conns' \in [Conns -> ConnRow] /\ PoolHolds'
  BY <1>3, <1>5, PoolTakesBack
<1>7. PlaceHolds(u)'
  BY <1>3 DEF PlaceHolds, WindowPlaces, PromotePlaces, Checked
<1> QED BY <1>1, <1>3, <1>4, <1>6, <1>7, ReaderServed

\* The row is inserted on a connection of its own.
LEMMA PromotionIsInserted ==
  ASSUME WindowInv, NEW u \in Users, InsertPromotion(u) PROVE WindowInv'
<1>1. readers[u].at = "insert" /\ PlaceHolds(u)
  BY ReaderIs DEF InsertPromotion, At
<1>2. u \notin Turns /\ u \in ByHuman /\ ItemOf[u] \in readers[u].parts.own /\ (u \in Verbatim \/ items[ItemOf[u]].short)
  BY <1>1 DEF PlaceHolds, PromotePlaces, Checked
<1>3. "append" \in ReaderPlaces
  BY DEF ReaderPlaces, PromotePlaces
<1>4. GoesTo(u, "append") /\ UNCHANGED <<room, gone, items, promoted, promotions, happened>>
  BY DEF InsertPromotion
<1>5. PICK r : /\ ReaderGoes(u, r) /\ r.at = "append" /\ r.parts = readers[u].parts /\ readers'[u] = r /\ OwnHolds(u)' /\ SinceHolds(u)'
  BY <1>2, <1>3, <1>4, PlaceGoes
<1>6. PICK c \in Free : conns' = [conns EXCEPT ![c].user = u]
  BY DEF InsertPromotion
<1>7. readers[u].at \notin Holding
  BY <1>1 DEF Holding
<1>8. conns' \in [Conns -> ConnRow] /\ PoolHolds'
  BY <1>5, <1>6, <1>7, PoolGives
<1>9. PlaceHolds(u)'
  BY <1>2, <1>4, <1>5 DEF PlaceHolds, WindowPlaces, Checked
<1>10. happened' \in 0..(MaxChanges + MaxWindowFaults)
  BY <1>4 DEF WindowInv, WindowTyped
<1> QED BY <1>4, <1>5, <1>8, <1>9, <1>10, ReaderServed

\* The row and the event become visible together.
LEMMA PromotionIsCommitted ==
  ASSUME WindowInv, NEW u \in Users, CommitPromotion(u) PROVE WindowInv'
<1>1. readers[u].at = "commitPromotion" /\ PlaceHolds(u) /\ OwnHolds(u) /\ readers[u].at \in Holding
  BY ReaderIs DEF CommitPromotion, At, Holding
<1>2. u \notin Turns /\ u \in ByHuman /\ ItemOf[u] \in readers[u].parts.own /\ (u \in Verbatim \/ items[ItemOf[u]].short)
  BY <1>1 DEF PlaceHolds, PromotePlaces, Checked
<1>3. "over" \in ReaderPlaces
  BY DEF ReaderPlaces, PromotePlaces
<1>4. GoesTo(u, "over") /\ UNCHANGED <<room, gone, items, happened>>
  BY DEF CommitPromotion
<1>5. PICK r : /\ ReaderGoes(u, r) /\ r.at = "over" /\ r.parts = readers[u].parts /\ readers'[u] = r /\ OwnHolds(u)' /\ SinceHolds(u)'
  BY <1>2, <1>3, <1>4, PlaceGoes
<1>6. conns' = [c \in Conns |-> IF conns[c].user = u THEN Clean ELSE conns[c]] /\ r.at \notin Holding
  BY <1>1, <1>5, GivenBack DEF CommitPromotion, Holding
<1>7. conns' \in [Conns -> ConnRow] /\ PoolHolds'
  BY <1>5, <1>6, PoolTakesBack
<1>8. PlaceHolds(u)'
  BY <1>2, <1>5 DEF PlaceHolds, WindowPlaces, Checked
<1>9. PICK row : row = Promotion(u)
  OBVIOUS
<1>10. row.by = u /\ row.of = PrincipalOf[u] /\ row.item = ItemOf[u] /\ (row.verbatim <=> u \in Verbatim)
  BY <1>9 DEF Promotion
<1>11. ItemOf[u] \in DOMAIN items /\ items[ItemOf[u]].of = PrincipalOf[u]
  BY <1>1, <1>2 DEF OwnHolds
<1>12. promoted' = promoted \cup {row} /\ promotions' = promotions \cup {row}
  BY <1>9 DEF CommitPromotion
<1>13. PromotedHolds'
  <2>1. promoted' = promotions'
    BY <1>12 DEF WindowInv, PromotedHolds
  <2>2. /\ row.by \in ByHuman /\ row.item \in DOMAIN items /\ items[row.item].of = row.of
        /\ row.verbatim \/ items[row.item].short
    BY <1>2, <1>10, <1>11
  <2>3. \A q \in promoted' : /\ q.by \in ByHuman /\ q.item \in DOMAIN items /\ items[q.item].of = q.of
                             /\ q.verbatim \/ items[q.item].short
    BY <1>12, <2>2 DEF WindowInv, PromotedHolds
  <2> QED BY <1>4, <2>1, <2>3 DEF PromotedHolds
<1>14. happened' \in 0..(MaxChanges + MaxWindowFaults)
  BY <1>4 DEF WindowInv, WindowTyped
<1> QED BY <1>5, <1>7, <1>8, <1>13, <1>14, ReaderMoves

\* The room goes on: it is added to, folded, and what is taken back is gone.
RoomGrows ==
    /\ room' \in RoomRow /\ gone' \in SUBSET Nat
    /\ room.said <= room'.said /\ room.done <= room'.done /\ room.documents \cup gone \subseteq room'.documents \cup gone' /\ gone \subseteq gone'
    /\ items' \in Seq(Notables) /\ DOMAIN items \subseteq DOMAIN items' /\ \A i \in DOMAIN items : items'[i] = items[i]
    /\ UNCHANGED <<conns, readers, promoted, promotions>>
    /\ happened' \in 0..(MaxChanges + MaxWindowFaults)

\* A room that grows keeps the readers.
LEMMA RoomGoesOn ==
  ASSUME WindowInv, RoomGrows, RoomHolds'
  PROVE  WindowInv'
<1>1. WindowTyped'
  BY DEF WindowInv, WindowTyped, RoomGrows
<1>2. PoolHolds'
  <2>1. \A c \in Conns : ConnHolds(c)'
    BY DEF WindowInv, PoolHolds, ConnHolds, RoomGrows
  <2> QED BY <2>1 DEF WindowInv, PoolHolds, RoomGrows
<1>3. \A u \in Users : OwnHolds(u)'
  <2>1. TAKE u \in Users
  <2>2. OwnHolds(u) /\ readers' = readers
    BY DEF WindowInv, RoomGrows
  <2> QED BY <2>2 DEF OwnHolds, RoomGrows
<1>4. \A u \in Users : PlaceHolds(u)'
  <2>1. TAKE u \in Users
  <2>2. OwnHolds(u) /\ PlaceHolds(u) /\ readers' = readers
    BY DEF WindowInv, RoomGrows
  <2>3. readers[u].at \in Checked => ItemOf[u] \in DOMAIN items
    BY <2>2 DEF OwnHolds, PlaceHolds
  <2>4. readers[u].at \in Checked => ItemOf[u] \in readers[u].parts.own /\ (u \in Verbatim \/ items'[ItemOf[u]].short)
    BY <2>2, <2>3 DEF PlaceHolds, RoomGrows
  <2> QED BY <2>2, <2>4 DEF PlaceHolds
<1>5. \A u \in Users : SinceHolds(u)'
  <2>1. TAKE u \in Users
  <2>2. SUFFICES ASSUME Assembling(u) PROVE SinceKept(u, readers[u].at, readers[u].parts, readers[u].since)'
    BY DEF SinceHolds, Assembling, RoomGrows
  <2>3. PICK at, p, since : at = readers[u].at /\ p = readers[u].parts /\ since = readers[u].since
    OBVIOUS
  <2>4. since.said \in Nat /\ since.done \in Nat
    BY <2>3, ReaderIs DEF SinceRow
  <2>5. SinceKept(u, at, p, since)
    BY <2>2, <2>3 DEF WindowInv, SinceHolds
  <2>6. room.said \in Nat /\ room.done \in Nat /\ room'.said \in Nat /\ room'.done \in Nat /\ room.said <= room'.said /\ room.done <= room'.done
    BY DEF WindowInv, WindowTyped, RoomGrows, RoomRow
  <2>7. since.said <= room'.said /\ since.done \in 1..room'.done
    BY <2>4, <2>5, <2>6 DEF SinceKept
  <2>8. since.documents \subseteq (IF at \in {"briefing", "documents"} THEN room'.documents ELSE p.documents) \cup gone'
    BY <2>5 DEF SinceKept, RoomGrows
  <2>9. /\ at \in AfterMessages => /\ \A m \in p.messages : m > p.covers
                                   /\ Cardinality(p.messages) = Limit \/ (p.covers + 1)..since.said \subseteq p.messages
        /\ at \in AfterTurns /\ u \in Rooted => since.done \in p.turns \/ Cardinality(p.turns) = RecentTurns
    BY <2>5 DEF SinceKept
  <2>10. readers'[u].at = at /\ readers'[u].parts = p /\ readers'[u].since = since
    BY <2>3 DEF RoomGrows
  <2> QED BY <2>7, <2>8, <2>9, <2>10 DEF SinceKept
<1>6. PromotedHolds'
  BY DEF WindowInv, PromotedHolds, RoomGrows
<1> QED BY <1>1, <1>2, <1>3, <1>4, <1>5, <1>6 DEF WindowInv

\* The room as it is.
LEMMA RoomIs ==
  ASSUME WindowInv
  PROVE  /\ room \in RoomRow /\ room.said \in Nat /\ room.folded \in Nat /\ room.done \in Nat /\ room.briefings \in Nat
         /\ room.documents \in SUBSET Nat /\ room.given \in Nat /\ gone \in SUBSET Nat /\ items \in Seq(Notables)
         /\ room.folded <= room.said /\ room.done > 0 /\ room.documents \cup gone \subseteq 1..room.given /\ room.documents \cap gone = {}
BY DEF WindowInv, WindowTyped, RoomHolds, RoomRow

\* A change that leaves the items alone.
LEMMA RoomChanges ==
  ASSUME WindowInv, NEW r \in RoomRow, Changes(r), gone' \in SUBSET Nat, gone \subseteq gone', room.said <= r.said, room.done <= r.done,
         room.documents \cup gone \subseteq r.documents \cup gone',
         r.folded <= r.said, r.done > 0, r.documents \cup gone' \subseteq 1..r.given, r.documents \cap gone' = {}
  PROVE  WindowInv'
<1>1. room' = r /\ UNCHANGED <<items, conns, readers, promoted, promotions>>
  BY DEF Changes
<1>2. happened' \in 0..(MaxChanges + MaxWindowFaults)
  BY WindowAssumption DEF Changes, WindowInv, WindowTyped
<1>3. RoomGrows
  BY <1>1, <1>2, RoomIs DEF RoomGrows
<1>4. RoomHolds'
  BY <1>1 DEF RoomHolds
<1> QED BY <1>3, <1>4, RoomGoesOn

\* No step of the room breaks what the readers have.
LEMMA RoomSteps ==
  ASSUME WindowInv, RoomStep PROVE WindowInv'
<1>1. CASE Said
  <2>1. PICK n : n = room.said + 1
    OBVIOUS
  <2>2. PICK r : r = [room EXCEPT !.said = n]
    OBVIOUS
  <2>3. /\ r \in RoomRow /\ r.said = n /\ r.done = room.done /\ r.folded = room.folded /\ r.documents = room.documents
        /\ r.given = room.given /\ n \in Nat
    BY <2>1, <2>2, RoomIs DEF RoomRow
  <2>4. Changes(r) /\ gone' = gone
    BY <1>1, <2>1, <2>2 DEF Said
  <2>5. room.said <= r.said /\ r.folded <= r.said /\ room.done <= r.done
    BY <2>1, <2>3, RoomIs
  <2> QED BY <2>3, <2>4, <2>5, RoomIs, RoomChanges
<1>2. CASE TurnDone
  <2>1. PICK n : n = room.done + 1
    OBVIOUS
  <2>2. PICK r : r = [room EXCEPT !.done = n]
    OBVIOUS
  <2>3. /\ r \in RoomRow /\ r.said = room.said /\ r.done = n /\ r.folded = room.folded /\ r.documents = room.documents
        /\ r.given = room.given /\ n \in Nat
    BY <2>1, <2>2, RoomIs DEF RoomRow
  <2>4. Changes(r) /\ gone' = gone
    BY <1>2, <2>1, <2>2 DEF TurnDone
  <2>5. room.said <= r.said /\ r.folded <= r.said /\ room.done <= r.done /\ r.done > 0
    BY <2>1, <2>3, RoomIs
  <2> QED BY <2>3, <2>4, <2>5, RoomIs, RoomChanges
<1>3. CASE BriefingSet
  <2>1. PICK n : n = room.briefings + 1
    OBVIOUS
  <2>2. PICK r : r = [room EXCEPT !.briefing = n, !.briefings = n]
    OBVIOUS
  <2>3. /\ r \in RoomRow /\ r.said = room.said /\ r.done = room.done /\ r.folded = room.folded /\ r.documents = room.documents
        /\ r.given = room.given
    <3>1. n \in Nat /\ room \in RoomRow
      BY <2>1, RoomIs
    <3> QED BY ONLY <2>2, <3>1 DEF RoomRow
  <2>4. Changes(r) /\ gone' = gone
    BY <1>3, <2>1, <2>2 DEF BriefingSet
  <2>5. room.said <= r.said /\ r.folded <= r.said /\ room.done <= r.done
    BY <2>3, RoomIs
  <2> QED BY <2>3, <2>4, <2>5, RoomIs, RoomChanges
<1>4. CASE BriefingCleared
  <2>1. PICK r : r = [room EXCEPT !.briefing = 0]
    OBVIOUS
  <2>2. /\ r \in RoomRow /\ r.said = room.said /\ r.done = room.done /\ r.folded = room.folded /\ r.documents = room.documents
        /\ r.given = room.given
    BY <2>1, RoomIs DEF RoomRow
  <2>3. Changes(r) /\ gone' = gone
    BY <1>4, <2>1 DEF BriefingCleared
  <2>4. room.said <= r.said /\ r.folded <= r.said /\ room.done <= r.done
    BY <2>2, RoomIs
  <2> QED BY <2>2, <2>3, <2>4, RoomIs, RoomChanges
<1>5. CASE DocumentGiven
  <2>1. PICK n : n = room.given + 1
    OBVIOUS
  <2>2. PICK r : r = [room EXCEPT !.documents = room.documents \cup {n}, !.given = n]
    OBVIOUS
  <2>3. n \in Nat /\ 1..n = 1..room.given \cup {n} /\ n \notin 1..room.given
    BY <2>1, RoomIs
  <2>4. /\ r \in RoomRow /\ r.said = room.said /\ r.done = room.done /\ r.folded = room.folded
        /\ r.documents = room.documents \cup {n} /\ r.given = n
    BY <2>2, <2>3, RoomIs DEF RoomRow
  <2>5. Changes(r) /\ gone' = gone
    BY <1>5, <2>1, <2>2 DEF DocumentGiven
  <2>6. room.said <= r.said /\ r.folded <= r.said /\ room.done <= r.done
    BY <2>4, RoomIs
  <2>7. r.documents \cup gone' \subseteq 1..r.given /\ r.documents \cap gone' = {}
    BY <2>3, <2>4, <2>5, RoomIs
  <2> QED BY <2>4, <2>5, <2>6, <2>7, RoomIs, RoomChanges
<1>6. ASSUME NEW n \in 1..room.said, Folded(n) PROVE WindowInv'
  <2>1. PICK r : r = [room EXCEPT !.folded = n]
    OBVIOUS
  <2>2. n \in Nat /\ n <= room.said
    BY <1>6, RoomIs
  <2>3. /\ r \in RoomRow /\ r.said = room.said /\ r.done = room.done /\ r.folded = n /\ r.documents = room.documents
        /\ r.given = room.given
    BY <2>1, <2>2, RoomIs DEF RoomRow
  <2>4. Changes(r) /\ gone' = gone
    BY <1>6, <2>1 DEF Folded
  <2>5. room.said <= r.said /\ r.folded <= r.said /\ room.done <= r.done
    BY <2>2, <2>3, RoomIs
  <2> QED BY <2>3, <2>4, <2>5, RoomIs, RoomChanges
<1>7. ASSUME NEW d \in room.documents, DocumentTakenBack(d) PROVE WindowInv'
  <2>1. PICK r : r = [room EXCEPT !.documents = room.documents \ {d}]
    OBVIOUS
  <2>2. /\ r \in RoomRow /\ r.said = room.said /\ r.done = room.done /\ r.folded = room.folded /\ r.documents = room.documents \ {d}
        /\ r.given = room.given
    BY <2>1, RoomIs DEF RoomRow
  <2>3. Changes(r) /\ gone' = gone \cup {d}
    BY <1>7, <2>1 DEF DocumentTakenBack
  <2>4. room.said <= r.said /\ r.folded <= r.said /\ room.done <= r.done
    BY <2>2, RoomIs
  <2>5. gone' \in SUBSET Nat /\ r.documents \cup gone' \subseteq 1..r.given /\ r.documents \cap gone' = {}
        /\ room.documents \cup gone \subseteq r.documents \cup gone'
    BY <2>2, <2>3, RoomIs
  <2> QED BY <2>2, <2>3, <2>4, <2>5, RoomIs, RoomChanges
<1>8. ASSUME NEW store \in Stores, NEW i \in DOMAIN store, Noted(store[i]) PROVE WindowInv'
  <2>1. PICK x : x = store[i]
    OBVIOUS
  <2>2. x \in Notables
    BY <2>1 DEF Notables
  <2>3. items' = Append(items, x) /\ UNCHANGED <<room, gone, conns, readers, promoted, promotions>>
    BY <1>8, <2>1 DEF Noted
  <2>4. items' \in Seq(Notables) /\ DOMAIN items \subseteq DOMAIN items' /\ \A j \in DOMAIN items : items'[j] = items[j]
    BY <2>2, <2>3, RoomIs
  <2>5. happened' \in 0..(MaxChanges + MaxWindowFaults)
    BY <1>8, WindowAssumption DEF Noted, WindowInv, WindowTyped
  <2>6. RoomGrows
    BY <2>3, <2>4, <2>5, RoomIs DEF RoomGrows
  <2>7. RoomHolds'
    BY <2>3 DEF WindowInv, RoomHolds
  <2> QED BY <2>6, <2>7, RoomGoesOn
<1> QED BY <1>1, <1>2, <1>3, <1>4, <1>5, <1>6, <1>7, <1>8 DEF RoomStep

\* Nobody reads when the api starts.
LEMMA WindowBegins ==
  ASSUME WindowInit PROVE WindowInv
<1>1. NoParts \in PartsRow /\ NoParts.own = {}
  BY DEF NoParts, PartsRow, Principals
<1>2. NoReader \in ReaderRow /\ NoReader.at = "none" /\ NoReader.parts = NoParts
  BY <1>1 DEF NoReader, ReaderRow, SinceRow, ReaderPlaces
<1>3. Clean \in ConnRow /\ Clean.user = "nobody"
  BY DEF Clean, ConnRow, Principals
<1>4. items \in Seq(Notables)
  BY StoresAssumption DEF WindowInit
<1>5. WindowTyped
  <2>1. room \in RoomRow /\ gone \in SUBSET Nat
    BY DEF WindowInit, RoomRow
  <2>2. conns \in [Conns -> ConnRow] /\ readers \in [Users -> ReaderRow]
    BY <1>2, <1>3 DEF WindowInit
  <2>3. happened \in 0..(MaxChanges + MaxWindowFaults)
    BY WindowAssumption DEF WindowInit
  <2> QED BY <1>4, <2>1, <2>2, <2>3 DEF WindowTyped
<1>6. RoomHolds
  BY DEF WindowInit, RoomHolds
<1>7. PoolHolds
  BY <1>2, <1>3 DEF WindowInit, PoolHolds, ConnHolds, Holding
<1>8. \A u \in Users : OwnHolds(u) /\ PlaceHolds(u) /\ SinceHolds(u)
  BY <1>1, <1>2 DEF WindowInit, OwnHolds, PlaceHolds, SinceHolds, Assembling, WindowPlaces, PromotePlaces, Checked
<1>9. PromotedHolds
  BY DEF WindowInit, PromotedHolds
<1> QED BY <1>5, <1>6, <1>7, <1>8, <1>9 DEF WindowInv

\* No step of a reader or the room breaks it.
LEMMA WindowGoesOn ==
  ASSUME WindowInv, [WindowNext]_windowVars PROVE WindowInv'
<1>1. CASE RoomStep
  BY <1>1, RoomSteps
<1>2. ASSUME NEW u \in Users, ReaderStep(u) PROVE WindowInv'
  BY <1>2, WindowIsStarted, BriefingIsRead, DocumentsAreRead, SummaryIsRead, MessagesAreRead, TurnsAreRead, StoreIsOpened, RoleIsTaken,
     PrincipalIsNamed, StoreIsRead, StoreIsCommitted, WindowIsFlattened, ReaderFails, PromotionIsStarted, ItemIsChecked,
     PromotionIsInserted, PromotionIsAppended, PromotionIsCommitted DEF ReaderStep
<1>3. CASE UNCHANGED windowVars
  <2>1. UNCHANGED <<room, gone, items, conns, readers, promoted, promotions, happened>>
    BY <1>3 DEF windowVars
  <2>2. RoomGrows
    BY <2>1, RoomIs DEF RoomGrows, WindowInv, WindowTyped
  <2>3. RoomHolds'
    BY <2>1 DEF WindowInv, RoomHolds
  <2> QED BY <2>2, <2>3, RoomGoesOn
<1> QED BY <1>1, <1>2, <1>3 DEF WindowNext

\* What the properties say follows from what is kept.
LEMMA ReadersSee == ASSUME WindowInv PROVE WindowsHold
<1>1. OwnStoreOnly
  <2>1. \A u \in Turns : \A i \in readers[u].parts.own : items[i].of = PrincipalOf[u]
    BY DEF WindowInv, OwnHolds, Users
  <2>2. \A c \in Free : conns[c] = Clean
    BY DEF WindowInv, PoolHolds, ConnHolds, Free
  <2> QED BY <2>1, <2>2 DEF OwnStoreOnly
<1>2. \A u \in Turns : At(u, "shown") => SinceKept(u, "shown", readers[u].parts, readers[u].since)
  BY DEF WindowInv, SinceHolds, Assembling, At, Users
<1>3. SummarisedOrRecent
  BY <1>2 DEF SummarisedOrRecent, SinceKept, AfterMessages
<1>4. ReadsTheRoom
  BY <1>2 DEF ReadsTheRoom, SinceKept, AfterTurns
<1>5. PromotionsAreOwn
  <2>1. \A u \in Promotes : Promotion(u).by = u
    BY DEF Promotion
  <2> QED BY <2>1 DEF WindowInv, PromotedHolds, PromotionsAreOwn
<1> QED BY <1>1, <1>3, <1>4, <1>5 DEF WindowsHold

\* The invariant of the windows holds in every state.
LEMMA WindowInvHolds == WindowSpec => []WindowInv
BY WindowBegins, WindowGoesOn, PTL DEF WindowSpec

\* For any turns, promotions, stores, connections and limits: a window holds items of the member's own principal only and no
\* connection keeps a principal, a message is summarised or recent, what the room worked with is shown or was taken back, and a
\* promotion is of the approving human's own item, its row and its event there both or neither.
THEOREM WindowsHoldHolds == WindowSpec => []WindowsHold
BY WindowInvHolds, ReadersSee, PTL

\* The types of the windows follow.
LEMMA WindowTypes == ASSUME WindowInv PROVE WindowTypeOK
<1>1. \A c \in Conns : conns[c].user \in Users \cup {"nobody"} /\ conns[c].role \in {"owner", "restricted"}
  BY DEF WindowInv, WindowTyped, ConnRow
<1>2. \A u \in Users : readers[u].parts.own \subseteq DOMAIN items
  BY DEF WindowInv, OwnHolds
<1> QED BY <1>1, <1>2, RoomIs DEF WindowTypeOK, WindowInv, WindowTyped

-----------------------------------------------------------------------------
(* The doors, the throttles and the sockets. *)

\* The checks, the answers, and the rows of the requests, the tickets and the sockets.
CheckNames == {"credential", "lease", "access", "human", "shape", "exists", "hostOp", "scope", "configured", "throttle", "command"}
StatusCodes == {0, 200, 302, 400, 401, 403, 404, 422, 429, 503}
RequestRow == [door : (DOMAIN Checks) \cup {"none"}, at : Nat, machine : Machines \cup {"none"}, status : StatusCodes,
               why : CheckNames \cup {"none"}, live : BOOLEAN, in : BOOLEAN]
TicketRow == [state : {"none", "issued", "consumed", "expired"}, member : Callers \cup {"none"}]
SocketPlaces == {"closed", "claim", "access", "open", "mute", "refused", "terminated"}
SocketRow == [at : SocketPlaces, room : BOOLEAN, actor : Callers \cup {"none"}, subscribed : BOOLEAN, alive : BOOLEAN,
              peer : {"there", "gone"}, beats : Nat, queue : Seq(DOMAIN Outcomes), ran : Seq(Callers \cup {"none"}), answered : Nat]

\* The types of the doors.
DoorTyped ==
    /\ clock \in WindowMs..MaxClock /\ creds \subseteq Creds /\ admitted \subseteq Callers
    /\ requests \in [HttpCalls -> RequestRow] /\ tickets \in [HttpCalls -> TicketRow] /\ sockets \in [Sockets -> SocketRow]

\* What a check that was passed says from then on.
Passed(r, check) ==
    /\ check \in {"credential", "lease"} => requests[r].live /\ KindOf[CredOf[r]] \in Takes(requests[r].door)
    /\ check = "access" => Member(r) \in admitted
    /\ check = "human" => Member(r) \in Humans

\* What is kept of a request that was sent.
Underway(r) == LET row == Checks[requests[r].door] IN
    /\ requests[r].at \in 1..(Len(row) + 2) /\ requests[r].machine \in Machines
    /\ requests[r].at < Len(row) + 2 => requests[r].status = 0
    /\ CredOf[r] \in creds => requests[r].live
    /\ requests[r].in => Member(r) \in admitted
    /\ requests[r].status \in {0, 200} => \A i \in DOMAIN row : i < requests[r].at => Passed(r, row[i])
    /\ requests[r].why = "credential" => ~Proven(r)
    /\ requests[r].why = "access" => ~requests[r].in

\* A request is not sent, at a check, about to act, or answered.
RequestHolds(r) ==
    /\ requests[r].at = 0 <=> requests[r].door = "none"
    /\ requests[r].at = 0 => requests[r].status = 0 /\ requests[r].why = "none"
    /\ requests[r].at # 0 => Underway(r)

\* A ticket is its request's, and given when that is answered.
TicketHolds(r) ==
    /\ tickets[r].state # "none" => requests[r].status = 200 /\ tickets[r].member = Member(r)
    /\ tickets[r].state = "none" => tickets[r] = NoTicket

\* Those let through of a key on a machine, after a time.
PassedAfter(k, m, x) == {p \in passed : Key(p[1]) = k /\ p[2] = m /\ p[3] > x}

\* How many.
Through(k, m, x) == Cardinality(PassedAfter(k, m, x))

\* The hits of a key count whoever was let through in the window, however far back one looks in it.
Counts(ts, n, x) == n <= Len(ts) /\ \A i \in DOMAIN ts : ts[i] <= x => n <= Len(ts) - i

\* The hits that a machine has of a key count those it let through, who are no more than the limit.
KeyCounts(k, m) == \A x \in Cutoff..clock : Counts(HitsOf(hits[m], k), Through(k, m, x), x) /\ Through(k, m, x) <= MaxHits

\* What the throttles keep.
ThrottleHolds ==
    /\ passed \subseteq HttpCalls \X Machines \X (0..clock) /\ IsFiniteSet(passed) /\ \A p \in passed : requests[p[1]].at # 0
    /\ DOMAIN hits = Machines
    /\ \A m \in Machines : \A k \in DOMAIN hits[m] : hits[m][k] \in Seq(Nat) /\ hits[m][k] # <<>>
    /\ \A k \in {Key(r) : r \in HttpCalls} : \A m \in Machines : KeyCounts(k, m)

\* A socket has the actor of its ticket, which it used up; it runs as that actor, in the room; and a silent peer is found out.
SocketFits(s, k) ==
    /\ k.at \in {"closed", "claim"} => k.actor = "none"
    /\ k.at \in {"access", "open"} => k.actor = Member(TicketFor[s])
    /\ k.at = "open" => k.actor \in admitted
    /\ k.at \in {"closed", "claim", "access", "mute", "refused"} => k.ran = <<>>
    /\ \A i \in DOMAIN k.ran : k.ran[i] = k.actor /\ k.actor \in admitted
    /\ k.subscribed <=> k.at \in {"claim", "access", "open", "mute"}
    /\ k.beats # 0 => k.beats = 1 /\ k.peer = "gone" /\ ~k.alive

\* And its ticket is used up.
SocketHolds(s) == SocketFits(s, sockets[s]) /\ (sockets[s].actor # "none" => tickets[TicketFor[s]].state = "consumed")

\* Two sockets of a ticket do not both have an actor.
OneActor(s, z) == TicketFor[s] = TicketFor[z] /\ s # z => ~(sockets[s].actor # "none" /\ sockets[z].actor # "none")

\* What every state of the doors keeps.
DoorInv ==
    /\ DoorTyped
    /\ \A r \in HttpCalls : RequestHolds(r)
    /\ \A r \in HttpCalls : TicketHolds(r)
    /\ ThrottleHolds
    /\ \A s \in Sockets : SocketHolds(s)
    /\ \A s, z \in Sockets : OneActor(s, z)

\* The doors of the web and the api are rows of checks.
LEMMA DoorRows ==
  /\ RosterDoor \in Seq(CheckNames) /\ OrdersDoor \in Seq(CheckNames) /\ OrderCreateDoor \in Seq(CheckNames)
  /\ OrderControlDoor \in Seq(CheckNames) /\ OrderEditDoor \in Seq(CheckNames) /\ PushMember \in Seq(CheckNames)
  /\ ActionDoor \in Seq(CheckNames) /\ DecisionDoor \in Seq(CheckNames) /\ ReceiptDoor \in Seq(CheckNames)
  /\ LeaseDoor \in Seq(CheckNames) /\ LeasesDoor \in Seq(CheckNames) /\ LeaseRevokeDoor \in Seq(CheckNames)
  /\ TicketDoor \in Seq(CheckNames) /\ RedeemDoor \in Seq(CheckNames) /\ CreateRoomDoor \in Seq(CheckNames)
  /\ RoomDoor \in Seq(CheckNames) /\ HistoryDoor \in Seq(CheckNames) /\ InterruptDoor \in Seq(CheckNames)
  /\ RegisterDoor \in Seq(CheckNames) /\ AuthorizeDoor \in Seq(CheckNames) /\ ConsentDoor \in Seq(CheckNames)
  /\ TokenDoor \in Seq(CheckNames) /\ McpDoor \in Seq(CheckNames)
  /\ HeartbeatDoor \in Seq(CheckNames) /\ NodeOpDoor \in Seq(CheckNames) /\ CheckReportDoor \in Seq(CheckNames)
  /\ MessageDoor \in Seq(CheckNames) /\ RevokeDoor \in Seq(CheckNames) /\ PushKeyDoor \in Seq(CheckNames) /\ OpenDoor \in Seq(CheckNames)
<1> USE DEF CheckNames
<1>1. RosterDoor \in Seq(CheckNames) /\ OrdersDoor \in Seq(CheckNames) /\ OrderCreateDoor \in Seq(CheckNames)
  BY DEF RosterDoor, OrdersDoor, OrderCreateDoor
<1>2. OrderControlDoor \in Seq(CheckNames) /\ OrderEditDoor \in Seq(CheckNames) /\ PushMember \in Seq(CheckNames)
  BY DEF OrderControlDoor, OrderEditDoor, PushMember
<1>3. ActionDoor \in Seq(CheckNames) /\ DecisionDoor \in Seq(CheckNames) /\ ReceiptDoor \in Seq(CheckNames)
  BY DEF ActionDoor, DecisionDoor, ReceiptDoor
<1>4. LeaseDoor \in Seq(CheckNames) /\ LeasesDoor \in Seq(CheckNames) /\ LeaseRevokeDoor \in Seq(CheckNames)
  BY DEF LeaseDoor, LeasesDoor, LeaseRevokeDoor
<1>5. TicketDoor \in Seq(CheckNames) /\ RedeemDoor \in Seq(CheckNames) /\ CreateRoomDoor \in Seq(CheckNames)
  BY DEF TicketDoor, RedeemDoor, CreateRoomDoor
<1>6. RoomDoor \in Seq(CheckNames) /\ HistoryDoor \in Seq(CheckNames) /\ InterruptDoor \in Seq(CheckNames)
  BY DEF RoomDoor, HistoryDoor, InterruptDoor
<1>7. RegisterDoor \in Seq(CheckNames) /\ AuthorizeDoor \in Seq(CheckNames) /\ ConsentDoor \in Seq(CheckNames)
  BY DEF RegisterDoor, AuthorizeDoor, ConsentDoor
<1>8. TokenDoor \in Seq(CheckNames) /\ McpDoor \in Seq(CheckNames)
  BY DEF TokenDoor, McpDoor
<1>9. HeartbeatDoor \in Seq(CheckNames) /\ NodeOpDoor \in Seq(CheckNames) /\ CheckReportDoor \in Seq(CheckNames)
  BY DEF HeartbeatDoor, NodeOpDoor, CheckReportDoor
<1>10. MessageDoor \in Seq(CheckNames) /\ RevokeDoor \in Seq(CheckNames) /\ PushKeyDoor \in Seq(CheckNames) /\ OpenDoor \in Seq(CheckNames)
  BY DEF MessageDoor, RevokeDoor, PushKeyDoor, OpenDoor
<1> QED BY <1>1, <1>2, <1>3, <1>4, <1>5, <1>6, <1>7, <1>8, <1>9, <1>10

\* So are those of a device and the tools.
LEMMA ToolRows ==
  /\ SubscribeDoor \in Seq(CheckNames) /\ UnsubscribeDoor \in Seq(CheckNames)
  /\ PushSendsDoor \in Seq(CheckNames) /\ DevicesDoor \in Seq(CheckNames)
  /\ RoomsTool \in Seq(CheckNames) /\ TagsTool \in Seq(CheckNames) /\ ReadTool \in Seq(CheckNames)
  /\ PostTool \in Seq(CheckNames) /\ RequestTool \in Seq(CheckNames) /\ RespondTool \in Seq(CheckNames)
  /\ RaiseTool \in Seq(CheckNames) /\ ReceiptTool \in Seq(CheckNames)
<1>1. <<"shape">> \in Seq(CheckNames) /\ <<"shape", "exists">> \in Seq(CheckNames) /\ <<"shape", "access">> \in Seq(CheckNames)
  BY DEF CheckNames
<1>2. <<"shape", "access", "exists">> \in Seq(CheckNames) /\ <<"shape", "access", "command">> \in Seq(CheckNames)
  BY DEF CheckNames
<1>3. PushMember \in Seq(CheckNames) /\ McpDoor \in Seq(CheckNames)
  BY DoorRows, Zenon
<1>4. \A s, t \in Seq(CheckNames) : s \o t \in Seq(CheckNames)
  BY ConcatProperties, Zenon
<1>5. SubscribeDoor \in Seq(CheckNames) /\ UnsubscribeDoor \in Seq(CheckNames)
  BY <1>1, <1>3, <1>4, Zenon DEF SubscribeDoor, UnsubscribeDoor
<1>6. PushSendsDoor \in Seq(CheckNames) /\ DevicesDoor \in Seq(CheckNames) /\ RoomsTool \in Seq(CheckNames) /\ TagsTool \in Seq(CheckNames)
  BY <1>3, Zenon DEF PushSendsDoor, DevicesDoor, RoomsTool, TagsTool
<1>7. ReadTool \in Seq(CheckNames) /\ PostTool \in Seq(CheckNames) /\ ReceiptTool \in Seq(CheckNames)
  BY <1>1, <1>2, <1>3, <1>4, Zenon DEF ReadTool, PostTool, ReceiptTool
<1>8. RequestTool \in Seq(CheckNames) /\ RespondTool \in Seq(CheckNames) /\ RaiseTool \in Seq(CheckNames)
  BY <1>2, <1>3, <1>4, Zenon DEF RequestTool, RespondTool, RaiseTool
<1> QED BY <1>5, <1>6, <1>7, <1>8

\* Whatever the door, it is a row of checks, and no door is called "none".
LEMMA RowsAre == "none" \notin DOMAIN Checks /\ \A door \in DOMAIN Checks : Checks[door] \in Seq(CheckNames)
<1>1. PICK S : S = Seq(CheckNames)
  OBVIOUS
<1>2. DOMAIN Checks =
         {"roster", "orders", "orderCreate", "orderControl", "orderEdit", "subscribe",
          "unsubscribe", "pushSends", "devices", "action", "decision", "receipt", "lease",
          "leases", "leaseRevoke", "ticket", "redeem", "createRoom", "room", "history",
          "interrupt", "register", "authorize", "consent", "token", "mcpRooms", "mcpTags",
          "mcpRead", "mcpPost", "mcpRequest", "mcpRespond", "mcpRaise", "mcpReceipt",
          "heartbeat", "nodeOp", "checkReport", "message", "revoke", "pushKey", "open"}
  BY DEF Checks
<1>3. /\ Checks["roster"] = RosterDoor /\ Checks["orders"] = OrdersDoor
      /\ Checks["orderCreate"] = OrderCreateDoor /\ Checks["orderControl"] = OrderControlDoor
      /\ Checks["orderEdit"] = OrderEditDoor /\ Checks["subscribe"] = SubscribeDoor
      /\ Checks["unsubscribe"] = UnsubscribeDoor /\ Checks["pushSends"] = PushSendsDoor
  BY DEF Checks
<1>4. /\ Checks["devices"] = DevicesDoor /\ Checks["action"] = ActionDoor
      /\ Checks["decision"] = DecisionDoor /\ Checks["receipt"] = ReceiptDoor
      /\ Checks["lease"] = LeaseDoor /\ Checks["leases"] = LeasesDoor
      /\ Checks["leaseRevoke"] = LeaseRevokeDoor /\ Checks["ticket"] = TicketDoor
  BY DEF Checks
<1>5. /\ Checks["redeem"] = RedeemDoor /\ Checks["createRoom"] = CreateRoomDoor
      /\ Checks["room"] = RoomDoor /\ Checks["history"] = HistoryDoor
      /\ Checks["interrupt"] = InterruptDoor /\ Checks["register"] = RegisterDoor
      /\ Checks["authorize"] = AuthorizeDoor /\ Checks["consent"] = ConsentDoor
  BY DEF Checks
<1>6. /\ Checks["token"] = TokenDoor /\ Checks["mcpRooms"] = RoomsTool
      /\ Checks["mcpTags"] = TagsTool /\ Checks["mcpRead"] = ReadTool
      /\ Checks["mcpPost"] = PostTool /\ Checks["mcpRequest"] = RequestTool
      /\ Checks["mcpRespond"] = RespondTool /\ Checks["mcpRaise"] = RaiseTool
      /\ Checks["mcpReceipt"] = ReceiptTool
  BY DEF Checks
<1>7. \A door \in {"roster", "orders", "orderCreate", "orderControl", "orderEdit",
                   "subscribe", "unsubscribe", "pushSends"} : Checks[door] \in S
  BY <1>1, <1>3, DoorRows, ToolRows
<1>8. \A door \in {"devices", "action", "decision", "receipt", "lease",
                   "leases", "leaseRevoke", "ticket"} : Checks[door] \in S
  BY <1>1, <1>4, DoorRows, ToolRows
<1>9. \A door \in {"redeem", "createRoom", "room", "history", "interrupt",
                   "register", "authorize", "consent"} : Checks[door] \in S
  BY <1>1, <1>5, DoorRows, ToolRows
<1>10. \A door \in {"token", "mcpRooms", "mcpTags", "mcpRead", "mcpPost",
                    "mcpRequest", "mcpRespond", "mcpRaise",
                   "mcpReceipt"} : Checks[door] \in S
  BY <1>1, <1>6, DoorRows, ToolRows
<1>11. /\ Checks["heartbeat"] = HeartbeatDoor /\ Checks["nodeOp"] = NodeOpDoor
       /\ Checks["checkReport"] = CheckReportDoor /\ Checks["message"] = MessageDoor
       /\ Checks["revoke"] = RevokeDoor /\ Checks["pushKey"] = PushKeyDoor /\ Checks["open"] = OpenDoor
  BY DEF Checks
<1>12. \A door \in {"heartbeat", "nodeOp", "checkReport", "message", "revoke", "pushKey", "open"} : Checks[door] \in S
  BY <1>1, <1>11, DoorRows
<1> QED BY <1>1, <1>2, <1>7, <1>8, <1>9, <1>10, <1>12

\* Where a request, a ticket and a socket are.
LEMMA DoorsAre ==
  ASSUME DoorTyped
  PROVE  /\ \A r \in HttpCalls : requests[r] \in RequestRow /\ tickets[r] \in TicketRow
         /\ \A s \in Sockets : sockets[s] \in SocketRow
         /\ DOMAIN requests = HttpCalls /\ DOMAIN tickets = HttpCalls /\ DOMAIN sockets = Sockets
BY DEF DoorTyped

\* The fields of a request.
LEMMA RequestIs ==
  ASSUME NEW q \in RequestRow
  PROVE  /\ q.door \in (DOMAIN Checks) \cup {"none"} /\ q.at \in Nat /\ q.machine \in Machines \cup {"none"}
         /\ q.status \in StatusCodes /\ q.why \in CheckNames \cup {"none"} /\ q.live \in BOOLEAN /\ q.in \in BOOLEAN
BY DEF RequestRow

\* Nobody is given a credential again, nobody leaves.
PeopleGo == creds' \subseteq creds /\ admitted \subseteq admitted'

\* A request that is where it was is as it was.
LEMMA RequestStays ==
  ASSUME NEW r \in HttpCalls, requests'[r] = requests[r], PeopleGo, RequestHolds(r)
  PROVE  RequestHolds(r)'
<1>1. \A check : Passed(r, check) => Passed(r, check)'
  BY DEF Passed, PeopleGo, Member
<1>2. Proven(r)' => Proven(r)
  BY DEF Proven, PeopleGo
<1>3. CredOf[r] \in creds' => CredOf[r] \in creds
  BY DEF PeopleGo
<1>4. Member(r) \in admitted => Member(r) \in admitted'
  BY DEF PeopleGo
<1>5. requests[r].at # 0 => Underway(r)
  BY DEF RequestHolds
<1>6. (requests[r].at = 0 <=> requests[r].door = "none") /\ (requests[r].at = 0 => requests[r].status = 0 /\ requests[r].why = "none")
  BY DEF RequestHolds
<1>7. (requests[r].at # 0 => Underway(r))'
  BY <1>1, <1>2, <1>3, <1>4, <1>5 DEF Underway, Member
<1>8. (requests'[r].at = 0 <=> requests'[r].door = "none") /\ (requests'[r].at = 0 => requests'[r].status = 0 /\ requests'[r].why = "none")
  BY <1>6
<1> QED BY <1>7, <1>8 DEF RequestHolds

\* So is its ticket, and whatever became of that.
LEMMA TicketStays ==
  ASSUME NEW r \in HttpCalls, requests[r].status = 200 => requests'[r].status = 200, TicketHolds(r), tickets'[r].member = tickets[r].member,
         tickets'[r] = tickets[r] \/ (tickets[r].state # "none" /\ tickets'[r].state # "none")
  PROVE  TicketHolds(r)'
BY DEF TicketHolds, Member

\* What is used up stays used up.
UsedUp == \A r \in HttpCalls : tickets[r].state = "consumed" => tickets'[r].state = "consumed"

\* A socket that is where it was is as it was.
LEMMA SocketStays ==
  ASSUME NEW s \in Sockets, sockets'[s] = sockets[s], PeopleGo, UsedUp, SocketHolds(s)
  PROVE  SocketHolds(s)'
<1>1. TicketFor[s] \in HttpCalls
  BY DoorsAssumption
<1>2. sockets[s].actor # "none" => tickets'[TicketFor[s]].state = "consumed"
  BY <1>1 DEF UsedUp, SocketHolds
<1>3. SocketFits(s, sockets[s])'
  BY DEF SocketHolds, SocketFits, PeopleGo, Member
<1> QED BY <1>2, <1>3 DEF SocketHolds

\* Who knocks at the same door has the same key.
LEMMA SameKey ==
  ASSUME NEW r, requests'[r].door = requests[r].door
  PROVE  Key(r)' = Key(r)
<1>1. Who(r)' = Who(r)
  BY Zenon DEF Who, Member
<1> QED BY <1>1, Zenon DEF Key

\* The keys of those let through.
KeysStay == \A p \in passed : requests'[p[1]].door = requests[p[1]].door

\* When none is let through and their keys stay, so does every count.
LEMMA CountStays ==
  ASSUME passed' = passed, KeysStay, NEW k, NEW m, NEW x
  PROVE  PassedAfter(k, m, x)' = PassedAfter(k, m, x)
<1>1. \A p \in passed : Key(p[1])' = Key(p[1])
  BY SameKey DEF KeysStay
<1> QED BY <1>1, Zenon DEF PassedAfter

\* A key that nobody who was let through has counts nobody: what the throttles keep of the requests they keep of every key.
LEMMA EveryKeyCounts ==
  ASSUME DoorTyped, ThrottleHolds, NEW k, NEW m \in Machines
  PROVE  KeyCounts(k, m)
<1>1. HitsOf(hits[m], k) \in Seq(Nat)
  BY DEF HitsOf, ThrottleHolds
<1>2. CASE \E p \in passed : Key(p[1]) = k
  <2>1. PICK p \in passed : Key(p[1]) = k
    BY <1>2
  <2>2. p[1] \in HttpCalls
    BY DEF ThrottleHolds
  <2> QED BY <2>1, <2>2 DEF ThrottleHolds
<1>3. CASE ~\E p \in passed : Key(p[1]) = k
  <2>1. \A x : PassedAfter(k, m, x) = {}
    BY <1>3 DEF PassedAfter
  <2>2. \A x : Through(k, m, x) = 0
    BY <2>1, FS_EmptySet DEF Through
  <2>3. PICK ts : ts = HitsOf(hits[m], k) /\ ts \in Seq(Nat)
    BY <1>1
  <2>4. \A i \in DOMAIN ts : 0 <= Len(ts) - i
    BY <2>3
  <2>5. \A x : Counts(ts, 0, x)
    BY <2>3, <2>4 DEF Counts
  <2> QED BY <2>2, <2>3, <2>5, DoorsAssumption DEF KeyCounts
<1> QED BY <1>2, <1>3

\* The throttles count on as long as the keys of those let through stay.
LEMMA ThrottleStays ==
  ASSUME DoorTyped, ThrottleHolds, UNCHANGED <<clock, hits, passed>>, KeysStay, \A p \in passed : requests'[p[1]].at # 0
  PROVE  ThrottleHolds'
<1>1. \A k, m, x : Through(k, m, x)' = Through(k, m, x)
  BY CountStays DEF Through
<1>2. ASSUME NEW k, NEW m \in Machines PROVE KeyCounts(k, m)'
  BY <1>1, EveryKeyCounts DEF KeyCounts, Cutoff
<1>3. (\A k \in {Key(r) : r \in HttpCalls} : \A m \in Machines : KeyCounts(k, m))'
  BY <1>2
<1> QED BY <1>3 DEF ThrottleHolds

\* Nobody is let through after now, and fewer after a later time.
LEMMA ThroughIs ==
  ASSUME DoorTyped, ThrottleHolds, NEW k, NEW m
  PROVE  /\ \A x \in Nat : Through(k, m, x) \in Nat /\ IsFiniteSet(PassedAfter(k, m, x))
         /\ \A x \in Nat : x >= clock => Through(k, m, x) = 0
         /\ \A x, y \in Nat : x <= y => Through(k, m, y) <= Through(k, m, x)
<1>1. \A x : PassedAfter(k, m, x) \subseteq passed
  BY DEF PassedAfter
<1>2. \A x : IsFiniteSet(PassedAfter(k, m, x))
  BY <1>1, FS_Subset DEF ThrottleHolds
<1>3. \A p \in passed : p[3] \in 0..clock
  BY DEF ThrottleHolds
<1>4. clock \in Nat
  BY DoorsAssumption DEF DoorTyped
<1>5. \A x \in Nat : x >= clock => PassedAfter(k, m, x) = {}
  BY <1>3, <1>4 DEF PassedAfter
<1>6. ASSUME NEW x \in Nat, NEW y \in Nat, x <= y PROVE Through(k, m, y) <= Through(k, m, x)
  <2>1. PassedAfter(k, m, y) \subseteq PassedAfter(k, m, x)
    BY <1>3, <1>4, <1>6 DEF PassedAfter
  <2> QED BY <1>2, <2>1, FS_Subset DEF Through
<1>7. \A x \in Nat : Through(k, m, x) \in Nat /\ IsFiniteSet(PassedAfter(k, m, x))
  BY <1>2, FS_CardinalityType DEF Through
<1>8. \A x \in Nat : x >= clock => Through(k, m, x) = 0
  BY <1>5, FS_EmptySet DEF Through
<1> QED BY <1>6, <1>7, <1>8

\* The clock and the cutoff.
LEMMA ClockIs == ASSUME DoorTyped PROVE clock \in Nat /\ Cutoff \in Nat /\ Cutoff < clock /\ WindowMs \in Nat \ {0} /\ MaxHits \in Nat
BY DoorsAssumption DEF DoorTyped, Cutoff

\* A longer wait lets nobody through and forgets some.
LEMMA ThrottleTicks ==
  ASSUME DoorTyped, ThrottleHolds, UNCHANGED <<hits, passed, requests>>, clock' = clock + 1
  PROVE  ThrottleHolds'
<1>1. \A k, m, x : Through(k, m, x)' = Through(k, m, x)
  BY CountStays DEF Through, KeysStay
<1>2. clock \in Nat /\ Cutoff \in Nat /\ Cutoff' = Cutoff + 1 /\ MaxHits \in Nat
  BY ClockIs DEF Cutoff
<1>3. ASSUME NEW k, NEW m \in Machines PROVE KeyCounts(k, m)'
  <2> SUFFICES ASSUME NEW x \in Cutoff'..clock'
               PROVE  Counts(HitsOf(hits[m], k), Through(k, m, x), x) /\ Through(k, m, x) <= MaxHits
    BY <1>1 DEF KeyCounts
  <2>1. CASE x \in Cutoff..clock
    BY <2>1, EveryKeyCounts DEF KeyCounts
  <2>2. CASE x = clock + 1
    <3>1. Through(k, m, x) = 0
      BY <1>2, <2>2, ThroughIs
    <3>5. HitsOf(hits[m], k) \in Seq(Nat)
      BY DEF HitsOf, ThrottleHolds
    <3>2. PICK ts : ts = HitsOf(hits[m], k) /\ ts \in Seq(Nat)
      BY <3>5
    <3>3. \A i \in DOMAIN ts : 0 <= Len(ts) - i
      BY <3>2
    <3>4. Counts(ts, 0, x)
      BY <3>2, <3>3 DEF Counts
    <3> QED BY <1>2, <3>1, <3>2, <3>4
  <2> QED BY <1>2, <2>1, <2>2
<1>4. (\A k \in {Key(r) : r \in HttpCalls} : \A m \in Machines : KeyCounts(k, m))'
  BY <1>3
<1>5. passed \subseteq HttpCalls \X Machines \X (0..clock')
  BY <1>2 DEF ThrottleHolds
<1> QED BY <1>4, <1>5 DEF ThrottleHolds

\* There is a last hit that is over.
LEMMA LastOldIs ==
  ASSUME DoorTyped, NEW ts \in Seq(Nat)
  PROVE  /\ LastOld(ts) \in 0..Len(ts) /\ (LastOld(ts) # 0 => ts[LastOld(ts)] <= Cutoff)
         /\ \A j \in (LastOld(ts) + 1)..Len(ts) : ts[j] > Cutoff
<1>1. PICK n \in Nat : n = Len(ts)
  OBVIOUS
<1>2. Cutoff \in Nat
  BY ClockIs
<1>3. \A i \in 1..n : ts[i] \in Nat
  BY <1>1
<1> DEFINE Stops == {d \in 0..n : d = n \/ ts[n - d] <= Cutoff}
<1>4. n \in Stops /\ Stops \in SUBSET Nat
  BY <1>1
<1>5. PICK d \in Stops : \A e \in Stops : d <= e
  <2> HIDE DEF Stops
  <2> QED BY <1>4, FirstOfNumbers
<1>6. d \in 0..n /\ (d = n \/ ts[n - d] <= Cutoff)
  BY <1>5
<1>7. \A i \in (n - d + 1)..n : ts[i] > Cutoff
  <2> SUFFICES ASSUME NEW i \in (n - d + 1)..n PROVE ts[i] > Cutoff
    OBVIOUS
  <2>1. i \in 1..n /\ n - i \in 0..n /\ n - i < d /\ n - (n - i) = i
    BY <1>1, <1>6
  <2>2. PICK e \in Nat : e = n - i
    BY <2>1
  <2>4. e \notin Stops
    <3>1. ~(d <= e)
      BY <1>6, <2>1, <2>2
    <3> HIDE DEF Stops
    <3> QED BY <1>5, <3>1
  <2>3. ~(ts[i] <= Cutoff)
    BY <2>1, <2>2, <2>4
  <2> QED BY <1>2, <1>3, <2>1, <2>3
<1>8. \E i \in 0..Len(ts) : (i # 0 => ts[i] <= Cutoff) /\ \A j \in (i + 1)..Len(ts) : ts[j] > Cutoff
  <2>1. n - d \in 0..n /\ (n - d # 0 => ts[n - d] <= Cutoff)
    BY <1>1, <1>6
  <2> QED BY <1>1, <1>7, <2>1
<1> QED BY <1>8, Zenon DEF LastOld

\* What is counted in the hits of a key is counted when one more is added and the old are dropped.
LEMMA NewHitCounts ==
  ASSUME DoorTyped, NEW ts \in Seq(Nat), NEW n \in Nat, NEW n1 \in Nat, NEW x \in Cutoff..clock, Counts(ts, n, x), n1 <= n + 1, x = clock => n1 = 0
  PROVE  /\ Append(Recent(ts), clock) \in Seq(Nat) /\ Append(Recent(ts), clock) # <<>>
         /\ Counts(Append(Recent(ts), clock), n1, x)
<1>1. PICK last \in Nat : last = LastOld(ts) /\ last \in 0..Len(ts) /\ (last # 0 => ts[last] <= Cutoff)
  BY LastOldIs
<1>2. PICK c \in Nat : c = clock
  BY ClockIs
<1>3. Recent(ts) \in Seq(Nat) /\ Len(Recent(ts)) = Len(ts) - last /\ \A i \in 1..(Len(ts) - last) : Recent(ts)[i] = ts[last + i]
  <2>1. \A i \in (last + 1)..Len(ts) : ts[i] \in Nat
    BY <1>1
  <2>2. last + 1 \in Int /\ Len(ts) \in Int
    BY <1>1
  <2>3. /\ SubSeq(ts, last + 1, Len(ts)) \in Seq(Nat)
        /\ Len(SubSeq(ts, last + 1, Len(ts))) = (IF last + 1 <= Len(ts) THEN Len(ts) - (last + 1) + 1 ELSE 0)
        /\ \A i \in 1..(Len(ts) - (last + 1) + 1) : SubSeq(ts, last + 1, Len(ts))[i] = ts[last + 1 + i - 1]
    BY <2>1, <2>2, SubSeqProperties
  <2>4. Recent(ts) = SubSeq(ts, last + 1, Len(ts))
    BY <1>1 DEF Recent
  <2>5. PICK len \in Nat : len = Len(ts) /\ len >= last
    BY <1>1
  <2>6. Len(Recent(ts)) = len - last
    BY <2>3, <2>4, <2>5
  <2>7. \A i \in 1..(len - last) : Recent(ts)[i] = ts[last + i]
    BY <2>3, <2>4, <2>5
  <2> QED BY <2>3, <2>4, <2>5, <2>6, <2>7
<1>4. PICK old : old = Recent(ts)
  OBVIOUS
<1>5. PICK len \in Nat : len = Len(ts) /\ len >= last
  BY <1>1
<1>6. PICK new : new = Append(old, c)
  OBVIOUS
<1>7. /\ new \in Seq(Nat) /\ Len(new) = len - last + 1 /\ new[len - last + 1] = c
      /\ \A i \in 1..(len - last) : new[i] = ts[last + i]
  BY <1>3, <1>4, <1>5, <1>6
<1>8. n1 <= n + 1 /\ (x = c => n1 = 0) /\ x <= c /\ Cutoff <= x /\ x \in Nat
  BY <1>2, ClockIs
<1>9. n <= len /\ \A i \in DOMAIN ts : ts[i] <= x => n <= len - i
  BY <1>5 DEF Counts
<1>10. n <= len - last
  <2>1. CASE last = 0
    BY <1>5, <1>9, <2>1
  <2>2. CASE last # 0
    <3>1. last \in DOMAIN ts /\ ts[last] \in Nat /\ Cutoff \in Nat
      BY <1>1, <2>2, ClockIs
    <3>2. ts[last] <= x
      BY <1>1, <1>8, <2>2, <3>1
    <3> QED BY <1>9, <3>1, <3>2
  <2> QED BY <2>1, <2>2
<1>11. ASSUME NEW i \in 1..(len - last + 1), new[i] <= x PROVE n1 <= len - last + 1 - i
  <2>1. CASE i = len - last + 1
    BY <1>2, <1>5, <1>7, <1>8, <1>11, <2>1
  <2>2. CASE i # len - last + 1
    <3>4. i \in 1..(len - last) /\ last + i \in 1..len
      BY <1>1, <1>5, <1>11, <2>2, SMTT(30)
    <3>1. i \in 1..(len - last) /\ last + i \in DOMAIN ts
      BY <1>5, <3>4
    <3>2. ts[last + i] <= x
      BY <1>7, <1>11, <3>1
    <3>3. n <= len - (last + i)
      BY <1>9, <3>1, <3>2
    <3> QED BY <1>5, <1>8, <3>1, <3>3
  <2> QED BY <2>1, <2>2
<1>12. n1 <= Len(new)
  BY <1>5, <1>7, <1>8, <1>10
<1>13. Counts(new, n1, x)
  <2>1. DOMAIN new = 1..(len - last + 1)
    BY <1>7
  <2> QED BY <1>7, <1>11, <1>12, <2>1 DEF Counts
<1>14. new # <<>>
  BY <1>5, <1>7
<1> QED BY <1>2, <1>4, <1>6, <1>7, <1>13, <1>14, Zenon

\* A key that is swept away had nobody to count.
LEMMA SweptCounts ==
  ASSUME DoorTyped, NEW h, \A k \in DOMAIN h : h[k] \in Seq(Nat) /\ h[k] # <<>>, NEW k, NEW n \in Nat, NEW x \in Cutoff..clock, Counts(HitsOf(h, k), n, x)
  PROVE  Counts(HitsOf(Swept(h), k), n, x)
<1>1. DOMAIN Swept(h) = {y \in DOMAIN h : h[y][Len(h[y])] > Cutoff} /\ \A y \in DOMAIN Swept(h) : Swept(h)[y] = h[y]
  BY DEF Swept
<1>2. CASE k \in DOMAIN Swept(h) \/ k \notin DOMAIN h
  BY <1>1, <1>2 DEF HitsOf
<1>3. CASE k \in DOMAIN h /\ k \notin DOMAIN Swept(h)
  <2>1. PICK ts \in Seq(Nat) : ts = h[k] /\ ts # <<>>
    BY <1>3
  <2>2. Len(ts) \in DOMAIN ts /\ ts[Len(ts)] \in Nat
    BY <2>1
  <2>3. ts[Len(ts)] <= Cutoff
    BY <1>1, <1>3, <2>1, <2>2, ClockIs
  <2>4. ts[Len(ts)] <= x
    BY <2>2, <2>3, ClockIs
  <2>5. Counts(ts, n, x)
    BY <1>3, <2>1 DEF HitsOf
  <2>6. n <= Len(ts) - Len(ts)
    BY <2>2, <2>4, <2>5 DEF Counts
  <2>7. n = 0
    BY <2>2, <2>6
  <2>8. HitsOf(Swept(h), k) = <<>>
    BY <1>3 DEF HitsOf
  <2> QED BY <2>7, <2>8 DEF Counts
<1> QED BY <1>2, <1>3

\* One more hit, whoever it is of.
LEMMA WithHitIs ==
  ASSUME NEW h, NEW k
  PROVE  \E next : /\ DOMAIN next = DOMAIN h \cup {k} /\ next[k] = Append(Recent(HitsOf(h, k)), clock)
                   /\ \A y \in DOMAIN h : y # k => next[y] = h[y]
                   /\ WithHit(h, k) \in {next, Swept(next)}
<1> DEFINE Next1 == [x \in DOMAIN h \cup {k} |-> IF x = k THEN Append(Recent(HitsOf(h, k)), clock) ELSE h[x]]
<1>1. PICK next : next = Next1
  OBVIOUS
<1>2. DOMAIN next = DOMAIN h \cup {k} /\ next[k] = Append(Recent(HitsOf(h, k)), clock) /\ \A y \in DOMAIN h : y # k => next[y] = h[y]
  BY <1>1
<1>3. WithHit(h, k) = IF Cardinality(DOMAIN next) > MaxKeys THEN Swept(next) ELSE next
  BY <1>1, Zenon DEF WithHit
<1>4. WithHit(h, k) \in {next, Swept(next)}
  BY <1>3
<1> QED BY <1>2, <1>4

\* With one more hit the hits of a key count one more, and those of the others as many as they did.
LEMMA HitCounts ==
  ASSUME DoorTyped, NEW h, \A y \in DOMAIN h : h[y] \in Seq(Nat) /\ h[y] # <<>>, NEW k
  PROVE  /\ \A y \in DOMAIN WithHit(h, k) : WithHit(h, k)[y] \in Seq(Nat) /\ WithHit(h, k)[y] # <<>>
         /\ \A n, n1 \in Nat : \A x \in Cutoff..clock :
              Counts(HitsOf(h, k), n, x) /\ n1 <= n + 1 /\ (x = clock => n1 = 0) => Counts(HitsOf(WithHit(h, k), k), n1, x)
         /\ \A n \in Nat : \A x \in Cutoff..clock : \A y : y # k /\ Counts(HitsOf(h, y), n, x) => Counts(HitsOf(WithHit(h, k), y), n, x)
<1>1. PICK next : /\ DOMAIN next = DOMAIN h \cup {k} /\ next[k] = Append(Recent(HitsOf(h, k)), clock)
                  /\ \A y \in DOMAIN h : y # k => next[y] = h[y]
                  /\ WithHit(h, k) \in {next, Swept(next)}
  BY WithHitIs
<1>2. PICK ts \in Seq(Nat) : ts = HitsOf(h, k)
  <2>1. HitsOf(h, k) \in Seq(Nat)
    BY DEF HitsOf
  <2> QED BY <2>1
<1>3. ASSUME NEW n \in Nat, NEW n1 \in Nat, NEW x \in Cutoff..clock, Counts(ts, n, x), n1 <= n + 1, x = clock => n1 = 0
      PROVE  /\ next[k] \in Seq(Nat) /\ next[k] # <<>> /\ Counts(next[k], n1, x)
  BY <1>1, <1>2, <1>3, NewHitCounts
<1>4. next[k] \in Seq(Nat) /\ next[k] # <<>>
  <2>1. \A i \in DOMAIN ts : 0 <= Len(ts) - i
    BY <1>2
  <2>2. Counts(ts, 0, clock)
    BY <1>2, <2>1 DEF Counts
  <2>3. clock \in Cutoff..clock
    BY ClockIs
  <2>4. PICK zero \in Nat, now \in Cutoff..clock : zero = 0 /\ now = clock /\ Counts(ts, zero, now) /\ zero <= zero + 1
    BY <2>2, <2>3
  <2>5. now = clock => zero = 0
    BY <2>4
  <2> QED BY ONLY <1>3, <2>4, <2>5
<1>5. \A y \in DOMAIN next : next[y] \in Seq(Nat) /\ next[y] # <<>>
  BY <1>1, <1>4
<1>6. \A y \in DOMAIN Swept(next) : y \in DOMAIN next /\ Swept(next)[y] = next[y]
  BY DEF Swept
<1>7. \A y \in DOMAIN WithHit(h, k) : WithHit(h, k)[y] \in Seq(Nat) /\ WithHit(h, k)[y] # <<>>
  BY <1>1, <1>5, <1>6
<1>8. ASSUME NEW y, NEW n \in Nat, NEW x \in Cutoff..clock, Counts(HitsOf(next, y), n, x) PROVE Counts(HitsOf(WithHit(h, k), y), n, x)
  BY <1>1, <1>5, <1>8, SweptCounts
<1>9. HitsOf(next, k) = next[k] /\ \A y : y # k => HitsOf(next, y) = HitsOf(h, y)
  BY <1>1 DEF HitsOf
<1>10. ASSUME NEW n \in Nat, NEW n1 \in Nat, NEW x \in Cutoff..clock, Counts(HitsOf(h, k), n, x), n1 <= n + 1, x = clock => n1 = 0
       PROVE  Counts(HitsOf(WithHit(h, k), k), n1, x)
  <2>1. Counts(HitsOf(next, k), n1, x)
    BY <1>2, <1>3, <1>9, <1>10
  <2> QED BY <1>8, <2>1
<1>11. ASSUME NEW n \in Nat, NEW x \in Cutoff..clock, NEW y, y # k, Counts(HitsOf(h, y), n, x) PROVE Counts(HitsOf(WithHit(h, k), y), n, x)
  BY <1>8, <1>9, <1>11
<1> QED BY <1>7, <1>10, <1>11

\* At most one more is let through, under the key and on the machine of the hit.
LEMMA ThroughGrows ==
  ASSUME DoorTyped, ThrottleHolds, clock' = clock, KeysStay, NEW r \in HttpCalls, NEW m \in Machines, requests'[r].door = requests[r].door,
         passed' \in {passed, passed \cup {<<r, m, clock>>}}, NEW k, NEW m2 \in Machines, NEW x \in Cutoff..clock
  PROVE  /\ Through(k, m2, x)' \in Nat /\ Through(k, m2, x) \in Nat /\ Through(k, m2, x)' <= Through(k, m2, x) + 1
         /\ x = clock => Through(k, m2, x)' = 0
         /\ k # Key(r) \/ m2 # m \/ passed' = passed => Through(k, m2, x)' = Through(k, m2, x)
<1>1. x \in Nat /\ clock \in Nat /\ x <= clock
  BY ClockIs
<1>14. PICK c : c = clock
  OBVIOUS
<1>15. <<r, m, c>>[1] = r /\ <<r, m, c>>[2] = m /\ <<r, m, c>>[3] = c
  OBVIOUS
<1>3. PICK hit : hit = <<r, m, clock>> /\ hit[1] = r /\ hit[2] = m /\ hit[3] = clock
  BY <1>14, <1>15
<1>2. \A p \in passed' : Key(p[1])' = Key(p[1])
  <2>1. \A p \in passed' : p \in passed \/ p[1] = r
    BY <1>3
  <2>2. \A p \in passed' : requests'[p[1]].door = requests[p[1]].door
    BY <2>1 DEF KeysStay
  <2> QED BY <2>2, SameKey
<1>4. PICK before, after : before = PassedAfter(k, m2, x) /\ after = PassedAfter(k, m2, x)'
  OBVIOUS
<1>5. \A p : p \in before <=> p \in passed /\ Key(p[1]) = k /\ p[2] = m2 /\ p[3] > x
  BY <1>4 DEF PassedAfter
<1>6. \A p : p \in after <=> p \in passed' /\ Key(p[1]) = k /\ p[2] = m2 /\ p[3] > x
  BY <1>2, <1>4 DEF PassedAfter
<1>7. after \in {before, before \cup {hit}}
  BY <1>3, <1>5, <1>6
<1>8. k # Key(r) \/ m2 # m \/ passed' = passed => after = before
  BY <1>3, <1>5, <1>6
<1>9. x = clock => after = {}
  <2>1. \A p \in passed : p[3] \in 0..clock
    BY DEF ThrottleHolds
  <2>2. \A p \in passed' : p[3] \in 0..clock
    BY <1>1, <1>3, <2>1
  <2> QED BY <1>1, <1>6, <2>2
<1>10. IsFiniteSet(before) /\ Cardinality(before) \in Nat
  BY <1>1, <1>4, ThroughIs DEF Through
<1>11. IsFiniteSet(before \cup {hit}) /\ Cardinality(before \cup {hit}) \in Nat /\ Cardinality(before \cup {hit}) <= Cardinality(before) + 1
  <2>1. IsFiniteSet(before \cup {hit}) /\ Cardinality(before \cup {hit}) = IF hit \in before THEN Cardinality(before) ELSE Cardinality(before) + 1
    BY <1>10, FS_AddElement
  <2> QED BY <1>10, <2>1
<1>12. Cardinality(after) \in Nat /\ Cardinality(after) <= Cardinality(before) + 1
  BY <1>7, <1>10, <1>11
<1>13. Through(k, m2, x) = Cardinality(before) /\ Through(k, m2, x)' = Cardinality(after)
  BY <1>4 DEF Through
<1> QED BY <1>8, <1>9, <1>10, <1>12, <1>13, FS_EmptySet

\* A request goes from where it is to a row of its own.
RequestGoes(r, row) ==
  /\ requests' = [requests EXCEPT ![r] = row] /\ row \in RequestRow
  /\ row.door = requests[r].door /\ row.machine = requests[r].machine /\ row.live = requests[r].live /\ row.in = requests[r].in

\* It is refused, or passes.
LEMMA RefusedIs ==
  ASSUME DoorTyped, NEW r \in HttpCalls, NEW status \in StatusCodes, requests' = Refused(r, status), Len(Checks[requests[r].door]) \in Nat, Check(r) \in CheckNames
  PROVE  \E row : RequestGoes(r, row) /\ row.status = status /\ row.why = Check(r) /\ row.at = Len(Checks[requests[r].door]) + 2
<1>1. PICK q \in RequestRow : q = requests[r]
  BY DoorsAre
<1>2. PICK n \in Nat, check \in CheckNames : n = Len(Checks[requests[r].door]) /\ check = Check(r)
  OBVIOUS
<1>3. PICK row, end : end = n + 2 /\ row = [q EXCEPT !.status = status, !.why = check, !.at = end]
  OBVIOUS
<1>6. end \in Nat
  BY <1>2, <1>3
<1>4. row \in RequestRow /\ row.status = status /\ row.why = check /\ row.at = end /\ row.door = q.door /\ row.machine = q.machine /\ row.live = q.live /\ row.in = q.in
  BY <1>3, <1>6 DEF RequestRow
<1>5. requests' = [requests EXCEPT ![r] = row]
  BY <1>1, <1>2, <1>3, DoorsAre DEF Refused
<1> QED BY <1>1, <1>2, <1>3, <1>4, <1>5 DEF RequestGoes

\* It passes.
LEMMA PassesIs ==
  ASSUME DoorTyped, NEW r \in HttpCalls, requests' = Passes(r)
  PROVE  \E row : RequestGoes(r, row) /\ row.status = requests[r].status /\ row.why = requests[r].why /\ row.at = requests[r].at + 1
<1>1. PICK q \in RequestRow : q = requests[r]
  BY DoorsAre
<1>2. q.at + 1 \in Nat
  BY RequestIs
<1>3. PICK row : row = [q EXCEPT !.at = q.at + 1]
  OBVIOUS
<1>4. row \in RequestRow /\ row.status = q.status /\ row.why = q.why /\ row.at = q.at + 1 /\ row.door = q.door /\ row.machine = q.machine /\ row.live = q.live /\ row.in = q.in
  BY <1>2, <1>3 DEF RequestRow
<1>5. requests' = [requests EXCEPT ![r] = row]
  BY <1>1, <1>3, DoorsAre DEF Passes
<1> QED BY <1>1, <1>4, <1>5 DEF RequestGoes

\* What is pending is at a check of its door, and unanswered.
LEMMA PendingIs ==
  ASSUME DoorTyped, NEW r \in HttpCalls, RequestHolds(r), Pending(r)
  PROVE  /\ requests[r].door \in DOMAIN Checks /\ Checks[requests[r].door] \in Seq(CheckNames) /\ Len(Checks[requests[r].door]) \in Nat
         /\ requests[r].at \in DOMAIN Checks[requests[r].door] /\ requests[r].at \in 1..Len(Checks[requests[r].door])
         /\ requests[r].at # 0 /\ requests[r].status = 0 /\ Check(r) \in CheckNames /\ requests[r].machine \in Machines
<1>1. requests[r].door # "none" /\ requests[r].at \in 1..Len(Checks[requests[r].door])
  BY DEF Pending
<1>2. requests[r].door \in DOMAIN Checks
  BY <1>1, DoorsAre, RequestIs
<1>3. PICK row \in Seq(CheckNames) : row = Checks[requests[r].door]
  BY <1>2, RowsAre
<1>4. PICK n \in Nat : n = Len(row) /\ DOMAIN row = 1..n /\ \A i \in 1..n : row[i] \in CheckNames
  BY <1>3
<1>5. PICK at \in 1..n : at = requests[r].at /\ at # 0 /\ at < n + 2
  BY <1>1, <1>3, <1>4
<1>6. requests[r].status = 0 /\ requests[r].machine \in Machines
  BY <1>3, <1>4, <1>5 DEF RequestHolds, Underway
<1>7. Check(r) \in CheckNames
  BY <1>3, <1>4, <1>5 DEF Check
<1> QED BY <1>2, <1>3, <1>4, <1>5, <1>6, <1>7

\* Only the request that goes has changed.
LEMMA OthersStay ==
  ASSUME DoorTyped, NEW r \in HttpCalls, NEW row, RequestGoes(r, row)
  PROVE  /\ requests' \in [HttpCalls -> RequestRow] /\ requests'[r] = row /\ \A q \in HttpCalls : q # r => requests'[q] = requests[q]
         /\ \A q \in HttpCalls : requests'[q].door = requests[q].door
BY DoorsAre DEF RequestGoes, DoorTyped

\* The keys of those let through stay while no door is changed.
LEMMA SameDoors ==
  ASSUME DoorTyped, ThrottleHolds, \A q \in HttpCalls : requests'[q].door = requests[q].door
  PROVE  KeysStay
BY DEF KeysStay, ThrottleHolds

\* A hit keeps the throttles: it is let through when there are few.
LEMMA ThrottleCounts ==
  ASSUME DoorTyped, ThrottleHolds, NEW r \in HttpCalls, RequestHolds(r), Throttles(r), NEW row, RequestGoes(r, row), row.at # 0
  PROVE  ThrottleHolds'
<1>1. PICK m \in Machines : m = requests[r].machine /\ requests[r].at # 0
  BY PendingIs DEF Throttles
<1>2. PICK k : k = Key(r)
  OBVIOUS
<1>3. PICK mine : mine = Append(Recent(HitsOf(hits[m], k)), clock)
  OBVIOUS
<1>4. /\ hits' = [hits EXCEPT ![m] = WithHit(hits[m], k)] /\ clock' = clock
      /\ Len(mine) > MaxHits => passed' = passed
      /\ ~(Len(mine) > MaxHits) => passed' = passed \cup {<<r, m, clock>>}
  <2>1. hits' = [hits EXCEPT ![m] = WithHit(hits[m], k)] /\ clock' = clock
    BY <1>1, <1>2, Zenon DEF Throttles
  <2>2. /\ Len(mine) > MaxHits => passed' = passed
        /\ ~(Len(mine) > MaxHits) => passed' = passed \cup {<<r, m, clock>>}
    BY <1>1, <1>2, <1>3, Zenon DEF Throttles
  <2> QED BY <2>1, <2>2
<1>5. KeysStay /\ requests'[r].door = requests[r].door
  BY OthersStay, SameDoors
<1>6. passed' \in {passed, passed \cup {<<r, m, clock>>}}
  BY <1>4
<1>7. \A y \in Machines : hits[y] = hits[y] /\ \A z \in DOMAIN hits[y] : hits[y][z] \in Seq(Nat) /\ hits[y][z] # <<>>
  BY DEF ThrottleHolds
<1>8. DOMAIN hits = Machines
  BY DEF ThrottleHolds
<1>9. DOMAIN hits' = Machines /\ hits'[m] = WithHit(hits[m], k) /\ \A y \in Machines : y # m => hits'[y] = hits[y]
  BY <1>4, <1>8
<1>10. /\ \A y \in DOMAIN hits'[m] : hits'[m][y] \in Seq(Nat) /\ hits'[m][y] # <<>>
       /\ \A n, n1 \in Nat : \A x \in Cutoff..clock :
            Counts(HitsOf(hits[m], k), n, x) /\ n1 <= n + 1 /\ (x = clock => n1 = 0) => Counts(HitsOf(hits'[m], k), n1, x)
       /\ \A n \in Nat : \A x \in Cutoff..clock : \A y : y # k /\ Counts(HitsOf(hits[m], y), n, x) => Counts(HitsOf(hits'[m], y), n, x)
  BY <1>7, <1>9, HitCounts
<1>11. ASSUME NEW k2, NEW m2 \in Machines, NEW x \in Cutoff..clock
       PROVE  Counts(HitsOf(hits'[m2], k2), Through(k2, m2, x)', x) /\ Through(k2, m2, x)' <= MaxHits
  <2>1. PICK n, n1 \in Nat : n = Through(k2, m2, x) /\ n1 = Through(k2, m2, x)' /\ n1 <= n + 1 /\ (x = clock => n1 = 0)
                             /\ (k2 # k \/ m2 # m \/ passed' = passed => n1 = n)
    BY <1>2, <1>4, <1>5, <1>6, ThroughGrows
  <2>2. Counts(HitsOf(hits[m2], k2), n, x) /\ n <= MaxHits
    BY <2>1, EveryKeyCounts DEF KeyCounts
  <2>3. CASE m2 # m
    BY <1>9, <2>1, <2>2, <2>3
  <2>4. CASE m2 = m /\ k2 # k
    BY <1>10, <2>1, <2>2, <2>4
  <2>5. CASE m2 = m /\ k2 = k
    <3>1. Counts(HitsOf(hits'[m], k), n1, x)
      BY <1>10, <2>1, <2>2, <2>5
    <3>2. CASE passed' = passed
      BY <2>1, <2>2, <2>5, <3>1, <3>2
    <3>3. CASE passed' # passed
      <4>1. ~(Len(mine) > MaxHits)
        BY <1>4, <3>3
      <4>2. HitsOf(hits[m], k) \in Seq(Nat)
        BY <1>7 DEF HitsOf
      <4>3. mine \in Seq(Nat) /\ Counts(mine, n1, x)
        BY <1>3, <2>1, <2>2, <2>5, <4>2, NewHitCounts
      <4>4. Len(mine) \in Nat /\ n1 <= Len(mine)
        BY <4>3 DEF Counts
      <4>5. n1 <= MaxHits
        BY <2>1, <4>1, <4>4, ClockIs
      <4> QED BY <2>1, <2>5, <3>1, <4>5
    <3> QED BY <3>2, <3>3
  <2> QED BY <2>3, <2>4, <2>5
<1>12. ASSUME NEW k2, NEW m2 \in Machines PROVE KeyCounts(k2, m2)'
  BY <1>4, <1>11 DEF KeyCounts, Cutoff
<1>13. (\A k2 \in {Key(q) : q \in HttpCalls} : \A m2 \in Machines : KeyCounts(k2, m2))'
  BY <1>12
<1>14. \A m2 \in Machines : \A y \in DOMAIN hits'[m2] : hits'[m2][y] \in Seq(Nat) /\ hits'[m2][y] # <<>>
  BY <1>7, <1>9, <1>10
<1>15. IsFiniteSet(passed')
  <2>1. PICK hit : hit = <<r, m, clock>>
    OBVIOUS
  <2>2. IsFiniteSet(passed) /\ IsFiniteSet(passed \cup {hit})
    BY FS_AddElement DEF ThrottleHolds
  <2> QED BY <1>6, <2>1, <2>2
<1>16. passed' \subseteq HttpCalls \X Machines \X (0..clock')
  <2>1. clock \in 0..clock
    BY ClockIs
  <2> QED BY <1>4, <1>6, <2>1 DEF ThrottleHolds
<1>17. \A p \in passed' : requests'[p[1]].at # 0
  <2>1. \A p \in passed : p[1] \in HttpCalls /\ requests[p[1]].at # 0
    BY DEF ThrottleHolds
  <2>2. PICK c : c = clock
    OBVIOUS
  <2>3. <<r, m, c>>[1] = r
    OBVIOUS
  <2>4. \A p \in passed' : p \in passed \/ p[1] = r
    BY <1>6, <2>2, <2>3
  <2> QED BY <2>1, <2>4, OthersStay
<1> QED BY <1>9, <1>13, <1>14, <1>15, <1>16, <1>17 DEF ThrottleHolds

\* A request that goes on, alone, leaves the rest as it was.
LEMMA RequestMoves ==
  ASSUME DoorInv, NEW r \in HttpCalls, UNCHANGED <<clock, creds, admitted, sockets>>,
         requests' \in [HttpCalls -> RequestRow], \A q \in HttpCalls : q # r => requests'[q] = requests[q],
         RequestHolds(r)', ThrottleHolds', TicketHolds(r)', UsedUp,
         tickets' \in [HttpCalls -> TicketRow], \A q \in HttpCalls : q # r => tickets'[q] = tickets[q]
  PROVE  DoorInv'
<1>1. DoorTyped /\ \A s \in Sockets : SocketHolds(s)
  BY DEF DoorInv
<1>2. DoorTyped'
  BY <1>1 DEF DoorTyped
<1>3. PeopleGo
  BY DEF PeopleGo
<1>4. ASSUME NEW q \in HttpCalls PROVE RequestHolds(q)'
  <2>1. CASE q = r
    BY <2>1
  <2>2. CASE q # r
    <3>1. requests'[q] = requests[q] /\ RequestHolds(q)
      BY <1>1, <2>2 DEF DoorInv
    <3> QED BY <1>3, <3>1, RequestStays
  <2> QED BY <2>1, <2>2
<1>5. ASSUME NEW q \in HttpCalls PROVE TicketHolds(q)'
  <2>1. CASE q = r
    BY <2>1
  <2>2. CASE q # r
    <3>1. requests'[q] = requests[q] /\ TicketHolds(q) /\ tickets'[q] = tickets[q]
      BY <1>1, <2>2 DEF DoorInv
    <3> QED BY <3>1, TicketStays
  <2> QED BY <2>1, <2>2
<1>6. ASSUME NEW s \in Sockets PROVE SocketHolds(s)'
  BY <1>1, <1>3, SocketStays
<1>7. (\A s, z \in Sockets : OneActor(s, z))'
  BY DEF DoorInv, OneActor
<1> QED BY <1>2, <1>4, <1>5, <1>6, <1>7 DEF DoorInv

\* A check that is passed has been passed.
LEMMA PassingHolds ==
  ASSUME DoorTyped, NEW r \in HttpCalls, RequestHolds(r), Pending(r), NEW row, RequestGoes(r, row), row.status = 0, row.at = requests[r].at + 1,
         row.why = requests[r].why,
         Passed(r, Check(r)), UNCHANGED <<creds, admitted>>
  PROVE  RequestHolds(r)'
<1>1. PICK n \in Nat, at \in Nat : n = Len(Checks[requests[r].door]) /\ at = requests[r].at /\ at \in 1..n
  BY PendingIs
<1>2. PICK checks \in Seq(CheckNames) : checks = Checks[requests[r].door] /\ n = Len(checks) /\ DOMAIN checks = 1..n
  BY <1>1, PendingIs
<1>3. requests'[r] = row /\ row.door = requests[r].door /\ row.machine = requests[r].machine /\ row.live = requests[r].live /\ row.in = requests[r].in
  BY OthersStay DEF RequestGoes
<1>4. /\ requests[r].machine \in Machines /\ requests[r].door # "none" /\ requests[r].status = 0
      /\ CredOf[r] \in creds => requests[r].live
      /\ requests[r].in => Member(r) \in admitted
      /\ \A i \in DOMAIN checks : i < at => Passed(r, checks[i])
      /\ requests[r].why = "credential" => ~Proven(r)
      /\ requests[r].why = "access" => ~requests[r].in
  BY <1>1, <1>2, PendingIs DEF RequestHolds, Underway, Pending
<1>5. \A check : Passed(r, check) => Passed(r, check)'
  BY <1>3 DEF Passed, Member
<1>6. ASSUME NEW i \in 1..n, i < at + 1 PROVE Passed(r, checks[i])'
  <2>1. CASE i = at
    BY <1>1, <1>2, <1>5, <2>1 DEF Check
  <2>2. CASE i # at
    <3>1. i < at
      BY <1>6, <2>2
    <3> QED BY <1>2, <1>4, <1>5, <3>1
  <2> QED BY <2>1, <2>2
<1>7. at + 1 \in 1..(n + 2) /\ at + 1 # 0
  BY <1>1
<1>8. row.at = at + 1 /\ row.door # "none"
  BY <1>1, <1>3, <1>4
<1>9. (requests[r].at # 0 => Underway(r))'
  <2>1. Checks[requests'[r].door] = checks
    BY <1>2, <1>3
  <2>2. requests'[r].at \in 1..(Len(checks) + 2) /\ requests'[r].machine \in Machines /\ requests'[r].status = 0
    BY <1>2, <1>3, <1>4, <1>7, <1>8
  <2>3. (CredOf[r] \in creds => requests[r].live)' /\ (requests[r].in => Member(r) \in admitted)'
    BY <1>3, <1>4 DEF Member
  <2>4. \A i \in DOMAIN checks : i < requests'[r].at => Passed(r, checks[i])'
    BY <1>2, <1>3, <1>6, <1>8
  <2>5. (requests[r].why = "credential" => ~Proven(r))' /\ (requests[r].why = "access" => ~requests[r].in)'
    BY <1>3, <1>4 DEF Proven
  <2> QED BY <2>1, <2>2, <2>3, <2>4, <2>5 DEF Underway
<1>10. (requests'[r].at = 0 <=> requests'[r].door = "none") /\ (requests'[r].at = 0 => requests'[r].status = 0 /\ requests'[r].why = "none")
  BY <1>3, <1>7, <1>8
<1> QED BY <1>9, <1>10 DEF RequestHolds

\* What is refused is refused for a cause.
LEMMA RefusingHolds ==
  ASSUME DoorTyped, NEW r \in HttpCalls, RequestHolds(r), Pending(r), NEW row, RequestGoes(r, row), row.at = Len(Checks[requests[r].door]) + 2,
         row.status \notin {0, 200}, row.why = "credential" => ~Proven(r), row.why = "access" => ~requests[r].in,
         UNCHANGED <<creds, admitted>>
  PROVE  RequestHolds(r)'
<1>1. PICK n \in Nat : n = Len(Checks[requests[r].door])
  BY PendingIs
<1>3. requests'[r] = row /\ row.door = requests[r].door /\ row.machine = requests[r].machine /\ row.live = requests[r].live /\ row.in = requests[r].in
  BY OthersStay DEF RequestGoes
<1>4. /\ requests[r].machine \in Machines /\ requests[r].door # "none"
      /\ CredOf[r] \in creds => requests[r].live
      /\ requests[r].in => Member(r) \in admitted
  BY PendingIs DEF RequestHolds, Underway, Pending
<1>5. Proven(r)' => Proven(r)
  BY <1>3 DEF Proven
<1>6. n + 2 \in 1..(n + 2) /\ n + 2 # 0 /\ ~(n + 2 < n + 2)
  BY <1>1
<1>7. (requests[r].at # 0 => Underway(r))'
  <2>1. Len(Checks[requests'[r].door]) = n /\ requests'[r].at = n + 2
    BY <1>1, <1>3
  <2>2. requests'[r].at \in 1..(Len(Checks[requests'[r].door]) + 2) /\ requests'[r].machine \in Machines
    BY <1>3, <1>4, <1>6, <2>1
  <2>3. ~(requests'[r].at < Len(Checks[requests'[r].door]) + 2)
    BY <1>6, <2>1
  <2>4. requests'[r].status \notin {0, 200} /\ (requests[r].why = "credential" => ~Proven(r))'
    BY <1>3, <1>5
  <2>5. (CredOf[r] \in creds => requests[r].live)' /\ (requests[r].in => Member(r) \in admitted)'
    BY <1>3, <1>4 DEF Member
  <2>6. (requests[r].why = "access" => ~requests[r].in)'
    BY <1>3
  <2> QED BY <2>2, <2>3, <2>4, <2>5, <2>6 DEF Underway
<1>8. (requests'[r].at = 0 <=> requests'[r].door = "none") /\ (requests'[r].at = 0 => requests'[r].status = 0 /\ requests'[r].why = "none")
  BY <1>1, <1>3, <1>4, <1>6
<1> QED BY <1>7, <1>8 DEF RequestHolds

\* A request that passes or is refused keeps its ticket, which it has not got.
LEMMA AnsweredWithoutTicket ==
  ASSUME DoorInv, NEW r \in HttpCalls, NEW row, Pending(r), RequestGoes(r, row), UNCHANGED <<clock, creds, admitted, sockets, tickets>>,
         RequestHolds(r)', ThrottleHolds'
  PROVE  DoorInv'
<1>1. DoorTyped /\ RequestHolds(r) /\ TicketHolds(r)
  BY DEF DoorInv
<1>2. requests[r].status = 0
  BY <1>1, PendingIs
<1>3. TicketHolds(r)'
  BY <1>1, <1>2, TicketStays
<1>4. UsedUp /\ tickets' \in [HttpCalls -> TicketRow] /\ \A q \in HttpCalls : q # r => tickets'[q] = tickets[q]
  BY <1>1 DEF UsedUp, DoorTyped
<1>5. requests' \in [HttpCalls -> RequestRow] /\ \A q \in HttpCalls : q # r => requests'[q] = requests[q]
  BY <1>1, OthersStay
<1> QED BY <1>3, <1>4, <1>5, RequestMoves

\* The throttles do not mind a request that goes on from a check to somewhere.
LEMMA OnlyRequests ==
  ASSUME DoorTyped, ThrottleHolds, NEW r \in HttpCalls, NEW row, RequestGoes(r, row), row.at # 0, UNCHANGED <<clock, hits, passed>>
  PROVE  ThrottleHolds'
<1>1. KeysStay
  BY OthersStay, SameDoors
<1>2. \A p \in passed : p[1] \in HttpCalls /\ requests[p[1]].at # 0
  BY DEF ThrottleHolds
<1>3. \A p \in passed : requests'[p[1]].at # 0
  BY <1>2, OthersStay
<1> QED BY <1>1, <1>3, ThrottleStays

\* Whatever is refused, it is refused once, and stays as it was but for its answer.
LEMMA TurnedAway ==
  ASSUME DoorInv, NEW r \in HttpCalls, Pending(r), Turned(r), UNCHANGED <<clock, creds, admitted, hits, passed, tickets, sockets>>,
         Check(r) = "credential" => ~Proven(r), Check(r) = "access" => ~requests[r].in
  PROVE  DoorInv'
<1>1. DoorTyped /\ RequestHolds(r) /\ ThrottleHolds
  BY DEF DoorInv
<1>2. Check(r) \in CheckNames /\ Len(Checks[requests[r].door]) \in Nat
  BY <1>1, PendingIs
<1>10. PICK door : door = requests[r].door
  OBVIOUS
<1>11. PICK check \in CheckNames : check = Check(r)
  BY <1>2
<1>3. check = Check(r) /\ door = requests[r].door
  BY <1>10, <1>11
<1>4. PICK status \in StatusesOfCheck(door, check) : requests' = Refused(r, status)
  BY <1>3 DEF Turned
<1>5. status \in StatusCodes \ {0, 200}
  <2>1. CommandStatuses(door) \subseteq {400, 403, 404, 422, 429}
    BY DEF CommandStatuses
  <2>2. CASE check \in {"credential", "lease", "access", "human", "exists", "hostOp"}
    BY <1>4, <2>2 DEF StatusesOfCheck, StatusCodes
  <2>3. CASE check \in {"scope", "configured", "throttle", "shape"}
    BY <1>4, <2>3 DEF StatusesOfCheck, StatusCodes
  <2>4. CASE check = "command"
    <3>1. StatusesOfCheck(door, check) = CommandStatuses(door)
      BY <2>4 DEF StatusesOfCheck
    <3> QED BY <1>4, <2>1, <3>1 DEF StatusCodes
  <2> QED BY <1>3, <2>2, <2>3, <2>4 DEF CheckNames
<1>6. PICK row : RequestGoes(r, row) /\ row.status = status /\ row.why = check /\ row.at = Len(Checks[requests[r].door]) + 2
  BY <1>1, <1>2, <1>3, <1>4, <1>5, RefusedIs
<1>7. RequestHolds(r)'
  BY <1>1, <1>3, <1>5, <1>6, RefusingHolds
<1>8. row.at # 0
  BY <1>2, <1>6
<1>9. ThrottleHolds'
  BY <1>1, <1>6, <1>8, OnlyRequests
<1> QED BY <1>6, <1>7, <1>9, AnsweredWithoutTicket

\* Whatever passes has been passed.
LEMMA LetOn ==
  ASSUME DoorInv, NEW r \in HttpCalls, Pending(r), requests' = Passes(r), UNCHANGED <<clock, creds, admitted, hits, passed, tickets, sockets>>,
         Passed(r, Check(r))
  PROVE  DoorInv'
<1>1. DoorTyped /\ RequestHolds(r) /\ ThrottleHolds
  BY DEF DoorInv
<1>2. requests[r].at \in Nat /\ requests[r].status = 0
  BY <1>1, PendingIs
<1>3. PICK row : RequestGoes(r, row) /\ row.status = 0 /\ row.why = requests[r].why /\ row.at = requests[r].at + 1
  BY <1>1, <1>2, PassesIs
<1>4. RequestHolds(r)'
  BY <1>1, <1>3, PassingHolds
<1>5. row.at # 0
  BY <1>2, <1>3
<1>6. ThrottleHolds'
  BY <1>1, <1>3, <1>5, OnlyRequests
<1> QED BY <1>3, <1>4, <1>6, AnsweredWithoutTicket

\* A proof that is good now was when it was sent.
LEMMA GoodProof ==
  ASSUME DoorInv, NEW r \in HttpCalls, Pending(r)
  PROVE  /\ Proven(r) => requests[r].live /\ KindOf[CredOf[r]] \in Takes(requests[r].door)
         /\ requests[r].in => Member(r) \in admitted
<1>1. requests[r].at # 0
  BY PendingIs DEF DoorInv
<1>2. Underway(r)
  BY <1>1 DEF DoorInv, RequestHolds
<1> QED BY <1>2 DEF Underway, Proven

\* A check of the database.
LEMMA DoorChecksRow ==
  ASSUME DoorInv, NEW r \in HttpCalls, ChecksRow(r)
  PROVE  DoorInv'
<1>1. Pending(r) /\ Check(r) \in {"credential", "access", "human"} /\ UNCHANGED <<clock, creds, admitted, hits, passed, tickets, sockets>>
  BY DEF ChecksRow
<1>2. PICK check : check = Check(r)
  OBVIOUS
<1>3. CASE Holds(r)
  <2>1. Passed(r, check)
    <3>1. CASE check = "credential"
      BY <1>1, <1>2, <1>3, <3>1, GoodProof DEF Holds, Passed
    <3>2. CASE check = "access"
      BY <1>2, <1>3, <3>2 DEF Holds, Passed
    <3>3. CASE check = "human"
      BY <1>2, <1>3, <3>3 DEF Holds, Passed
    <3> QED BY <1>1, <1>2, <3>1, <3>2, <3>3
  <2>2. requests' = Passes(r)
    BY <1>3 DEF ChecksRow
  <2> QED BY <1>1, <1>2, <2>1, <2>2, LetOn
<1>4. CASE ~Holds(r)
  <2>1. check = "credential" => ~Proven(r)
    BY <1>2, <1>4 DEF Holds
  <2>2. check = "access" => ~requests[r].in
    BY <1>1, <1>2, <1>4, GoodProof DEF Holds
  <2>3. Turned(r)
    BY <1>4 DEF ChecksRow
  <2> QED BY <1>1, <1>2, <2>1, <2>2, <2>3, TurnedAway
<1> QED BY <1>3, <1>4

\* A check of a lease.
LEMMA DoorChecksLease ==
  ASSUME DoorInv, NEW r \in HttpCalls, NEW lapsed, ChecksLease(r, lapsed)
  PROVE  DoorInv'
<1>1. Pending(r) /\ Check(r) = "lease" /\ UNCHANGED <<clock, creds, admitted, hits, passed, tickets, sockets>>
  BY DEF ChecksLease
<1>2. CASE Proven(r) /\ ~lapsed
  <2>1. requests' = Passes(r)
    BY <1>2 DEF ChecksLease
  <2>2. Passed(r, Check(r))
    BY <1>1, <1>2, GoodProof DEF Passed
  <2> QED BY <1>1, <2>1, <2>2, LetOn
<1>3. CASE ~(Proven(r) /\ ~lapsed)
  <2>1. Turned(r)
    BY <1>3 DEF ChecksLease
  <2> QED BY <1>1, <2>1, TurnedAway
<1> QED BY <1>2, <1>3

\* A check of the body.
LEMMA DoorChecksBody ==
  ASSUME DoorInv, NEW r \in HttpCalls, NEW good, ChecksBody(r, good)
  PROVE  DoorInv'
<1>1. /\ Pending(r) /\ Check(r) \in {"shape", "exists", "hostOp", "scope", "configured", "command"}
      /\ UNCHANGED <<clock, creds, admitted, hits, passed, tickets, sockets>>
  BY DEF ChecksBody
<1>2. CASE good
  <2>1. requests' = Passes(r)
    BY <1>2 DEF ChecksBody
  <2>2. Passed(r, Check(r))
    BY <1>1 DEF Passed
  <2> QED BY <1>1, <2>1, <2>2, LetOn
<1>3. CASE ~good
  <2>1. Turned(r)
    BY <1>3 DEF ChecksBody
  <2> QED BY <1>1, <2>1, TurnedAway
<1> QED BY <1>2, <1>3

\* The throttle.
LEMMA DoorThrottles ==
  ASSUME DoorInv, NEW r \in HttpCalls, Throttles(r)
  PROVE  DoorInv'
<1>1. DoorTyped /\ RequestHolds(r) /\ ThrottleHolds
  BY DEF DoorInv
<1>2. Pending(r) /\ Check(r) = "throttle" /\ UNCHANGED <<clock, creds, admitted, tickets, sockets>>
  BY DEF Throttles
<1>3. /\ requests[r].door \in DOMAIN Checks /\ requests[r].at \in Nat /\ requests[r].at # 0 /\ requests[r].status = 0
      /\ Len(Checks[requests[r].door]) \in Nat /\ Check(r) \in CheckNames
  BY <1>1, <1>2, PendingIs
<1>4. requests' = Passes(r) \/ requests' = Refused(r, 429)
  BY DEF Throttles
<1>5. CASE requests' = Passes(r)
  <2>2. PICK row : RequestGoes(r, row) /\ row.status = 0 /\ row.why = requests[r].why /\ row.at = requests[r].at + 1
    BY <1>1, <1>3, <1>5, PassesIs
  <2>3. Passed(r, Check(r))
    BY <1>2 DEF Passed
  <2>4. RequestHolds(r)'
    BY <1>1, <1>2, <2>2, <2>3, PassingHolds
  <2>5. ThrottleHolds'
    BY <1>1, <1>3, <2>2, ThrottleCounts
  <2> QED BY <1>2, <2>2, <2>4, <2>5, AnsweredWithoutTicket
<1>6. CASE requests' = Refused(r, 429)
  <2>3. 429 \in StatusCodes
    BY DEF StatusCodes
  <2>4. PICK row : RequestGoes(r, row) /\ row.status = 429 /\ row.why = "throttle" /\ row.at = Len(Checks[requests[r].door]) + 2
    BY <1>1, <1>2, <1>3, <1>6, <2>3, RefusedIs
  <2>5. RequestHolds(r)'
    BY <1>1, <1>2, <2>4, RefusingHolds
  <2>6. ThrottleHolds'
    BY <1>1, <1>3, <2>4, ThrottleCounts
  <2> QED BY <1>2, <2>4, <2>5, <2>6, AnsweredWithoutTicket
<1> QED BY <1>4, <1>5, <1>6

\* The door does what it does.
LEMMA DoorActs ==
  ASSUME DoorInv, NEW r \in HttpCalls, Acts(r)
  PROVE  DoorInv'
<1>1. DoorTyped /\ RequestHolds(r) /\ ThrottleHolds /\ TicketHolds(r)
  BY DEF DoorInv
<1>2. requests[r].door # "none" /\ requests[r].at = Len(Checks[requests[r].door]) + 1 /\ UNCHANGED <<clock, creds, admitted, hits, passed, sockets>>
  BY DEF Acts
<1>3. requests[r].door \in DOMAIN Checks
  BY <1>1, <1>2, DoorsAre, RequestIs
<1>4. PICK checks \in Seq(CheckNames) : checks = Checks[requests[r].door]
  BY <1>3, RowsAre
<1>5. PICK n \in Nat : n = Len(checks) /\ DOMAIN checks = 1..n
  BY <1>4
<1>6. PICK q \in RequestRow : q = requests[r] /\ q.at = n + 1
  BY <1>1, <1>2, <1>4, <1>5, DoorsAre
<1>7. n + 1 # 0 /\ n + 1 < n + 2 /\ n + 1 + 1 = n + 2
  BY <1>5
<1>8. /\ q.status = 0 /\ q.machine \in Machines /\ (CredOf[r] \in creds => q.live) /\ (q.in => Member(r) \in admitted)
      /\ \A i \in 1..n : i < n + 1 => Passed(r, checks[i])
      /\ (q.why = "credential" => ~Proven(r)) /\ (q.why = "access" => ~q.in)
  BY <1>1, <1>4, <1>5, <1>6, <1>7 DEF RequestHolds, Underway
<1>9. PICK row, end : end = n + 2 /\ row = [q EXCEPT !.status = 200, !.at = end]
  OBVIOUS
<1>10. end \in Nat /\ 200 \in StatusCodes
  BY <1>5, <1>9 DEF StatusCodes
<1>11. row \in RequestRow /\ row.status = 200 /\ row.why = q.why /\ row.at = end /\ row.door = q.door /\ row.machine = q.machine /\ row.live = q.live /\ row.in = q.in
  BY <1>9, <1>10, ZenonT(60) DEF RequestRow
<1>12. requests' = [requests EXCEPT ![r] = row]
  <2>1. requests' = [requests EXCEPT ![r] = [q EXCEPT !.status = IF q.status = 0 THEN 200 ELSE q.status, !.at = q.at + 1]]
    BY <1>1, <1>6, DoorsAre DEF Acts
  <2>2. (IF q.status = 0 THEN 200 ELSE q.status) = 200 /\ q.at + 1 = end
    BY <1>5, <1>6, <1>7, <1>8, <1>9
  <2> QED BY <1>9, <2>1, <2>2
<1>13. RequestGoes(r, row)
  BY <1>6, <1>11, <1>12 DEF RequestGoes
<1>14. requests'[r] = row
  BY <1>1, <1>13, OthersStay
<1>15. \A check : Passed(r, check) => Passed(r, check)'
  BY <1>2, <1>6, <1>11, <1>14 DEF Passed, Member
<1>16. (requests[r].at # 0 => Underway(r))'
  <2>1. Checks[requests'[r].door] = checks /\ requests'[r].at = end /\ requests'[r].status = 200
    BY <1>4, <1>6, <1>11, <1>14
  <2>2. end \in 1..(Len(checks) + 2) /\ ~(end < Len(checks) + 2) /\ requests'[r].machine \in Machines
    BY <1>5, <1>8, <1>9, <1>11, <1>14
  <2>3. (CredOf[r] \in creds => requests[r].live)' /\ (requests[r].in => Member(r) \in admitted)'
    BY <1>2, <1>8, <1>11, <1>14 DEF Member
  <2>4. \A i \in DOMAIN checks : Passed(r, checks[i])'
    BY <1>5, <1>8, <1>15
  <2>5. (requests[r].why = "credential" => ~Proven(r))' /\ (requests[r].why = "access" => ~requests[r].in)'
    BY <1>2, <1>6, <1>8, <1>11, <1>14 DEF Proven
  <2> QED BY <2>1, <2>2, <2>3, <2>4, <2>5 DEF Underway
<1>17. (requests'[r].at = 0 <=> requests'[r].door = "none") /\ (requests'[r].at = 0 => requests'[r].status = 0 /\ requests'[r].why = "none")
  BY <1>2, <1>5, <1>6, <1>9, <1>11, <1>14
<1>18. RequestHolds(r)'
  BY <1>16, <1>17 DEF RequestHolds
<1>19. row.at # 0
  BY <1>5, <1>9, <1>11
<1>20. ThrottleHolds'
  BY <1>1, <1>2, <1>13, <1>19, OnlyRequests
<1>21. tickets[r].state = "none"
  BY <1>1, <1>6, <1>8 DEF TicketHolds
<1>22. PICK t : t = [state |-> "issued", member |-> Member(r)]
  OBVIOUS
<1>23. t \in TicketRow /\ t.state = "issued" /\ t.member = Member(r)
  BY <1>22, DoorsAssumption DEF TicketRow, Member, Callers
<1>24. tickets' = tickets \/ tickets' = [tickets EXCEPT ![r] = t]
  BY <1>22 DEF Acts
<1>25. tickets' \in [HttpCalls -> TicketRow] /\ tickets'[r] \in {tickets[r], t} /\ \A z \in HttpCalls : z # r => tickets'[z] = tickets[z]
  BY <1>1, <1>23, <1>24 DEF DoorTyped
<1>26. UsedUp
  BY <1>21, <1>25 DEF UsedUp
<1>27. TicketHolds(r)'
  <2>1. Member(r)' = Member(r)
    BY DEF Member
  <2>2. CASE tickets'[r] = t
    BY <1>11, <1>14, <1>23, <2>1, <2>2 DEF TicketHolds
  <2>3. CASE tickets'[r] = tickets[r]
    BY <1>1, <1>21, <2>3 DEF TicketHolds
  <2> QED BY <1>25, <2>2, <2>3
<1>28. requests' \in [HttpCalls -> RequestRow] /\ \A z \in HttpCalls : z # r => requests'[z] = requests[z]
  BY <1>1, <1>13, OthersStay
<1> QED BY <1>2, <1>18, <1>20, <1>25, <1>26, <1>27, <1>28, RequestMoves

\* A request is sent.
LEMMA DoorSends ==
  ASSUME DoorInv, NEW r \in HttpCalls, NEW m \in Machines, NEW door \in DoorsOf[r], Send(r, m, door)
  PROVE  DoorInv'
<1>1. DoorTyped /\ RequestHolds(r) /\ ThrottleHolds /\ TicketHolds(r)
  BY DEF DoorInv
<1>2. requests[r].at = 0 /\ UNCHANGED <<clock, creds, admitted, hits, passed, tickets, sockets>>
  BY DEF Send
<1>3. door \in DOMAIN Checks /\ door # "none"
  BY RoutesAssumption, RowsAre
<1>4. PICK n \in Nat : n = Len(Checks[door])
  BY <1>3, RowsAre
<1>5. PICK q \in RequestRow : q = requests[r] /\ q.at = 0 /\ q.status = 0 /\ q.why = "none"
  BY <1>1, <1>2, DoorsAre DEF RequestHolds
<1>6. PICK live, within : live = (CredOf[r] \in creds) /\ within = (Member(r) \in admitted)
  OBVIOUS
<1>7. live \in BOOLEAN /\ within \in BOOLEAN
  BY <1>6
<1>8. PICK row : row = [q EXCEPT !.door = door, !.at = 1, !.machine = m, !.live = live, !.in = within]
  OBVIOUS
<1>9. row \in RequestRow /\ row.door = door /\ row.at = 1 /\ row.machine = m /\ row.live = live /\ row.in = within /\ row.status = 0 /\ row.why = "none"
  BY <1>3, <1>5, <1>7, <1>8 DEF RequestRow
<1>10. requests' = [requests EXCEPT ![r] = row]
  BY <1>1, <1>5, <1>6, <1>8, DoorsAre DEF Send
<1>11. requests' \in [HttpCalls -> RequestRow] /\ requests'[r] = row /\ \A z \in HttpCalls : z # r => requests'[z] = requests[z]
  BY <1>1, <1>9, <1>10 DEF DoorTyped
<1>12. live <=> CredOf[r] \in creds
  BY <1>6, Zenon
<1>13. within <=> Member(r) \in admitted
  BY <1>6, Zenon
<1>14. (requests[r].at # 0 => Underway(r))'
  <2>1. requests'[r].at = 1 /\ requests'[r].status = 0 /\ requests'[r].machine = m /\ requests'[r].door = door /\ requests'[r].why = "none"
    BY <1>9, <1>11
  <2>2. 1 \in 1..(Len(Checks[door]) + 2)
    BY <1>4
  <2>3. (CredOf[r] \in creds => requests[r].live)'
    BY <1>2, <1>9, <1>11, <1>12
  <2>4. (requests[r].in => Member(r) \in admitted)'
    BY <1>2, <1>9, <1>11, <1>13 DEF Member
  <2>5. \A i \in DOMAIN Checks[door] : ~(i < 1)
    BY <1>3, RowsAre
  <2> QED BY <2>1, <2>2, <2>3, <2>4, <2>5 DEF Underway
<1>15. (requests'[r].at = 0 <=> requests'[r].door = "none") /\ (requests'[r].at = 0 => requests'[r].status = 0 /\ requests'[r].why = "none")
  BY <1>3, <1>9, <1>11
<1>16. RequestHolds(r)'
  BY <1>14, <1>15 DEF RequestHolds
<1>17. \A p \in passed : p[1] \in HttpCalls /\ requests[p[1]].at # 0
  BY <1>1 DEF ThrottleHolds
<1>18. \A p \in passed : requests'[p[1]] = requests[p[1]]
  BY <1>2, <1>11, <1>17
<1>19. ThrottleHolds'
  BY <1>1, <1>2, <1>17, <1>18, ThrottleStays DEF KeysStay
<1>20. TicketHolds(r)'
  BY <1>1, <1>2, <1>5, TicketStays
<1>21. UsedUp /\ tickets' \in [HttpCalls -> TicketRow] /\ \A z \in HttpCalls : z # r => tickets'[z] = tickets[z]
  BY <1>1, <1>2 DEF UsedUp, DoorTyped
<1> QED BY <1>2, <1>11, <1>16, <1>19, <1>20, <1>21, RequestMoves

\* The fields of a socket.
LEMMA SocketIs ==
  ASSUME NEW k \in SocketRow
  PROVE  /\ k.at \in SocketPlaces /\ k.actor \in Callers \cup {"none"} /\ k.subscribed \in BOOLEAN /\ k.alive \in BOOLEAN
         /\ k.peer \in {"there", "gone"} /\ k.beats \in Nat /\ k.queue \in Seq(DOMAIN Outcomes) /\ k.ran \in Seq(Callers \cup {"none"})
         /\ k.answered \in Nat
BY DEF SocketRow

\* A socket that goes on, alone, takes no ticket that another has.
LEMMA SocketMoves ==
  ASSUME DoorInv, NEW s \in Sockets, NEW next \in SocketRow, Moved(s, next), SocketFits(s, next), tickets' \in [HttpCalls -> TicketRow], UsedUp,
         \A r \in HttpCalls : tickets'[r] = tickets[r] \/ (tickets[r].state # "none" /\ tickets'[r].state # "none" /\ tickets'[r].member = tickets[r].member),
         next.actor # "none" => /\ tickets'[TicketFor[s]].state = "consumed"
                                /\ sockets[s].actor # "none" \/ tickets[TicketFor[s]].state # "consumed"
  PROVE  DoorInv'
<1>1. DoorTyped /\ ThrottleHolds /\ \A z \in Sockets : SocketHolds(z)
  BY DEF DoorInv
<1>2. UNCHANGED <<clock, creds, admitted, requests, hits, passed>> /\ sockets' = [sockets EXCEPT ![s] = next]
  BY DEF Moved
<1>3. sockets' \in [Sockets -> SocketRow] /\ sockets'[s] = next /\ \A z \in Sockets : z # s => sockets'[z] = sockets[z]
  BY <1>1, <1>2 DEF DoorTyped
<1>4. DoorTyped'
  BY <1>1, <1>2, <1>3 DEF DoorTyped
<1>5. PeopleGo
  BY <1>2 DEF PeopleGo
<1>6. ASSUME NEW r \in HttpCalls PROVE RequestHolds(r)'
  BY <1>2, <1>5, RequestStays DEF DoorInv
<1>7. ASSUME NEW r \in HttpCalls PROVE TicketHolds(r)'
  <2>1. TicketHolds(r) /\ requests'[r] = requests[r] /\ tickets'[r].member = tickets[r].member
    BY <1>2 DEF DoorInv
  <2> QED BY <2>1, TicketStays
<1>8. ThrottleHolds'
  <2>1. KeysStay /\ \A p \in passed : requests'[p[1]].at # 0
    BY <1>1, <1>2 DEF KeysStay, ThrottleHolds
  <2> QED BY <1>1, <1>2, <2>1, ThrottleStays
<1>9. ASSUME NEW z \in Sockets PROVE SocketHolds(z)'
  <2>1. CASE z = s
    <3>1. SocketFits(s, next)'
      BY <1>2 DEF SocketFits, Member
    <3>2. SocketFits(s, sockets[s])'
      BY <1>3, <3>1 DEF SocketFits, Member
    <3> QED BY <1>3, <2>1, <3>2 DEF SocketHolds
  <2>2. CASE z # s
    BY <1>1, <1>3, <1>5, <2>2, SocketStays
  <2> QED BY <2>1, <2>2
<1>10. ASSUME NEW z \in Sockets, z # s, TicketFor[s] = TicketFor[z] PROVE ~(next.actor # "none" /\ sockets[z].actor # "none")
  <2>1. sockets[z].actor # "none" => tickets[TicketFor[s]].state = "consumed"
    BY <1>1, <1>10 DEF SocketHolds
  <2>2. ~(sockets[s].actor # "none" /\ sockets[z].actor # "none")
    BY <1>10 DEF DoorInv, OneActor
  <2> QED BY <2>1, <2>2
<1>11. ASSUME NEW y \in Sockets, NEW z \in Sockets PROVE OneActor(y, z)'
  <2>1. CASE y = s /\ z # s
    BY <1>3, <1>10, <2>1 DEF OneActor
  <2>2. CASE y # s /\ z = s
    BY <1>3, <1>10, <2>2 DEF OneActor
  <2>3. CASE y # s /\ z # s
    BY <1>3, <2>3 DEF OneActor, DoorInv
  <2>4. CASE y = z
    BY <2>4 DEF OneActor
  <2> QED BY <2>1, <2>2, <2>3, <2>4
<1> QED BY <1>4, <1>6, <1>7, <1>8, <1>9, <1>11 DEF DoorInv

\* A step that leaves the tickets and takes no actor.
LEMMA SocketGoes ==
  ASSUME DoorInv, NEW s \in Sockets, NEW next \in SocketRow, Moved(s, next), SocketFits(s, next), tickets' = tickets,
         next.actor # "none" => sockets[s].actor # "none"
  PROVE  DoorInv'
<1>1. tickets' \in [HttpCalls -> TicketRow] /\ UsedUp
  BY DEF DoorInv, DoorTyped, UsedUp
<1>2. next.actor # "none" => tickets'[TicketFor[s]].state = "consumed"
  BY DEF DoorInv, SocketHolds
<1> QED BY <1>1, <1>2, SocketMoves

\* The socket of a step.
LEMMA ThisSocket ==
  ASSUME DoorInv, NEW s \in Sockets
  PROVE  sockets[s] \in SocketRow /\ SocketFits(s, sockets[s]) /\ TicketFor[s] \in HttpCalls
BY DoorsAre, DoorsAssumption DEF DoorInv, SocketHolds

\* A socket connects.
LEMMA DoorConnects ==
  ASSUME DoorInv, NEW s \in Sockets, Connects(s)
  PROVE  DoorInv'
<1>1. PICK fs \in Frames[s] : Moved(s, [NoSocket EXCEPT !.at = "claim", !.subscribed = TRUE, !.queue = fs])
  BY DEF Connects
<1>2. PICK next : next = [NoSocket EXCEPT !.at = "claim", !.subscribed = TRUE, !.queue = fs]
  OBVIOUS
<1>3. fs \in Seq(DOMAIN Outcomes)
  BY FramesAssumption
<1>4. next = [at |-> "claim", room |-> FALSE, actor |-> "none", subscribed |-> TRUE, alive |-> TRUE,
             peer |-> "there", beats |-> 0, queue |-> fs, ran |-> <<>>, answered |-> 0]
  BY <1>2 DEF NoSocket
<1>5. next \in SocketRow
  BY <1>3, <1>4 DEF SocketRow, SocketPlaces
<1>6. SocketFits(s, next)
  BY <1>4 DEF SocketFits
<1>7. tickets' = tickets
  BY DEF Connects
<1>8. Moved(s, next)
  BY <1>1, <1>2, Zenon
<1>9. next.actor = "none"
  BY <1>4
<1> QED BY <1>5, <1>6, <1>7, <1>8, <1>9, SocketGoes

\* A refused socket.
LEMMA RefusedSocket ==
  ASSUME NEW s \in Sockets, NEW k \in SocketRow, k = sockets[s], SocketFits(s, k), k.at \in {"claim", "access"}
  PROVE  RefusesSocket(s) \in SocketRow /\ SocketFits(s, RefusesSocket(s)) /\ RefusesSocket(s).actor = k.actor
<1>1. PICK next : next = [k EXCEPT !.at = "refused", !.subscribed = FALSE]
  OBVIOUS
<1>2. /\ next \in SocketRow /\ next.at = "refused" /\ next.subscribed = FALSE /\ next.actor = k.actor /\ next.ran = k.ran
      /\ next.beats = k.beats /\ next.peer = k.peer /\ next.alive = k.alive
  BY <1>1 DEF SocketRow, SocketPlaces
<1>3. SocketFits(s, next)
  BY <1>2 DEF SocketFits
<1>4. RefusesSocket(s) = next
  BY <1>1 DEF RefusesSocket
<1> QED BY <1>2, <1>3, <1>4

\* Its member is admitted, or refused.
LEMMA DoorAdmits ==
  ASSUME DoorInv, NEW s \in Sockets, Admits(s)
  PROVE  DoorInv'
<1>1. PICK k \in SocketRow : k = sockets[s] /\ SocketFits(s, k)
  BY ThisSocket
<1>2. k.at = "access" /\ tickets' = tickets
  BY <1>1 DEF Admits
<1>3. CASE k.actor \in admitted
  <2>1. PICK next : next = [k EXCEPT !.at = "open"]
    OBVIOUS
  <2>2. /\ next \in SocketRow /\ next.at = "open" /\ next.subscribed = k.subscribed /\ next.actor = k.actor /\ next.ran = k.ran
        /\ next.beats = k.beats /\ next.peer = k.peer /\ next.alive = k.alive
    BY <2>1 DEF SocketRow, SocketPlaces
  <2>3. SocketFits(s, next)
    BY <1>1, <1>2, <1>3, <2>2 DEF SocketFits
  <2>4. Moved(s, next)
    BY <1>1, <1>3, <2>1 DEF Admits
  <2> QED BY <1>1, <1>2, <2>2, <2>3, <2>4, SocketGoes
<1>4. CASE k.actor \notin admitted
  <2>1. PICK next : next = RefusesSocket(s) /\ next \in SocketRow /\ SocketFits(s, next) /\ next.actor = k.actor
    BY <1>1, <1>2, RefusedSocket
  <2>2. Moved(s, next)
    BY <1>1, <1>4, <2>1 DEF Admits
  <2> QED BY <1>1, <1>2, <2>1, <2>2, SocketGoes
<1> QED BY <1>3, <1>4

\* Its open handler throws.
LEMMA DoorOpenFails ==
  ASSUME DoorInv, NEW s \in Sockets, OpenFails(s)
  PROVE  DoorInv'
<1>1. PICK k \in SocketRow : k = sockets[s] /\ SocketFits(s, k)
  BY ThisSocket
<1>2. k.at \in {"claim", "access"} /\ tickets' = tickets
  BY <1>1 DEF OpenFails
<1>3. PICK next : next = [k EXCEPT !.at = "mute", !.actor = "none"]
  OBVIOUS
<1>4. /\ next \in SocketRow /\ next.at = "mute" /\ next.subscribed = k.subscribed /\ next.actor = "none" /\ next.ran = k.ran
      /\ next.beats = k.beats /\ next.peer = k.peer /\ next.alive = k.alive
  BY <1>3 DEF SocketRow, SocketPlaces
<1>5. SocketFits(s, next)
  BY <1>1, <1>2, <1>4 DEF SocketFits
<1>6. Moved(s, next)
  BY <1>1, <1>3 DEF OpenFails
<1> QED BY <1>2, <1>4, <1>5, <1>6, SocketGoes

\* It claims its ticket.
LEMMA DoorClaims ==
  ASSUME DoorInv, NEW s \in Sockets, Claims(s)
  PROVE  DoorInv'
<1>1. PICK k \in SocketRow : k = sockets[s] /\ SocketFits(s, k)
  BY ThisSocket
<1>2. PICK r \in HttpCalls : r = TicketFor[s]
  BY ThisSocket
<1>3. PICK t \in TicketRow : t = tickets[r] /\ TicketHolds(r)
  BY DoorsAre DEF DoorInv
<1>4. k.at = "claim" /\ k.actor = "none"
  BY <1>1 DEF Claims, SocketFits
<1>5. CASE t.state = "issued"
  <2>1. t.member = Member(r)
    BY <1>3, <1>5 DEF TicketHolds
  <2>2. PICK used : used = [t EXCEPT !.state = "consumed"]
    OBVIOUS
  <2>3. used \in TicketRow /\ used.state = "consumed" /\ used.member = t.member
    BY <2>2 DEF TicketRow
  <2>4. tickets' = ConsumedAt(r)
    BY <1>2, <1>3, <1>5 DEF Claims
  <2>5. tickets' = [tickets EXCEPT ![r] = used]
    BY <1>3, <2>2, <2>4 DEF ConsumedAt
  <2>6. tickets' \in [HttpCalls -> TicketRow] /\ tickets'[r] = used /\ \A q \in HttpCalls : q # r => tickets'[q] = tickets[q]
    BY <2>3, <2>5 DEF DoorInv, DoorTyped
  <2>7. UsedUp
    BY <2>3, <2>6 DEF UsedUp
  <2>8. \A q \in HttpCalls : tickets'[q] = tickets[q] \/ (tickets[q].state # "none" /\ tickets'[q].state # "none" /\ tickets'[q].member = tickets[q].member)
    BY <1>3, <1>5, <2>3, <2>6
  <2>9. tickets'[TicketFor[s]].state = "consumed" /\ tickets[TicketFor[s]].state # "consumed"
    BY <1>2, <1>3, <1>5, <2>3, <2>6
  <2>10. CASE s \in ForRoom
    <3>1. PICK next : next = [k EXCEPT !.at = "access", !.actor = t.member]
      OBVIOUS
    <3>2. t.member \in Callers \cup {"none"}
      BY DEF TicketRow
    <3>3. /\ next \in SocketRow /\ next.at = "access" /\ next.subscribed = k.subscribed /\ next.actor = t.member /\ next.ran = k.ran
          /\ next.beats = k.beats /\ next.peer = k.peer /\ next.alive = k.alive
      BY <3>1, <3>2 DEF SocketRow, SocketPlaces
    <3>4. k.ran = <<>> /\ k.subscribed /\ (k.beats # 0 => k.beats = 1 /\ k.peer = "gone" /\ ~k.alive)
      BY <1>1, <1>4 DEF SocketFits
    <3>5. SocketFits(s, next)
      BY <1>2, <2>1, <3>3, <3>4 DEF SocketFits
    <3>6. Moved(s, next)
      <4>1. Moved(s, [sockets[s] EXCEPT !.at = "access", !.actor = tickets[TicketFor[s]].member])
        BY <1>2, <1>3, <1>5, <2>10 DEF Claims
      <4> QED BY <1>1, <1>2, <1>3, <3>1, <4>1
    <3> QED BY <2>6, <2>7, <2>8, <2>9, <3>3, <3>5, <3>6, SocketMoves
  <2>11. CASE s \notin ForRoom
    <3>1. PICK next : next = RefusesSocket(s) /\ next \in SocketRow /\ SocketFits(s, next) /\ next.actor = "none"
      BY <1>1, <1>4, RefusedSocket
    <3>2. Moved(s, next)
      BY <1>2, <1>3, <1>5, <2>11, <3>1 DEF Claims
    <3> QED BY <2>6, <2>7, <2>8, <3>1, <3>2, SocketMoves
  <2> QED BY <2>10, <2>11
<1>6. CASE t.state # "issued"
  <2>1. PICK next : next = RefusesSocket(s) /\ next \in SocketRow /\ SocketFits(s, next) /\ next.actor = "none"
    BY <1>1, <1>4, RefusedSocket
  <2>2. Moved(s, next) /\ tickets' = tickets
    BY <1>2, <1>3, <1>6, <2>1 DEF Claims
  <2> QED BY <2>1, <2>2, SocketGoes
<1> QED BY <1>5, <1>6

\* It handles a frame.
LEMMA DoorHandlesFrame ==
  ASSUME DoorInv, NEW s \in Sockets, NEW outcome, HandlesFrame(s, outcome)
  PROVE  DoorInv'
<1>1. PICK k \in SocketRow : k = sockets[s] /\ SocketFits(s, k)
  BY ThisSocket
<1>2. k.at = "open" /\ k.queue # <<>> /\ tickets' = tickets
  BY <1>1 DEF HandlesFrame
<1>3. PICK tail, said1, ran1 : /\ tail = Tail(k.queue)
                               /\ said1 = (IF outcome = "refused" THEN k.answered + 1 ELSE k.answered)
                               /\ ran1 = (IF outcome = "ran" THEN Append(k.ran, k.actor) ELSE k.ran)
  OBVIOUS
<1>4. PICK S : S = Seq(DOMAIN Outcomes)
  OBVIOUS
<1>5. tail \in S
  <2>1. PICK D : D = DOMAIN Outcomes
    OBVIOUS
  <2>2. PICK queue \in Seq(D) : queue = k.queue /\ queue # <<>>
    BY <1>2, <2>1, SocketIs
  <2>3. Tail(queue) \in Seq(D)
    BY <2>2, HeadTailProperties
  <2> QED BY <1>3, <1>4, <2>1, <2>2, <2>3
<1>6. said1 \in Nat
  BY <1>3, SocketIs
<1>7. k.actor \in Callers \cup {"none"} /\ k.ran \in Seq(Callers \cup {"none"}) /\ k.actor \in admitted /\ \A i \in DOMAIN k.ran : k.ran[i] = k.actor
  BY <1>1, <1>2, SocketIs DEF SocketFits
<1>8. ran1 \in Seq(Callers \cup {"none"}) /\ \A i \in DOMAIN ran1 : ran1[i] = k.actor
  BY <1>3, <1>7
<1>9. PICK T : T = Seq(Callers \cup {"none"})
  OBVIOUS
<1>10. PICK next : next = [k EXCEPT !.queue = tail, !.answered = said1, !.ran = ran1]
  OBVIOUS
<1>11. SocketRow = [at : SocketPlaces, room : BOOLEAN, actor : Callers \cup {"none"}, subscribed : BOOLEAN, alive : BOOLEAN,
                    peer : {"there", "gone"}, beats : Nat, queue : S, ran : T, answered : Nat]
  BY <1>4, <1>9, Zenon DEF SocketRow
<1>12. ran1 \in T
  BY <1>8, <1>9
<1>13. /\ next \in SocketRow /\ next.at = k.at /\ next.subscribed = k.subscribed /\ next.actor = k.actor /\ next.ran = ran1
       /\ next.beats = k.beats /\ next.peer = k.peer /\ next.alive = k.alive
  BY <1>5, <1>6, <1>10, <1>11, <1>12
<1>14. SocketFits(s, next)
  BY <1>1, <1>2, <1>7, <1>8, <1>13 DEF SocketFits
<1>15. Moved(s, next)
  <2>1. Moved(s, [sockets[s] EXCEPT
                    !.queue = Tail(@), !.answered = IF outcome = "refused" THEN @ + 1 ELSE @,
                    !.ran = IF outcome = "ran" THEN Append(@, sockets[s].actor) ELSE @])
    BY DEF HandlesFrame
  <2> QED BY <1>1, <1>3, <1>10, <2>1
<1> QED BY <1>1, <1>2, <1>13, <1>14, <1>15, SocketGoes

\* Its peer vanishes.
LEMMA DoorPeerGone ==
  ASSUME DoorInv, NEW s \in Sockets, PeerGone(s)
  PROVE  DoorInv'
<1>1. PICK k \in SocketRow : k = sockets[s] /\ SocketFits(s, k)
  BY ThisSocket
<1>2. k.peer = "there" /\ tickets' = tickets
  BY <1>1 DEF PeerGone
<1>3. PICK next : next = [k EXCEPT !.peer = "gone"]
  OBVIOUS
<1>4. /\ next \in SocketRow /\ next.at = k.at /\ next.subscribed = k.subscribed /\ next.actor = k.actor /\ next.ran = k.ran
      /\ next.beats = k.beats /\ next.peer = "gone" /\ next.alive = k.alive
  BY <1>3 DEF SocketRow
<1>5. SocketFits(s, next)
  BY <1>1, <1>2, <1>4 DEF SocketFits
<1>6. Moved(s, next)
  BY <1>1, <1>3 DEF PeerGone
<1> QED BY <1>1, <1>2, <1>4, <1>5, <1>6, SocketGoes

\* Its peer answers.
LEMMA DoorPong ==
  ASSUME DoorInv, NEW s \in Sockets, Pong(s)
  PROVE  DoorInv'
<1>1. PICK k \in SocketRow : k = sockets[s] /\ SocketFits(s, k)
  BY ThisSocket
<1>2. k.peer = "there" /\ tickets' = tickets
  BY <1>1 DEF Pong
<1>3. PICK next : next = [k EXCEPT !.alive = TRUE]
  OBVIOUS
<1>4. /\ next \in SocketRow /\ next.at = k.at /\ next.subscribed = k.subscribed /\ next.actor = k.actor /\ next.ran = k.ran
      /\ next.beats = k.beats /\ next.peer = k.peer /\ next.alive = TRUE
  BY <1>3 DEF SocketRow
<1>5. SocketFits(s, next)
  BY <1>1, <1>2, <1>4 DEF SocketFits
<1>6. Moved(s, next)
  BY <1>1, <1>3 DEF Pong
<1> QED BY <1>1, <1>2, <1>4, <1>5, <1>6, SocketGoes

\* Its heart beats.
LEMMA DoorBeat ==
  ASSUME DoorInv, NEW s \in Sockets, Beat(s)
  PROVE  DoorInv'
<1>1. PICK k \in SocketRow : k = sockets[s] /\ SocketFits(s, k)
  BY ThisSocket
<1>2. HasSocket(s) /\ tickets' = tickets /\ Moved(s, IF k.alive THEN CountsBeat(Pings(k)) ELSE Terminated(k))
  BY <1>1 DEF Beat
<1>3. CASE k.alive
  <2>1. k.beats = 0
    BY <1>1, <1>3 DEF SocketFits
  <2>2. PICK pinged : pinged = [k EXCEPT !.alive = FALSE]
    OBVIOUS
  <2>3. /\ pinged \in SocketRow /\ pinged.at = k.at /\ pinged.subscribed = k.subscribed /\ pinged.actor = k.actor /\ pinged.ran = k.ran
        /\ pinged.beats = 0 /\ pinged.peer = k.peer /\ pinged.alive = FALSE
    BY <2>1, <2>2 DEF SocketRow
  <2>4. PICK n \in {0, 1} : n = (IF pinged.peer = "gone" THEN pinged.beats + 1 ELSE 0) /\ (n # 0 => k.peer = "gone")
    BY <2>3
  <2>5. PICK next : next = [pinged EXCEPT !.beats = n]
    OBVIOUS
  <2>6. /\ next \in SocketRow /\ next.at = k.at /\ next.subscribed = k.subscribed /\ next.actor = k.actor /\ next.ran = k.ran
        /\ next.beats = n /\ next.peer = k.peer /\ next.alive = FALSE
    BY <2>3, <2>5 DEF SocketRow
  <2>7. SocketFits(s, next)
    BY <1>1, <2>4, <2>6 DEF SocketFits
  <2>8. next = CountsBeat(Pings(k))
    BY <2>2, <2>4, <2>5 DEF CountsBeat, Pings
  <2>9. Moved(s, next)
    BY <1>2, <1>3, <2>8
  <2> QED BY <1>1, <1>2, <2>6, <2>7, <2>9, SocketGoes
<1>4. CASE ~k.alive
  <2>1. PICK next : next = [k EXCEPT !.at = "terminated", !.subscribed = FALSE]
    OBVIOUS
  <2>2. /\ next \in SocketRow /\ next.at = "terminated" /\ next.subscribed = FALSE /\ next.actor = k.actor /\ next.ran = k.ran
        /\ next.beats = k.beats /\ next.peer = k.peer /\ next.alive = k.alive
    BY <2>1 DEF SocketRow, SocketPlaces
  <2>3. SocketFits(s, next)
    BY <1>1, <2>2 DEF SocketFits
  <2>4. Moved(s, next)
    BY <1>2, <1>4, <2>1 DEF Terminated
  <2> QED BY <1>1, <1>2, <2>2, <2>3, <2>4, SocketGoes
<1> QED BY <1>3, <1>4

\* A step that leaves every request, every ticket and every socket where it is.
LEMMA DoorsWait ==
  ASSUME DoorInv, UNCHANGED <<requests, tickets, sockets>>, creds' \subseteq creds, admitted \subseteq admitted', admitted' \subseteq Callers,
         clock' \in WindowMs..MaxClock, ThrottleHolds'
  PROVE  DoorInv'
<1>1. PeopleGo /\ UsedUp
  BY DEF PeopleGo, UsedUp
<1>2. DoorTyped'
  BY DEF DoorInv, DoorTyped
<1>3. \A r \in HttpCalls : RequestHolds(r)'
  BY <1>1, RequestStays DEF DoorInv
<1>4. \A r \in HttpCalls : TicketHolds(r)'
  BY <1>1, TicketStays DEF DoorInv
<1>5. \A s \in Sockets : SocketHolds(s)'
  BY <1>1, SocketStays DEF DoorInv
<1>6. (\A s, z \in Sockets : OneActor(s, z))'
  BY DEF DoorInv, OneActor
<1> QED BY <1>2, <1>3, <1>4, <1>5, <1>6 DEF DoorInv

\* The throttles wait, too.
LEMMA ThrottlesWait ==
  ASSUME DoorInv, UNCHANGED <<clock, requests, hits, passed>>
  PROVE  ThrottleHolds' /\ clock' \in WindowMs..MaxClock
<1>1. DoorTyped /\ ThrottleHolds
  BY DEF DoorInv
<1>2. KeysStay /\ \A p \in passed : requests'[p[1]].at # 0
  BY <1>1 DEF KeysStay, ThrottleHolds
<1> QED BY <1>1, <1>2, ThrottleStays DEF DoorTyped

\* Time passes.
LEMMA DoorTicks ==
  ASSUME DoorInv, Ticks
  PROVE  DoorInv'
<1>1. DoorTyped /\ ThrottleHolds
  BY DEF DoorInv
<1>2. clock < MaxClock /\ clock' = clock + 1 /\ UNCHANGED <<creds, admitted, requests, hits, passed, tickets, sockets>>
  BY DEF Ticks
<1>3. ThrottleHolds'
  BY <1>1, <1>2, ThrottleTicks
<1>4. clock' \in WindowMs..MaxClock /\ admitted' \subseteq Callers
  BY <1>1, <1>2, DoorsAssumption DEF DoorTyped
<1> QED BY <1>2, <1>3, <1>4, DoorsWait

\* A credential ends, or somebody is admitted.
LEMMA PeopleStep ==
  ASSUME DoorInv, PeopleNext
  PROVE  DoorInv'
<1>1. UNCHANGED <<clock, requests, hits, passed, tickets, sockets>> /\ creds' \subseteq creds /\ admitted \subseteq admitted' /\ admitted' \subseteq Callers
  <2>1. CASE \E c \in Creds : CredentialEnds(c)
    BY <2>1 DEF CredentialEnds, DoorInv, DoorTyped
  <2>2. CASE \E m \in Callers : IsAdmitted(m)
    BY <2>2 DEF IsAdmitted, DoorInv, DoorTyped
  <2> QED BY <2>1, <2>2 DEF PeopleNext
<1> QED BY <1>1, ThrottlesWait, DoorsWait

\* A ticket expires.
LEMMA DoorTicketExpires ==
  ASSUME DoorInv, NEW r \in HttpCalls, TicketExpires(r)
  PROVE  DoorInv'
<1>1. PICK t \in TicketRow : t = tickets[r] /\ t.state = "issued"
  BY DoorsAre DEF DoorInv, TicketExpires
<1>2. PICK old : old = [t EXCEPT !.state = "expired"]
  OBVIOUS
<1>3. old \in TicketRow /\ old.state = "expired" /\ old.member = t.member
  BY <1>2 DEF TicketRow
<1>4. tickets' = [tickets EXCEPT ![r] = old] /\ UNCHANGED <<clock, creds, admitted, requests, hits, passed, sockets>>
  BY <1>1, <1>2 DEF TicketExpires
<1>5. tickets' \in [HttpCalls -> TicketRow] /\ tickets'[r] = old /\ \A q \in HttpCalls : q # r => tickets'[q] = tickets[q]
  BY <1>3, <1>4 DEF DoorInv, DoorTyped
<1>6. PeopleGo /\ UsedUp
  BY <1>1, <1>3, <1>4, <1>5 DEF PeopleGo, UsedUp
<1>7. DoorTyped'
  BY <1>4, <1>5 DEF DoorInv, DoorTyped
<1>8. ASSUME NEW q \in HttpCalls PROVE RequestHolds(q)'
  BY <1>4, <1>6, RequestStays DEF DoorInv
<1>9. ASSUME NEW q \in HttpCalls PROVE TicketHolds(q)'
  <2>1. TicketHolds(q) /\ requests'[q] = requests[q]
    BY <1>4 DEF DoorInv
  <2>2. tickets'[q].member = tickets[q].member /\ (tickets'[q] = tickets[q] \/ (tickets[q].state # "none" /\ tickets'[q].state # "none"))
    BY <1>1, <1>3, <1>5
  <2> QED BY <2>1, <2>2, TicketStays
<1>10. ASSUME NEW s \in Sockets PROVE SocketHolds(s)'
  BY <1>4, <1>6, SocketStays DEF DoorInv
<1>11. (\A s, z \in Sockets : OneActor(s, z))'
  BY <1>4 DEF DoorInv, OneActor
<1>12. ThrottleHolds'
  BY <1>4, ThrottlesWait
<1> QED BY <1>7, <1>8, <1>9, <1>10, <1>11, <1>12 DEF DoorInv

\* It holds at first.
LEMMA DoorBegins ==
  ASSUME DoorInit PROVE DoorInv
<1>1. NotSent \in RequestRow /\ NotSent.door = "none" /\ NotSent.at = 0 /\ NotSent.status = 0 /\ NotSent.why = "none"
  BY DEF NotSent, RequestRow, StatusCodes
<1>2. NoTicket \in TicketRow /\ NoTicket.state = "none"
  BY DEF NoTicket, TicketRow
<1>3. /\ NoSocket \in SocketRow /\ NoSocket.at = "closed" /\ NoSocket.actor = "none" /\ NoSocket.subscribed = FALSE
      /\ NoSocket.beats = 0 /\ NoSocket.ran = <<>>
  BY DEF NoSocket, SocketRow, SocketPlaces
<1>4. DoorTyped
  <2>1. clock \in WindowMs..MaxClock
    BY DoorsAssumption DEF DoorInit
  <2> QED BY <1>1, <1>2, <1>3, <2>1 DEF DoorInit, DoorTyped
<1>5. \A r \in HttpCalls : RequestHolds(r) /\ TicketHolds(r)
  BY <1>1, <1>2 DEF DoorInit, RequestHolds, TicketHolds
<1>6. \A s \in Sockets : SocketHolds(s)
  BY <1>3 DEF DoorInit, SocketHolds, SocketFits
<1>7. \A s, z \in Sockets : OneActor(s, z)
  BY <1>3 DEF DoorInit, OneActor
<1>8. DOMAIN hits = Machines /\ \A m \in Machines : DOMAIN hits[m] = {}
  BY DEF DoorInit
<1>9. passed = {}
  BY DEF DoorInit
<1>10. ASSUME NEW k, NEW m \in Machines PROVE KeyCounts(k, m)
  <2>1. \A x : PassedAfter(k, m, x) = {}
    BY <1>9 DEF PassedAfter
  <2>2. \A x : Through(k, m, x) = 0
    BY <2>1, FS_EmptySet DEF Through
  <2>3. HitsOf(hits[m], k) = <<>>
    BY <1>8 DEF HitsOf
  <2>4. \A x : Counts(<<>>, 0, x)
    BY DEF Counts
  <2> QED BY <2>2, <2>3, <2>4, DoorsAssumption DEF KeyCounts
<1>11. ThrottleHolds
  BY <1>8, <1>9, <1>10, FS_EmptySet DEF ThrottleHolds
<1> QED BY <1>4, <1>5, <1>6, <1>7, <1>11 DEF DoorInv

\* No step of a request, a person, a socket or the clock breaks it.
LEMMA DoorGoesOn ==
  ASSUME DoorInv, [DoorNext]_doorVars PROVE DoorInv'
<1>1. ASSUME NEW r \in HttpCalls, CallNext(r) PROVE DoorInv'
  <2>1. CASE ChecksRow(r) \/ Throttles(r) \/ Acts(r)
    BY <2>1, DoorChecksRow, DoorThrottles, DoorActs
  <2>2. CASE \E m \in Machines, door \in DoorsOf[r] : Send(r, m, door)
    BY <2>2, DoorSends
  <2>3. CASE \E good \in BOOLEAN : ChecksBody(r, good) \/ ChecksLease(r, ~good)
    BY <2>3, DoorChecksBody, DoorChecksLease
  <2> QED BY <1>1, <2>1, <2>2, <2>3 DEF CallNext
<1>2. ASSUME NEW s \in Sockets, SocketStep(s) PROVE DoorInv'
  <2>1. CASE Connects(s) \/ Claims(s) \/ Admits(s) \/ OpenFails(s)
    BY <2>1, DoorConnects, DoorClaims, DoorAdmits, DoorOpenFails
  <2>2. CASE \E outcome \in {"ran", "refused", "thrown"} : HandlesFrame(s, outcome)
    BY <2>2, DoorHandlesFrame
  <2>3. CASE PeerGone(s) \/ Beat(s) \/ Pong(s)
    BY <2>3, DoorPeerGone, DoorBeat, DoorPong
  <2>4. CASE TicketExpires(TicketFor[s])
    BY <2>4, ThisSocket, DoorTicketExpires
  <2> QED BY <1>2, <2>1, <2>2, <2>3, <2>4 DEF SocketStep
<1>3. CASE PeopleNext
  BY <1>3, PeopleStep
<1>4. CASE Ticks
  BY <1>4, DoorTicks
<1>5. CASE UNCHANGED doorVars
  <2>1. UNCHANGED <<clock, creds, admitted, requests, hits, passed, tickets, sockets>>
    BY <1>5 DEF doorVars
  <2>2. admitted' \subseteq Callers
    BY <2>1 DEF DoorInv, DoorTyped
  <2> QED BY <2>1, <2>2, ThrottlesWait, DoorsWait
<1> QED BY <1>1, <1>2, <1>3, <1>4, <1>5 DEF DoorNext

\* What the properties say follows from what is kept.
LEMMA DoorsKeep == ASSUME DoorInv PROVE DoorsHold
<1>1. ASSUME NEW r \in HttpCalls
      PROVE  /\ requests[r].status = 200 =>
                  /\ Makes(r, "credential") \/ Makes(r, "lease") =>
                        requests[r].live /\ KindOf[CredOf[r]] \in Takes(requests[r].door)
                  /\ Makes(r, "access") => Member(r) \in admitted
                  /\ Makes(r, "human") => Member(r) \in Humans
             /\ requests[r].status # 0 /\ requests[r].status # 200 => tickets[r] = NoTicket
             /\ requests[r].why = "credential" => ~Proven(r)
             /\ requests[r].why = "access" => ~requests[r].in
  <2>1. RequestHolds(r) /\ TicketHolds(r) /\ DoorTyped
    BY DEF DoorInv
  <2>2. CASE requests[r].at = 0
    BY <2>1, <2>2 DEF RequestHolds, TicketHolds
  <2>3. CASE requests[r].at # 0
    <3>1. requests[r].door \in DOMAIN Checks
      BY <2>1, <2>3, DoorsAre, RequestIs DEF RequestHolds
    <3>2. PICK checks \in Seq(CheckNames) : checks = Checks[requests[r].door]
      BY <3>1, RowsAre
    <3>3. PICK n, at \in Nat : n = Len(checks) /\ DOMAIN checks = 1..n /\ at = requests[r].at
      BY <2>1, <3>2, DoorsAre, RequestIs
    <3>4. /\ at < n + 2 => requests[r].status = 0
          /\ at \in 1..(n + 2)
          /\ requests[r].status \in {0, 200} => \A i \in DOMAIN checks : i < at => Passed(r, checks[i])
          /\ requests[r].why = "credential" => ~Proven(r)
          /\ requests[r].why = "access" => ~requests[r].in
      BY <2>1, <2>3, <3>2, <3>3 DEF RequestHolds, Underway
    <3>5. ASSUME requests[r].status = 200, NEW i \in DOMAIN checks PROVE Passed(r, checks[i])
      BY <3>3, <3>4, <3>5
    <3>6. \A check : Makes(r, check) => \E i \in DOMAIN checks : checks[i] = check
      BY <3>2 DEF Makes
    <3>7. requests[r].status = 200 => \A check : Makes(r, check) => Passed(r, check)
      BY <3>5, <3>6
    <3>8. requests[r].status # 0 /\ requests[r].status # 200 => tickets[r] = NoTicket
      BY <2>1 DEF TicketHolds
    <3> QED BY <3>4, <3>7, <3>8 DEF Passed
  <2> QED BY <2>2, <2>3
<1>2. DoorsAreHonest
  BY <1>1 DEF DoorsAreHonest
<1>3. ThrottlesBound
  <2> SUFFICES ASSUME NEW r \in HttpCalls, NEW m \in Machines PROVE Cardinality(LetThrough(Key(r), m, clock)) <= MaxHits
    BY DEF ThrottlesBound
  <2>1. DoorTyped /\ ThrottleHolds
    BY DEF DoorInv
  <2>2. PICK k : k = Key(r)
    OBVIOUS
  <2>3. \A p \in passed : p[3] \in 0..clock
    BY <2>1 DEF ThrottleHolds
  <2>4. LetThrough(k, m, clock) = PassedAfter(k, m, Cutoff)
    BY <2>1, <2>3, ClockIs DEF LetThrough, PassedAfter, Cutoff
  <2>5. Cutoff \in Cutoff..clock
    BY <2>1, ClockIs
  <2>6. Through(k, m, Cutoff) <= MaxHits
    BY <2>1, <2>5, EveryKeyCounts DEF KeyCounts
  <2> QED BY <2>2, <2>4, <2>6 DEF Through
<1>4. SocketsAreTheirs
  <2>1. \A s \in Sockets : SocketHolds(s) /\ SocketFits(s, sockets[s])
    BY DEF DoorInv, SocketHolds
  <2>2. \A s \in Sockets : sockets[s].at = "open" => sockets[s].actor = Member(TicketFor[s])
    BY <2>1 DEF SocketFits
  <2>3. \A s, z \in Sockets : TicketFor[s] = TicketFor[z] /\ s # z => ~(sockets[s].actor # "none" /\ sockets[z].actor # "none")
    BY DEF DoorInv, OneActor
  <2>4. \A s \in Sockets : \A i \in DOMAIN sockets[s].ran : sockets[s].ran[i] = sockets[s].actor /\ sockets[s].actor \in admitted
    BY <2>1 DEF SocketFits
  <2>5. \A s \in Sockets : sockets[s].subscribed <=> HasSocket(s)
    BY <2>1 DEF SocketFits, HasSocket
  <2>6. \A s \in Sockets : HasSocket(s) => sockets[s].beats <= 2
    BY <2>1 DEF SocketFits
  <2> QED BY <2>2, <2>3, <2>4, <2>5, <2>6 DEF SocketsAreTheirs
<1> QED BY <1>2, <1>3, <1>4 DEF DoorsHold

\* The invariant of the doors holds in every state.
LEMMA DoorInvHolds == DoorSpec => []DoorInv
BY DoorBegins, DoorGoesOn, PTL DEF DoorSpec

\* For any requests, credentials, machines, limits, windows, sockets and frames: a door does what it does for whom it checked and
\* refuses for a cause, no window lets more than the limit through on one machine, and a socket is its ticket's.
THEOREM DoorsHoldHolds == DoorSpec => []DoorsHold
BY DoorInvHolds, DoorsKeep, PTL

\* The types of the doors follow.
LEMMA DoorTypes == ASSUME DoorInv PROVE DoorTypeOK
<1>1. DoorTyped
  BY DEF DoorInv
<1>2. clock \in 0..MaxClock /\ creds \subseteq Creds /\ admitted \subseteq Callers
  BY <1>1, DoorsAssumption DEF DoorTyped
<1>3. \A r \in HttpCalls : requests[r].status \in StatusCodes
  BY <1>1, DoorsAre, RequestIs
<1>4. \A r \in HttpCalls : tickets[r].state \in {"none", "issued", "consumed", "expired"}
  BY <1>1, DoorsAre DEF TicketRow
<1>5. \A s \in Sockets : sockets[s].at \in SocketPlaces
  BY <1>1, DoorsAre, SocketIs
<1> QED BY <1>2, <1>3, <1>4, <1>5 DEF DoorTypeOK, StatusCodes, SocketPlaces

-----------------------------------------------------------------------------
(* The instance the runs check: each component moves as it does alone. *)

\* A step of the instance is a step of each component, or leaves it.
LEMMA EachIsItself ==
  ASSUME [DoorsNext]_doorsVars
  PROVE  [ChainNext]_chainVars /\ [AskNext]_askVars /\ [WindowNext]_windowVars /\ [DoorNext]_doorVars
<1>1. CASE UNCHANGED doorsVars
  BY <1>1 DEF doorsVars, askAll
<1>2. CASE focus = "gate" /\ Next /\ Edited /\ UNCHANGED <<chainVars, askVars, windowVars, doorVars>>
  BY <1>2
<1>3. CASE focus = "chains" /\ ChainNext /\ FewEmitted /\ UNCHANGED <<vars, askVars, windowVars, doorVars>>
  BY <1>3
<1>4. CASE focus = "nodes" /\ (OwnNext \/ AskedNext) /\ InTurn' /\ UNCHANGED askAll
  BY <1>4 DEF AskNext, askAll
<1>5. CASE focus = "bot" /\ (BotNext \/ AskedNext) /\ InTurn' /\ UNCHANGED askAll
  BY <1>5 DEF AskNext, askAll
<1>6. CASE focus = "emissions" /\ (TurnNext \/ AskedNext) /\ InTurn' /\ UNCHANGED askAll
  BY <1>6 DEF AskNext, askAll
<1>7. CASE /\ focus \in DOMAIN Reading
           /\ RoomStep \/ \E u \in Reading[focus] : ReaderStep(u)
           /\ UNCHANGED <<vars, chainVars, askVars, doorVars>>
  <2>1. \A u \in Reading[focus] : u \in Users
    BY <1>7, FocusAssumption
  <2> QED BY <1>7, <2>1 DEF WindowNext
<1>8. CASE /\ focus \in DOMAIN Served
           /\ \/ \E r \in Served[focus] : CallNext(r)
              \/ focus \in {"doors", "anyDoor"} /\ PeopleNext /\ Tokens \subseteq creds'
              \/ focus = "tokens" /\ \E c \in Tokens : CredentialEnds(c)
              \/ focus \in {"throttles", "tokens"} /\ Ticks
              \/ focus \in DOMAIN Opened /\ \E s \in Opened[focus] : SocketStep(s)
           /\ UNCHANGED <<vars, chainVars, askVars, windowVars>>
  <2>1. \A r \in Served[focus] : r \in HttpCalls
    BY <1>8, FocusAssumption
  <2>2. focus \in DOMAIN Opened => \A s \in Opened[focus] : s \in Sockets
    BY FocusAssumption
  <2>3. \A c \in Tokens : c \in Creds
    BY FocusAssumption
  <2>4. (\E c \in Tokens : CredentialEnds(c)) => PeopleNext
    BY <2>3, Zenon DEF PeopleNext
  <2>5. DoorNext
    BY <1>8, <2>1, <2>2, <2>4, Zenon DEF DoorNext
  <2> QED BY <1>8, <2>5
<1> QED BY <1>1, <1>2, <1>3, <1>4, <1>5, <1>6, <1>7, <1>8, Zenon DEF DoorsNext

\* So the instance is each component's specification, and what is kept of them is kept in it.
LEMMA ComponentsHold == DoorsSpec => ChainSpec /\ AskSpec /\ WindowSpec /\ DoorSpec
<1>1. DoorsInit => ChainInit /\ AskInit /\ WindowInit /\ DoorInit
  BY DEF DoorsInit
<1> QED BY <1>1, EachIsItself, PTL DEF DoorsSpec, ChainSpec, AskSpec, WindowSpec, DoorSpec

\* The types of all that is behind the doors hold in every state of the instance.
THEOREM DoorsTypeOKHolds == DoorsSpec => []DoorsTypeOK
<1>1. ChainInv /\ AskInv /\ WindowInv /\ DoorInv => DoorsTypeOK
  BY ChainTypes, AskTypes, WindowTypes, DoorTypes DEF DoorsTypeOK
<1> QED BY <1>1, ComponentsHold, ChainInvHolds, AskInvHolds, WindowInvHolds, DoorInvHolds, PTL

\* The promises of the four components hold beside one another in every behaviour of the instance.
THEOREM DoorsKeepTheirWord == DoorsSpec => [](ChainsHold /\ ProposalsHold /\ WindowsHold /\ DoorsHold)
BY ComponentsHold, ChainsHoldHolds, ProposalsHoldHolds, WindowsHoldHolds, DoorsHoldHolds, PTL
=============================================================================
