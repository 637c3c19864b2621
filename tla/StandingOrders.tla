--------------------------- MODULE StandingOrders ---------------------------
(***************************************************************************)
(* Standing orders: commands/order.ts (a human creates, pauses, resumes,   *)
(* revokes, edits), commands/runOrders.ts (a completed turn opens the next *)
(* cycle, a started one is counted) and orders.ts (the statements on the   *)
(* row).  Every status is appended to the log first and written to the row *)
(* afterwards, by an UPDATE that does not look at the status it replaces.  *)
(*                                                                         *)
(* A turn here is the part of runAgentTurn the orders see: queued, in its  *)
(* slot, counted, over, and then walking the orders its completion         *)
(* triggers.  The member's key is deleted twice, at the completed row and  *)
(* in the finally block, whoever holds it by then, so two turns of one     *)
(* member may run and both be counted before either has stopped the order. *)
(* Abstracted: text, members' names, dates (an order has a deadline that   *)
(* may pass), and whether the room's owners could be interrupted (the      *)
(* module Interrupts).                                                     *)
(***************************************************************************)
EXTENDS Naturals, Sequences, FiniteSets, FiniteSetsExt

CONSTANTS
    Orders,       \* a set of numbers: the loop walks them ORDER BY id
    Members,      \* the agents of the room
    TrigOf,       \* [Orders -> Members]: whose completed turn fires the order
    ActOf,        \* [Orders -> Members]: who is summoned
    Terms,        \* the terms a creator may set: records of cap and dial
    Existing,     \* the orders created in the past, under the default terms
    Controls,     \* the commands of humans, each sent once
    MaxTurns,     \* bound: turns, asked for or fired
    MaxAsks,      \* bound: turns a human asks for
    MaxFaults     \* bound: restarts and failing writes

NoOrder == 0
NoCap == 0        \* max_cycles null
Terminal == {"REVOKED", "EXPIRED", "LIMIT_REACHED"}
Statuses == {"ACTIVE", "PAUSED"} \cup Terminal

ASSUME OrdersAssumption == Orders \subseteq Nat \ {NoOrder} /\ IsFiniteSet(Orders) /\ Orders # {}
ASSUME WiringAssumption == TrigOf \in [Orders -> Members] /\ ActOf \in [Orders -> Members]
ASSUME TermsAssumption == Terms \subseteq [cap : Nat, dial : Nat \ {0}, expires : BOOLEAN] /\ Terms # {}
ASSUME ControlsAssumption == IsFiniteSet(Controls)
ASSUME ExistingAssumption == Existing \subseteq Orders
ASSUME BoundsAssumption == MaxTurns \in Nat /\ MaxAsks \in Nat /\ MaxFaults \in Nat

VARIABLES
    row,        \* order -> its row in standing_orders
    hist,       \* order -> the statuses and edits its events say, oldest first
    cycled,     \* order -> the triggers of its order.cycled events
    turn,       \* the turns and the background work that follows each
    ctl,        \* the commands of humans
    inFlight,   \* the process's in-flight set, by member
    trailing,   \* the turns with a completed row whose finally block is to come
    crowded,    \* order -> the counts made while another turn's was still being dealt with
    seq,        \* the last completed turn's place in the log
    faults

orderVars == <<row, hist, cycled, turn, ctl, inFlight, trailing, crowded, seq, faults>>

Turns == 1..MaxTurns
Default == CHOOSE terms \in Terms : TRUE
Done == [pc |-> "over", op |-> "create", order |-> CHOOSE o \in Orders : TRUE, terms |-> Default]
Live(o) == row[o].status # "none"
Last(s) == s[Len(s)]

\* unboundedDial: a dial above one needs a cap or a deadline.
Bounded(terms) == terms.dial <= 1 \/ terms.cap # NoCap \/ terms.expires

Streaming == {"started", "counting", "cycled", "running"}
Stopping == {"stop", "stopping", "stopped", "telling"}
Walking == {"list", "next", "claim", "summon"}

OrderTypeOK ==
    /\ row \in [Orders -> [status : Statuses \cup {"none"}, cycles : Nat, unattended : Nat,
                           open : Nat, terms : Terms]]
    /\ hist \in [Orders -> Seq(Statuses \cup {"edit"})]
    /\ cycled \in [Orders -> SUBSET Nat]
    /\ turn \in [Turns -> [pc : {"none", "queued", "over", "failed"}
                                    \cup Streaming \cup Stopping \cup Walking,
                           member : Members, order : Orders \cup {NoOrder}, trigger : Nat,
                           done : Nat, todo : SUBSET Orders, cur : Orders \cup {NoOrder},
                           want : Statuses, back : {"over", "next", "running"}, terms : Terms]]
    /\ ctl \in [Controls -> [pc : {"none", "append", "write", "over"},
                             op : {"create", "edit"} \cup Statuses, order : Orders, terms : Terms]]
    /\ inFlight \subseteq Members /\ trailing \subseteq Turns /\ crowded \in [Orders -> Nat]
    /\ seq \in Nat /\ faults \in 0..MaxFaults

OrderInit ==
    LET m0 == CHOOSE m \in Members : TRUE
    IN  /\ row = [o \in Orders |-> [status |-> IF o \in Existing THEN "ACTIVE" ELSE "none", cycles |-> 0, unattended |-> 0,
                                    open |-> 0, terms |-> Default]]
        /\ hist = [o \in Orders |-> IF o \in Existing THEN <<"ACTIVE">> ELSE <<>>]
        /\ cycled = [o \in Orders |-> {}]
        /\ turn = [t \in Turns |-> [pc |-> "none", member |-> m0, order |-> NoOrder, trigger |-> 0,
                                    done |-> 0, todo |-> {}, cur |-> NoOrder, want |-> "PAUSED",
                                    back |-> "over", terms |-> Default]]
        /\ ctl = [c \in Controls |-> [Done EXCEPT !.pc = "none"]]
        /\ inFlight = {} /\ trailing = {} /\ crowded = [o \in Orders |-> 0]
        /\ seq = 0 /\ faults = 0

-----------------------------------------------------------------------------
(* Commands of humans.  Refused ones change nothing and are not steps. *)

Ctl(c, from, to) ==
    /\ ctl[c].pc = from
    /\ ctl' = [ctl EXCEPT ![c] = IF to = "over" THEN Done ELSE [@ EXCEPT !.pc = to]]
CtlKeeps == UNCHANGED <<cycled, turn, inFlight, trailing, crowded, seq, faults>>

\* createOrderCommand up to the event: a task, members that are agents here, a bounded dial.
Create(c) == \E o \in Orders, terms \in Terms :
    /\ ctl[c].pc = "none" /\ ~Live(o) /\ hist[o] = <<>> /\ Bounded(terms)
    /\ ctl' = [ctl EXCEPT ![c] = [pc |-> "write", op |-> "create", order |-> o, terms |-> terms]]
    /\ hist' = [hist EXCEPT ![o] = <<"ACTIVE">>]
    /\ UNCHANGED row /\ CtlKeeps

\* Mutant: a resume is legal from every status but ACTIVE.
LegalResumeAny(status, op) ==
    \/ op = "PAUSED" /\ status = "ACTIVE"
    \/ op = "ACTIVE" /\ status # "ACTIVE"
    \/ op \in {"REVOKED", "edit"} /\ status \notin Terminal

Legal(status, op) ==
    \/ op = "PAUSED" /\ status = "ACTIVE"
    \/ op = "ACTIVE" /\ status = "PAUSED"
    \/ op \in {"REVOKED", "edit"} /\ status \notin Terminal

\* controlOrderCommand up to its event: the row is read and judged here.  A pause leads to
\* PAUSED, a resume (of the creator) to ACTIVE, a revoke (of the creator) to REVOKED.
ReadControl(c) == \E o \in Orders, op \in {"PAUSED", "ACTIVE", "REVOKED"} :
    /\ ctl[c].pc = "none" /\ Live(o) /\ Legal(row[o].status, op)
    /\ ctl' = [ctl EXCEPT ![c] = [Done EXCEPT !.pc = "append", !.op = op, !.order = o]]
    /\ UNCHANGED <<row, hist>> /\ CtlKeeps

\* updateOrderCommand up to its event: terms of the creator, within bounds.
ReadEdit(c) == \E o \in Orders, terms \in Terms :
    /\ ctl[c].pc = "none" /\ Live(o) /\ Legal(row[o].status, "edit") /\ Bounded(terms)
    /\ ctl' = [ctl EXCEPT ![c] = [pc |-> "append", op |-> "edit", order |-> o, terms |-> terms]]
    /\ UNCHANGED <<row, hist>> /\ CtlKeeps

\* The order.status or order.updated event.
AppendControl(c) ==
    /\ Ctl(c, "append", "write")
    /\ hist' = [hist EXCEPT ![ctl[c].order] = Append(@, ctl[c].op)]
    /\ UNCHANGED row /\ CtlKeeps

\* Mutant: a resume forgets the attendance count.
SetStatusOnly(o, status) == row' = [row EXCEPT ![o].status = status]

\* setOrderStatus: whatever the status has become; a resume starts the attendance count again.
SetOrderStatus(o, status) ==
    row' = [row EXCEPT ![o].status = status,
                       ![o].unattended = IF status = "ACTIVE" THEN 0 ELSE @]

\* createOrderRow, updateOrderConfig or setOrderStatus, then the publication.
WriteControl(c) ==
    LET o == ctl[c].order IN
    /\ Ctl(c, "write", "over")
    /\ CASE ctl[c].op = "create" ->
               row' = [row EXCEPT ![o].status = "ACTIVE", ![o].terms = ctl[c].terms]
         [] ctl[c].op = "edit" -> row' = [row EXCEPT ![o].terms = ctl[c].terms]
         [] OTHER -> SetOrderStatus(o, ctl[c].op)
    /\ UNCHANGED hist /\ CtlKeeps

\* resetUnattended: deferred by every posted message.
Attend ==
    /\ \E o \in Orders : row[o].status = "ACTIVE" /\ row[o].unattended > 0
    /\ row' = [o \in Orders |-> IF row[o].status = "ACTIVE"
                                THEN [row[o] EXCEPT !.unattended = 0] ELSE row[o]]
    /\ UNCHANGED <<hist, cycled, turn, ctl, inFlight, trailing, crowded, seq, faults>>

-----------------------------------------------------------------------------
(* Turns. *)

\* What is left to know of a turn that is over; the fields of its walk start afresh.
Put(r, place) ==
    IF place # "over" THEN [r EXCEPT !.pc = place]
    ELSE [r EXCEPT !.pc = "over", !.done = 0, !.todo = {}, !.cur = NoOrder, !.want = "PAUSED",
                   !.back = "over", !.terms = Default]
Turn(t, from, to) == turn[t].pc = from /\ turn' = [turn EXCEPT ![t] = Put(@, to)]
Free == {t \in Turns : turn[t].pc = "none"}
New(m, o, trigger) ==
    [turn[Min(Free)] EXCEPT !.pc = "queued", !.member = m, !.order = o, !.trigger = trigger]

\* A human's message summons a member.
Ask(m) ==
    /\ Cardinality({t \in Turns : turn[t].pc # "none" /\ turn[t].order = NoOrder}) < MaxAsks
    /\ Free # {} /\ turn' = [turn EXCEPT ![Min(Free)] = New(m, NoOrder, 0)]
    /\ UNCHANGED <<row, hist, cycled, ctl, inFlight, trailing, crowded, seq, faults>>

\* runAgentTurn's admission, up to the started row.
Admit(t) ==
    /\ Turn(t, "queued", IF turn[t].order = NoOrder THEN "running" ELSE "started")
    /\ turn[t].member \notin inFlight
    /\ inFlight' = inFlight \cup {turn[t].member}
    /\ UNCHANGED <<row, hist, cycled, ctl, trailing, crowded, seq, faults>>

\* The member is streaming, or the day's ceiling is reached (or cannot be read).
Refuse(t) ==
    /\ Turn(t, "queued", "over")
    /\ UNCHANGED <<row, hist, cycled, ctl, inFlight, trailing, crowded, seq, faults>>

\* orderCycleStartedCommand: the order is read for its terms ...
ReadTerms(t) ==
    /\ turn[t].pc = "started"
    /\ turn' = [turn EXCEPT ![t].pc = "counting", ![t].terms = row[turn[t].order].terms]
    /\ UNCHANGED <<row, hist, cycled, ctl, inFlight, trailing, crowded, seq, faults>>

\* Mutant: the limits are compared with >.
JudgeOffByOne(terms, cycles, unattended) ==
    IF terms.cap # NoCap /\ cycles > terms.cap THEN "LIMIT_REACHED"
    ELSE IF unattended > terms.dial THEN "PAUSED" ELSE "ACTIVE"

\* Mutant: a status no reader knows.
JudgeUnknown(terms, cycles, unattended) == "STOPPED"

\* The status a count calls for: ACTIVE for none.
Judge(terms, cycles, unattended) ==
    IF terms.cap # NoCap /\ cycles >= terms.cap THEN "LIMIT_REACHED"
    ELSE IF unattended >= terms.dial THEN "PAUSED" ELSE "ACTIVE"

\* A turn that was counted, and whose count is still to be logged or to stop its order.
Handling(t, o) == /\ turn[t].order = o /\ turn[t].back = "running"
                  /\ turn[t].pc \in {"cycled", "stop", "stopping", "stopped"}

\* ... and countCycleStarted counts it, if the order is still ACTIVE.
Count(t) ==
    LET o == turn[t].order
        r == [row[o] EXCEPT !.cycles = @ + 1, !.unattended = @ + 1]
    IN
    /\ turn[t].pc = "counting"
    /\ IF r.status # "ACTIVE"
       THEN turn' = [turn EXCEPT ![t].pc = "running"] /\ UNCHANGED <<row, crowded>>
       ELSE /\ row' = [row EXCEPT ![o] = r]
            /\ crowded' = [crowded EXCEPT ![o] = IF \E u \in Turns : Handling(u, o) THEN @ + 1 ELSE @]
            /\ turn' = [turn EXCEPT ![t].pc = "cycled", ![t].cur = o, ![t].back = "running",
                                    ![t].want = Judge(turn[t].terms, r.cycles, r.unattended)]
    /\ UNCHANGED <<hist, cycled, ctl, inFlight, trailing, seq, faults>>

\* appendOrderCycled: one row for an order and a trigger.  Then the limit is acted on.
AppendCycled(t) ==
    /\ Turn(t, "cycled", IF turn[t].want = "ACTIVE" THEN "running" ELSE "stop")
    /\ cycled' = [cycled EXCEPT ![turn[t].order] = @ \cup {turn[t].trigger}]
    /\ UNCHANGED <<row, hist, ctl, inFlight, trailing, crowded, seq, faults>>

\* The turn ends, well or badly: its completed row.  A success frees the member's key here and
\* runs the rest of its tail; runOrders is deferred.
Finish(t, ok) ==
    /\ turn[t].pc = "running"
    /\ seq' = seq + 1
    /\ turn' = [turn EXCEPT ![t].pc = IF ok THEN "list" ELSE "failed", ![t].done = seq + 1]
    /\ inFlight' = IF ok THEN inFlight \ {turn[t].member} ELSE inFlight
    /\ trailing' = trailing \cup {t}
    /\ UNCHANGED <<row, hist, cycled, ctl, crowded, faults>>

\* finally: the member's key is deleted whoever holds it by now.
Finally(t) ==
    /\ t \in trailing
    /\ trailing' = trailing \ {t}
    /\ inFlight' = inFlight \ {turn[t].member}
    /\ UNCHANGED <<row, hist, cycled, turn, ctl, crowded, seq, faults>>

-----------------------------------------------------------------------------
(* stopOrder, called with a status to write and a place to come back to. *)

Stop(t, o, status, back) ==
    turn' = [turn EXCEPT ![t].pc = "stop", ![t].cur = o, ![t].want = status,
                         ![t].back = back, ![t].todo = @ \ {o}]

\* The order is read again: only an ACTIVE one is stopped.
ReadForStop(t) ==
    /\ Turn(t, "stop", IF row[turn[t].cur].status = "ACTIVE" THEN "stopping" ELSE turn[t].back)
    /\ UNCHANGED <<row, hist, cycled, ctl, inFlight, trailing, crowded, seq, faults>>

\* Mutant: the row is stopped and the log is not told.
AppendNothing(t) ==
    /\ Turn(t, "stopping", "stopped")
    /\ UNCHANGED <<row, hist, cycled, ctl, inFlight, trailing, crowded, seq, faults>>

\* The order.status event, by the system.
AppendStop(t) ==
    /\ Turn(t, "stopping", "stopped")
    /\ hist' = [hist EXCEPT ![turn[t].cur] = Append(@, turn[t].want)]
    /\ UNCHANGED <<row, cycled, ctl, inFlight, trailing, crowded, seq, faults>>

WriteStop(t) ==
    /\ Turn(t, "stopped", "telling")
    /\ SetOrderStatus(turn[t].cur, turn[t].want)
    /\ UNCHANGED <<hist, cycled, ctl, inFlight, trailing, crowded, seq, faults>>

\* raiseOrderInterrupts: the people of the creator's principal, if the budget allows.
TellStopped(t) ==
    /\ Turn(t, "telling", turn[t].back)
    /\ UNCHANGED <<row, hist, cycled, ctl, inFlight, trailing, crowded, seq, faults>>

-----------------------------------------------------------------------------
(* runOrdersCommand: what a completed turn sets off. *)

\* pauseOrderOnError: a failed cycle pauses its order.
AfterFailure(t) ==
    /\ turn[t].pc = "failed"
    /\ IF turn[t].order = NoOrder THEN turn' = [turn EXCEPT ![t] = Put(@, "over")]
       ELSE Stop(t, turn[t].order, "PAUSED", "over")
    /\ UNCHANGED <<row, hist, cycled, ctl, inFlight, trailing, crowded, seq, faults>>

\* activeOrdersForTrigger: runOrders is the last thing a success defers before its finally block.
List(t) ==
    /\ turn[t].pc = "list" /\ t \notin trailing
    /\ turn' = [turn EXCEPT ![t].pc = "next",
         ![t].todo = {o \in Orders : row[o].status = "ACTIVE" /\ TrigOf[o] = turn[t].member}]
    /\ UNCHANGED <<row, hist, cycled, ctl, inFlight, trailing, crowded, seq, faults>>

\* fireOrderCycle's gates: the voice of the member, the deadline, the day's money.  Each may
\* have run out at any time.
Gate(t) ==
    /\ turn[t].pc = "next" /\ turn[t].todo # {}
    /\ LET o == Min(turn[t].todo) IN
       \/ Stop(t, o, "PAUSED", "next")
       \/ row[o].terms.expires /\ Stop(t, o, "EXPIRED", "next")
    /\ UNCHANGED <<row, hist, cycled, ctl, inFlight, trailing, crowded, seq, faults>>

\* isTurnInFlight, after the gates: the room is told, and the trigger is not consumed ...
Busy(t) ==
    /\ turn[t].pc = "next" /\ turn[t].todo # {}
    /\ LET o == Min(turn[t].todo) IN
       /\ ActOf[o] \in inFlight
       /\ turn' = [turn EXCEPT ![t].todo = @ \ {o}]
    /\ UNCHANGED <<row, hist, cycled, ctl, inFlight, trailing, crowded, seq, faults>>

\* ... or the member is free.
Idle(t) ==
    /\ turn[t].pc = "next" /\ turn[t].todo # {}
    /\ LET o == Min(turn[t].todo) IN
       /\ ActOf[o] \notin inFlight
       /\ turn' = [turn EXCEPT ![t].pc = "claim", ![t].cur = o, ![t].todo = @ \ {o}]
    /\ UNCHANGED <<row, hist, cycled, ctl, inFlight, trailing, crowded, seq, faults>>

NewTrigger(o, trigger) == row[o].status = "ACTIVE" /\ row[o].open < trigger

\* Mutant: the cycle is counted when it is allowed to begin.
ClaimedAndCounted(r, trigger) == [r EXCEPT !.open = trigger, !.cycles = @ + 1]

Claimed(r, trigger) == [r EXCEPT !.open = trigger]

\* claimTrigger.
ClaimTrigger(t) ==
    LET o == turn[t].cur IN
    /\ Turn(t, "claim", IF NewTrigger(o, turn[t].done) THEN "summon" ELSE "next")
    /\ row' = IF NewTrigger(o, turn[t].done) THEN [row EXCEPT ![o] = Claimed(@, turn[t].done)] ELSE row
    /\ UNCHANGED <<hist, cycled, ctl, inFlight, trailing, crowded, seq, faults>>

\* Mutant: a member with any turn still to come is not summoned again.
SummonedAtAll(m, trigger) == \E u \in Turns : turn[u].pc = "queued" /\ turn[u].member = m

Summoned(m, trigger) == \E u \in Turns :
    turn[u].pc # "none" /\ turn[u].order # NoOrder /\ turn[u].member = m /\ turn[u].trigger = trigger

\* fireSummon: one summon for a cause and a member (migration 005), so of two orders that
\* summon the same member on the same trigger the second gets no turn.
Summon(t) ==
    LET o == turn[t].cur
        taken == Summoned(ActOf[o], turn[t].done)
        after == [turn EXCEPT ![t].pc = "next"]
    IN
    /\ turn[t].pc = "summon"
    /\ (taken \/ Free # {})
    /\ turn' = IF taken THEN after
               ELSE [after EXCEPT ![Min(Free)] = New(ActOf[o], o, turn[t].done)]
    /\ UNCHANGED <<row, hist, cycled, ctl, inFlight, trailing, crowded, seq, faults>>

\* The orders are all walked.
Walked(t) ==
    /\ Turn(t, "next", "over") /\ turn[t].todo = {}
    /\ UNCHANGED <<row, hist, cycled, ctl, inFlight, trailing, crowded, seq, faults>>

-----------------------------------------------------------------------------
(* Faults. *)

\* A turn between its started row and its completed one, or still in its tail.
Running(t) ==
    \/ turn[t].pc \in Streaming
    \/ turn[t].pc \in Stopping /\ turn[t].back = "running"
    \/ turn[t].pc = "list" /\ t \in trailing

\* In the turn it fails the turn, in its tail too (a second completed row).
FailTurn(t) ==
    /\ Running(t)
    /\ turn' = [turn EXCEPT ![t].pc = "failed", ![t].done = seq + 1]
    /\ seq' = seq + 1 /\ trailing' = trailing \cup {t}
    /\ UNCHANGED inFlight

\* In the walk it skips the order; in pauseOrderOnError nothing is left to do.
SkipOrder(t) ==
    /\ ~Running(t) /\ turn[t].pc \in Stopping \cup {"claim", "summon"}
    /\ turn' = [turn EXCEPT ![t] = Put(@, IF @.pc \in Stopping THEN @.back ELSE "next")]
    /\ UNCHANGED <<seq, trailing, inFlight>>

\* In the set-up of an admitted turn it is outside the try: the key stays.
Strand(t) ==
    /\ Turn(t, "queued", "over")
    /\ turn[t].member \notin inFlight /\ inFlight' = inFlight \cup {turn[t].member}
    /\ UNCHANGED <<seq, trailing>>

\* An await throws.
Throw(t) ==
    /\ faults < MaxFaults /\ faults' = faults + 1
    /\ FailTurn(t) \/ SkipOrder(t) \/ Strand(t)
    /\ UNCHANGED <<row, hist, cycled, ctl, crowded>>

\* The process dies: every coroutine with it.  Nothing resumes a walk or a queued turn.
Restart ==
    /\ faults < MaxFaults /\ faults' = faults + 1
    /\ turn' = [t \in Turns |-> IF turn[t].pc = "none" THEN turn[t] ELSE Put(turn[t], "over")]
    /\ ctl' = [c \in Controls |-> IF ctl[c].pc = "none" THEN ctl[c] ELSE Done]
    /\ inFlight' = {} /\ trailing' = {}
    /\ UNCHANGED <<row, hist, cycled, crowded, seq>>

CtlStep(c) == AppendControl(c) \/ WriteControl(c)
TurnStep(t) ==
    \/ Admit(t) \/ Refuse(t) \/ ReadTerms(t) \/ Count(t) \/ AppendCycled(t)
    \/ \E ok \in BOOLEAN : Finish(t, ok)
    \/ ReadForStop(t) \/ AppendStop(t) \/ WriteStop(t) \/ TellStopped(t)
    \/ AfterFailure(t) \/ List(t) \/ Gate(t) \/ Busy(t) \/ Idle(t) \/ ClaimTrigger(t) \/ Summon(t) \/ Walked(t)

OrderNext ==
    \/ \E c \in Controls : Create(c) \/ ReadControl(c) \/ ReadEdit(c) \/ CtlStep(c)
    \/ Attend
    \/ \E m \in Members : Ask(m)
    \/ \E t \in Turns : TurnStep(t) \/ Finally(t) \/ Throw(t)
    \/ Restart

OrderSpec == OrderInit /\ [][OrderNext]_orderVars

-----------------------------------------------------------------------------
(* Properties. *)

Says(o, what) == Cardinality({i \in DOMAIN hist[o] : i > 1 /\ hist[o][i] = what})
Unedited(o) == Live(o) /\ Says(o, "edit") = 0

\* The cap is an end (MAX CYCLES, terminal): under the terms it was created with, an order
\* counts no more cycles than its cap, but for one after each fault, each resume (a pause that
\* lands between the count and the stop hides the order from stopOrder, and the resume lets it
\* run again) and each count made beside another's, by two turns of one member at once: the key
\* is deleted twice, and countCycleStarted counts while the row is ACTIVE.
CapHolds == \A o \in Orders : Unedited(o) /\ row[o].terms.cap # NoCap =>
    row[o].cycles <= row[o].terms.cap + faults + Says(o, "ACTIVE") + crowded[o]

\* The dial is kept (ATTENDANCE): between two posts in the room an order runs its unattended
\* budget of cycles and no more, but for one after each fault and each count beside another's.
DialHolds == \A o \in Orders : Unedited(o) =>
    row[o].unattended <= row[o].terms.dial + faults + crowded[o]

\* The count is work (S-CYCLE): what the row counts is what order.cycled says, up to the
\* counts being logged now and those a fault kept out of the log, one for each fault (a restart
\* takes more only of counts made beside one another); and a trigger counts once.
CountIsLogged == \A o \in Orders :
    LET counting == {t \in Turns : turn[t].pc = "cycled" /\ turn[t].order = o}
    IN  /\ row[o].cycles <= Cardinality(cycled[o]) + Cardinality(counting) + faults + crowded[o]
        /\ Cardinality(cycled[o]) + Cardinality(counting) <= row[o].cycles

\* A consumed trigger is a turn, for this order or for another that summons the same member
\* on it; or it is about to be, or a fault took it.
ClaimIsTurn == \A o \in Orders : row[o].open # 0 =>
    \/ \E t \in Turns : turn[t].pc # "none" /\ turn[t].trigger = row[o].open /\ turn[t].member = ActOf[o]
    \/ \E t \in Turns : turn[t].pc = "summon" /\ turn[t].cur = o /\ turn[t].done = row[o].open
    \/ faults > 0

\* The row never shows a status the log does not hold.
RowFromLog == \A o \in Orders : Live(o) => \E i \in DOMAIN hist[o] : hist[o][i] = row[o].status

\* TERMINAL_ORDER_STATUSES: "the terminal states an order can never leave".
TerminalIsForGood ==
    [][\A o \in Orders : row[o].status \in Terminal => row'[o].status = row[o].status]_orderVars

\* Once an order is terminal and every writer that judged it earlier is through, it is over:
\* no command and no completion writes it again, and no cycle of it counts.
Settled(o) ==
    /\ row[o].status \in Terminal
    /\ \A c \in Controls : ctl[c].order = o => ctl[c].pc \in {"none", "over"}
    /\ \A t \in Turns : turn[t].cur = o => turn[t].pc \notin {"stopping", "stopped"}
SettledIsOver ==
    [][\A o \in Orders : Settled(o) => Settled(o)' /\ row'[o] = row[o]]_orderVars

\* The cycle that reaches the cap is the last one that runs: an order whose cap is spent is
\* ACTIVE only while the turn that spent it is on its way to stop it.
ExhaustedIsStopping == \A o \in Orders :
    (row[o].status = "ACTIVE" /\ hist[o] = <<"ACTIVE">> /\ faults = 0
        /\ row[o].terms.cap # NoCap /\ row[o].cycles >= row[o].terms.cap)
    => \E t \in Turns : /\ turn[t].order = o /\ turn[t].want = "LIMIT_REACHED"
                        /\ turn[t].pc \in {"cycled", "stop", "stopping", "stopped"}

\* An order is bounded by what it was given, and by nothing it did not do: its cap, its dial,
\* its count and its end go together, what it claims it runs, and its row says what its log says.
BoundsHold ==
    CapHolds /\ DialHolds /\ CountIsLogged /\ ExhaustedIsStopping /\ ClaimIsTurn /\ RowFromLog
=============================================================================
