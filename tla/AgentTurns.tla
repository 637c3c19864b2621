----------------------------- MODULE AgentTurns -----------------------------
(***************************************************************************)
(* The life of a hosted agent's turn in one room and one API process:      *)
(* runAgentTurn in apps/api/src/agent.ts.  A turn begins when fireSummon   *)
(* has written the summon and deferred triggerAgentTurn; it reads the      *)
(* day's spend, is refused out loud or takes the member's in-flight slot,  *)
(* streams, writes its completed row, moves its task and lets the slot go. *)
(* Each action is the code between two awaits, so any two turns interleave *)
(* at the awaits and nowhere else.                                         *)
(*                                                                         *)
(* Abstracted: the text, tokens and timings of a turn; a success costs one *)
(* unit.  A write that throws has written nothing, except moveTask, which  *)
(* may have changed the row.  The day does not roll over.  A turn's task is written by that    *)
(* turn only (TaskLedger models the other writers).                        *)
(***************************************************************************)
EXTENDS Naturals

CONSTANTS
    Turns,        \* the summons the room will see, one turn each
    Members,      \* the agent members of the room
    Faulty,       \* the turns whose provider or whose writes may throw
    MemberOf,     \* [Turns -> Members]: whom each summon addresses
    Ceiling,      \* PLAYROOM_DAILY_USD_CEILING, in turns
    MaxRestarts   \* bound: restarts of the process

ASSUME MemberOfAssumption == MemberOf \in [Turns -> Members]
ASSUME FaultyAssumption == Faulty \subseteq Turns
ASSUME BoundsAssumption == Ceiling \in Nat /\ MaxRestarts \in Nat

VARIABLES
    pc,         \* where each turn's coroutine is suspended
    inFlight,   \* the process's in-flight set, by member (one room)
    started,    \* turns whose agent.turn.started row is in the log
    completed,  \* turn -> the outcomes of its agent.turn.completed rows
    notices,    \* turns the room was told would not happen
    task,       \* turn -> the state of its task row
    deferred,   \* turn -> the outcomes handed to the standing orders (runOrders)
    spent,      \* what the log says the day has cost
    restarts

vars == <<pc, inFlight, started, completed, notices, task, deferred, spent, restarts>>

\* Suspended at an await before the slot is taken.
Waiting == {"queued", "under", "over"}
\* Between taking the slot and giving it back.
Holding == {"admitted", "streaming", "answered", "failing", "failed", "leaving"}
\* After the completed row, past the release at the end of the turn proper.
Trailing == {"closing", "tail"}
\* Ended by a throw outside the try: spendToday, the refusal's message, or the set-up of an
\* admitted turn (which leaves its slot taken).
Unguarded == {"unread", "unsaid", "stranded"}
\* Ended by a throw of the catch block, or with the process.
Broken == {"uncaught", "cut"}
Ended == {"refused", "done"} \cup Unguarded \cup Broken
Places == {"absent"} \cup Waiting \cup Holding \cup Trailing \cup Ended

TypeOK ==
    /\ pc \in [Turns -> Places]
    /\ inFlight \subseteq Members
    /\ started \subseteq Turns
    /\ completed \in [Turns -> SUBSET {"success", "failure"}]
    /\ notices \subseteq Turns
    /\ task \in [Turns -> {"none", "working", "done", "held"}]
    /\ deferred \in [Turns -> SUBSET {"success", "failure"}]
    /\ spent \in Nat
    /\ restarts \in 0..MaxRestarts

Init ==
    /\ pc = [t \in Turns |-> "absent"]
    /\ inFlight = {}
    /\ started = {}
    /\ completed = [t \in Turns |-> {}]
    /\ notices = {}
    /\ task = [t \in Turns |-> "none"]
    /\ deferred = [t \in Turns |-> {}]
    /\ spent = 0
    /\ restarts = 0

Goto(t, from, to) ==
    /\ pc[t] = from
    /\ pc' = [pc EXCEPT ![t] = to]

-----------------------------------------------------------------------------
(* Admission. *)

\* fireSummon's tail: the summon and its working task exist, the turn is deferred.
Trigger(t) ==
    /\ Goto(t, "absent", "queued")
    /\ task' = [task EXCEPT ![t] = "working"]
    /\ UNCHANGED <<inFlight, started, completed, notices, deferred, spent, restarts>>

\* Mutant: the ceiling is compared with > instead of >=.
ReadSpendOffByOne(t) ==
    /\ Goto(t, "queued", IF spent > Ceiling THEN "over" ELSE "under")
    /\ UNCHANGED <<inFlight, started, completed, notices, task, deferred, spent, restarts>>

\* spendToday: one aggregate over the log; the turn resumes with this answer later.
ReadSpend(t) ==
    /\ Goto(t, "queued", IF spent >= Ceiling THEN "over" ELSE "under")
    /\ UNCHANGED <<inFlight, started, completed, notices, task, deferred, spent, restarts>>

\* Mutant: the turn is dropped and the room is not told.
RefuseSilently(t) ==
    /\ \/ pc[t] = "over"
       \/ pc[t] = "under" /\ MemberOf[t] \in inFlight
    /\ pc' = [pc EXCEPT ![t] = "refused"]
    /\ UNCHANGED <<inFlight, started, completed, notices, task, deferred, spent, restarts>>

\* The ceiling, or a turn of the same member already in flight: a system message and
\* nothing else.  The task is left as it was.
Refuse(t) ==
    /\ \/ pc[t] = "over"
       \/ pc[t] = "under" /\ MemberOf[t] \in inFlight
    /\ pc' = [pc EXCEPT ![t] = "refused"]
    /\ notices' = notices \cup {t}
    /\ UNCHANGED <<inFlight, started, completed, task, deferred, spent, restarts>>

\* The slot is taken in the same synchronous stretch as the test.
Admit(t) ==
    /\ Goto(t, "under", "admitted")
    /\ MemberOf[t] \notin inFlight
    /\ inFlight' = inFlight \cup {MemberOf[t]}
    /\ UNCHANGED <<started, completed, notices, task, deferred, spent, restarts>>

\* The set-up between the slot and the try throws (the prompt file cannot be read, the member
\* has no adapter): neither catch nor finally runs, and the slot stays taken.
Strand(t) ==
    /\ t \in Faulty
    /\ Goto(t, "under", "stranded")
    /\ MemberOf[t] \notin inFlight
    /\ inFlight' = inFlight \cup {MemberOf[t]}
    /\ UNCHANGED <<started, completed, notices, task, deferred, spent, restarts>>

\* A throw before the slot is taken: spendToday, or the message of the refusal.
ThrowEarly(t) ==
    /\ t \in Faulty
    /\ \/ Goto(t, "queued", "unread")
       \/ Goto(t, "over", "unsaid")
       \/ Goto(t, "under", "unsaid") /\ MemberOf[t] \in inFlight
    /\ UNCHANGED <<inFlight, started, completed, notices, task, deferred, spent, restarts>>

-----------------------------------------------------------------------------
(* The turn. *)

\* The stamp and the started row (one per summon, migration 006).
Start(t) ==
    /\ Goto(t, "admitted", "streaming")
    /\ t \notin started
    /\ started' = started \cup {t}
    /\ UNCHANGED <<inFlight, completed, notices, task, deferred, spent, restarts>>

\* The provider's stream ended: the completed row, which carries the cost.
Complete(t) ==
    /\ Goto(t, "streaming", "answered")
    /\ completed' = [completed EXCEPT ![t] = @ \cup {"success"}]
    /\ spent' = spent + 1
    /\ UNCHANGED <<inFlight, started, notices, task, deferred, restarts>>

\* Mutant: the slot is left to the finally block.
ReleaseNothing(t) ==
    /\ Goto(t, "answered", "closing")
    /\ UNCHANGED <<inFlight, started, completed, notices, task, deferred, spent, restarts>>

\* Mutant: the continuation is dispatched before the task moves.
ReleaseAndContinue(t) ==
    /\ Goto(t, "answered", "closing")
    /\ inFlight' = inFlight \ {MemberOf[t]}
    /\ deferred' = [deferred EXCEPT ![t] = @ \cup {"success"}]
    /\ UNCHANGED <<started, completed, notices, task, spent, restarts>>

\* The code after the append resumes: the slot is free here, before the tail.
Release(t) ==
    /\ Goto(t, "answered", "closing")
    /\ inFlight' = inFlight \ {MemberOf[t]}
    /\ UNCHANGED <<started, completed, notices, task, deferred, spent, restarts>>

\* moveTask(done).
CloseTask(t) ==
    /\ Goto(t, "closing", "tail")
    /\ task' = [task EXCEPT ![t] = "done"]
    /\ UNCHANGED <<inFlight, started, completed, notices, deferred, spent, restarts>>

\* The emitted summons and actions are dispatched, then the standing-order continuation.
\* What the dispatched commands do is theirs; the tail itself cannot throw.
Tail(t) ==
    /\ Goto(t, "tail", "leaving")
    /\ deferred' = [deferred EXCEPT ![t] = @ \cup {"success"}]
    /\ UNCHANGED <<inFlight, started, completed, notices, task, spent, restarts>>

-----------------------------------------------------------------------------
(* Failure: the catch block, then the finally block. *)

\* Inside the try: a provider error, or any write before or after the completed row that throws.  After the
\* release the throw can come before or after moveTask changed the row.
Throw(t) ==
    /\ t \in Faulty
    /\ \/ /\ pc[t] \in {"admitted", "streaming"}
          /\ UNCHANGED task
       \/ /\ pc[t] = "closing"
          /\ \/ UNCHANGED task
             \/ task' = [task EXCEPT ![t] = "done"]
    /\ pc' = [pc EXCEPT ![t] = "failing"]
    /\ UNCHANGED <<inFlight, started, completed, notices, deferred, spent, restarts>>

\* The failed completed row, and the continuation that pauses the order.
RecordFailure(t) ==
    /\ Goto(t, "failing", "failed")
    /\ completed' = [completed EXCEPT ![t] = @ \cup {"failure"}]
    /\ deferred' = [deferred EXCEPT ![t] = @ \cup {"failure"}]
    /\ UNCHANGED <<inFlight, started, notices, task, spent, restarts>>

\* Mutant: the catch block forgets the task.
HoldNothing(t) ==
    /\ Goto(t, "failed", "leaving")
    /\ UNCHANGED <<inFlight, started, completed, notices, task, deferred, spent, restarts>>

\* moveTask(held).
HoldTask(t) ==
    /\ Goto(t, "failed", "leaving")
    /\ task' = [task EXCEPT ![t] = "held"]
    /\ UNCHANGED <<inFlight, started, completed, notices, deferred, spent, restarts>>

\* Mutant: no finally block.
FinallyKeepsSlot(t) ==
    /\ Goto(t, "leaving", "done")
    /\ UNCHANGED <<inFlight, started, completed, notices, task, deferred, spent, restarts>>

\* finally: the member's key is deleted whoever holds it by now.
Finally(t) ==
    /\ Goto(t, "leaving", "done")
    /\ inFlight' = inFlight \ {MemberOf[t]}
    /\ UNCHANGED <<started, completed, notices, task, deferred, spent, restarts>>

\* A write of the catch block throws too, moveTask's with or without the row changed: the
\* finally block still runs.
CatchThrows(t) ==
    /\ \/ Goto(t, "failing", "uncaught") /\ UNCHANGED task
       \/ /\ Goto(t, "failed", "uncaught")
          /\ task' \in {task, [task EXCEPT ![t] = "held"]}
    /\ inFlight' = inFlight \ {MemberOf[t]}
    /\ UNCHANGED <<started, completed, notices, deferred, spent, restarts>>

\* The process dies with its coroutines and its in-flight set; the log and the rows remain.
Restart ==
    /\ restarts < MaxRestarts
    /\ restarts' = restarts + 1
    /\ pc' = [t \in Turns |-> IF pc[t] \in Waiting \cup Holding \cup Trailing \cup {"stranded"}
                              THEN "cut" ELSE pc[t]]
    /\ inFlight' = {}
    /\ UNCHANGED <<started, completed, notices, task, deferred, spent>>

Proceed(t) ==
    \/ ReadSpend(t) \/ Refuse(t) \/ Admit(t)
    \/ Start(t) \/ Complete(t) \/ Release(t) \/ CloseTask(t) \/ Tail(t)
    \/ RecordFailure(t) \/ HoldTask(t) \/ Finally(t)

Fail(t) == ThrowEarly(t) \/ Strand(t) \/ Throw(t) \/ CatchThrows(t)

Step(t) == Trigger(t) \/ Proceed(t) \/ Fail(t)

Done == \A t \in Turns : pc[t] \in Ended

Next ==
    \/ \E t \in Turns : Step(t)
    \/ Restart

\* Every await of the code settles: a query answers or throws, and the provider SDKs bound a
\* stream with a request timeout.
Fairness == \A t \in Turns : WF_vars(Proceed(t))

Spec == Init /\ [][Next]_vars
FairSpec == Spec /\ Fairness

-----------------------------------------------------------------------------
(* Properties. *)

\* Turns of m whose set-up threw: their slot is never given back by them.
StrandedOf(m) == {t \in Turns : MemberOf[t] = m /\ pc[t] = "stranded"}

\* A member's slot is held by a turn that is still before its own release or its finally block,
\* or was left by a turn that threw between taking it and entering the try.  That throw is the
\* only way out of runAgentTurn that can lock a member out; every refusal, every throw inside
\* the try, every throw of the catch block and a restart lets the slot go.
SlotHasTurn ==
    \A m \in inFlight :
        (\E t \in Turns : MemberOf[t] = m /\ pc[t] \in Holding) \/ StrandedOf(m) # {}

\* What a turn's end leaves in the room, for every way of ending.  Refused: a notice, and
\* nothing ran.  Through the finally block without a throw of the catch block: an outcome.  By a
\* throw outside the try: no outcome and no started row either, so nothing ran and nothing was
\* spent, but nobody is told and the task stays working.  Only a throw of the catch block or the
\* end of the process leaves a turn that started without an outcome.
NeverSilent ==
    \A t \in Turns :
        /\ pc[t] = "refused" => t \in notices /\ t \notin started /\ completed[t] = {}
        /\ pc[t] = "done" => completed[t] # {}
        /\ pc[t] \in Unguarded =>
              t \notin started /\ completed[t] = {} /\ task[t] = "working"
        /\ pc[t] \in Ended /\ t \in started /\ completed[t] = {} => pc[t] \in Broken

\* The task agrees with the log: done and held are written only after the completed row that
\* explains them, and a turn whose catch block (if it ran) and finally block both completed
\* leaves its task done or held.
TaskMatchesLog ==
    \A t \in Turns :
        /\ task[t] = "done" => "success" \in completed[t]
        /\ task[t] = "held" => "failure" \in completed[t]
        /\ pc[t] = "done" => task[t] # "working"

\* What the log, the notices and the task say of a turn that ended is what happened to it.
EndsAreTold == NeverSilent /\ TaskMatchesLog

\* A turn reports to the standing orders at most once and only what the log holds, even when
\* moveTask throws after the success row and the failure row joins it.
ContinuedOnce ==
    \A t \in Turns :
        /\ deferred[t] \subseteq completed[t]
        /\ \A a, b \in deferred[t] : a = b

\* The turns that may still spend.
Cleared == {t \in Turns : pc[t] \in {"under", "admitted", "streaming"}}

\* Once the day's cost has reached the ceiling nothing joins the turns that may still spend: the
\* overshoot is at most the turns that had already read the sum.
CeilingCloses == [][spent >= Ceiling => Cleared' \subseteq Cleared]_vars

\* "One in-flight turn per MEMBER per room ... a second summon of the SAME member while it is
\* streaming is still refused out loud" (apps/api/src/agent.ts:378).
OneTurnPerMember ==
    \A t, u \in Turns :
        /\ t # u /\ MemberOf[t] = MemberOf[u]
        /\ pc[t] = "streaming"
        => pc[u] # "streaming"

\* A taken slot is given back, unless a turn of the member threw in its set-up.
SlotFreed ==
    \A m \in Members : m \in inFlight ~> m \notin inFlight \/ StrandedOf(m) # {}
=============================================================================
