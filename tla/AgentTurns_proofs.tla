------------------------- MODULE AgentTurns_proofs -------------------------
(***************************************************************************)
(* The safety invariants of AgentTurns for any set of turns and members,   *)
(* any ceiling and any number of restarts.  SlotHasTurn is inductive given *)
(* the types; the other three need LogInv, which says for every place of   *)
(* the coroutine what the log already holds when a turn is suspended there.*)
(***************************************************************************)
EXTENDS AgentTurns, TLAPS

\* What is in the log, the task row and the continuations at each place.
LogInv ==
    \A t \in Turns :
        /\ pc[t] \in {"absent", "queued", "under", "over", "refused"} \cup Unguarded =>
              t \notin started /\ completed[t] = {}
        /\ pc[t] \in {"queued", "under", "over", "refused"} \cup Unguarded => task[t] = "working"
        /\ pc[t] = "refused" => t \in notices
        /\ pc[t] \in {"answered", "closing", "tail"} => "success" \in completed[t]
        /\ pc[t] = "tail" => task[t] # "working"
        /\ pc[t] = "failed" => "failure" \in completed[t]
        /\ pc[t] \in {"leaving", "done"} => completed[t] # {} /\ task[t] # "working"
        /\ task[t] = "done" => "success" \in completed[t]
        /\ task[t] = "held" => "failure" \in completed[t]
        /\ deferred[t] \subseteq completed[t]
        /\ deferred[t] # {} => pc[t] \in {"failed", "leaving", "done"} \cup Broken
        /\ \A a, b \in deferred[t] : a = b

\* The control state, the log and the rows keep their types.
LEMMA TypeInvariant == Spec => []TypeOK
<1>1. Init => TypeOK
  BY BoundsAssumption DEF Init, TypeOK, Places
<1>2. TypeOK /\ [Next]_vars => TypeOK'
  <2> SUFFICES ASSUME TypeOK, [Next]_vars PROVE TypeOK'
    OBVIOUS
  <2> USE MemberOfAssumption, BoundsAssumption
      DEF TypeOK, Places, Waiting, Holding, Trailing, Ended, Unguarded, Broken, Goto
  <2>1. ASSUME NEW t \in Turns, Trigger(t) PROVE TypeOK'
    BY <2>1 DEF Trigger
  <2>2. ASSUME NEW t \in Turns, Proceed(t) PROVE TypeOK'
    <3>1. CASE ReadSpend(t) \/ Refuse(t) \/ Admit(t)
      BY <3>1 DEF ReadSpend, Refuse, Admit
    <3>2. CASE Start(t) \/ Complete(t) \/ Release(t)
      BY <3>2 DEF Start, Complete, Release
    <3>3. CASE CloseTask(t) \/ Tail(t) \/ RecordFailure(t)
      BY <3>3 DEF CloseTask, Tail, RecordFailure
    <3>4. CASE HoldTask(t) \/ Finally(t)
      BY <3>4 DEF HoldTask, Finally
    <3> QED
      BY <2>2, <3>1, <3>2, <3>3, <3>4 DEF Proceed
  <2>3. ASSUME NEW t \in Turns, Fail(t) PROVE TypeOK'
    <3>1. CASE ThrowEarly(t) \/ Strand(t)
      BY <3>1 DEF ThrowEarly, Strand
    <3>2. CASE Throw(t) \/ CatchThrows(t)
      BY <3>2 DEF Throw, CatchThrows
    <3> QED
      BY <2>3, <3>1, <3>2 DEF Fail
  <2>4. CASE Restart
    BY <2>4 DEF Restart
  <2>5. CASE UNCHANGED vars
    BY <2>5 DEF vars
  <2> QED
    BY <2>1, <2>2, <2>3, <2>4, <2>5 DEF Next, Step
<1> QED
  BY <1>1, <1>2, PTL DEF Spec

\* A turn leaves Holding in the step that deletes the member's key, and a slot taken outside
\* the try is taken by a turn that says so.
LEMMA SlotStep == TypeOK /\ SlotHasTurn /\ [Next]_vars => SlotHasTurn'
<1> SUFFICES ASSUME TypeOK, SlotHasTurn, [Next]_vars PROVE SlotHasTurn'
  OBVIOUS
<1> USE MemberOfAssumption DEF TypeOK, SlotHasTurn, StrandedOf, Holding, Goto
\* A turn moved within Holding, or was outside it, and the set did not change.
<1>1. ASSUME NEW t \in Turns, UNCHANGED inFlight,
             pc' = [pc EXCEPT ![t] = pc'[t]],
             pc[t] \in Holding => pc'[t] \in Holding,
             pc[t] # "stranded"
      PROVE  SlotHasTurn'
  BY <1>1
\* The member's key went, and only this member's turn moved.
<1>2. ASSUME NEW t \in Turns, inFlight' = inFlight \ {MemberOf[t]},
             pc' = [pc EXCEPT ![t] = pc'[t]]
      PROVE  SlotHasTurn'
  BY <1>2
<1>3. ASSUME NEW t \in Turns, Admit(t) \/ Strand(t) PROVE SlotHasTurn'
  BY <1>3 DEF Admit, Strand
<1>4. ASSUME NEW t \in Turns,
             \/ Trigger(t) \/ ReadSpend(t) \/ Refuse(t) \/ Start(t) \/ Complete(t)
             \/ CloseTask(t) \/ Tail(t) \/ Throw(t) \/ RecordFailure(t) \/ HoldTask(t)
             \/ ThrowEarly(t)
      PROVE  SlotHasTurn'
  <2>1. /\ UNCHANGED inFlight
        /\ pc' = [pc EXCEPT ![t] = pc'[t]]
        /\ pc[t] \in Holding => pc'[t] \in Holding
        /\ pc[t] # "stranded"
    BY <1>4 DEF Trigger, ReadSpend, Refuse, Start, Complete, CloseTask, Tail, Throw,
                RecordFailure, HoldTask, ThrowEarly
  <2> QED
    BY <1>1, <2>1
<1>5. ASSUME NEW t \in Turns, Release(t) \/ Finally(t) \/ CatchThrows(t) PROVE SlotHasTurn'
  <2>1. inFlight' = inFlight \ {MemberOf[t]} /\ pc' = [pc EXCEPT ![t] = pc'[t]]
    BY <1>5 DEF Release, Finally, CatchThrows
  <2> QED
    BY <1>2, <2>1
<1>6. CASE Restart
  BY <1>6 DEF Restart
<1>7. CASE UNCHANGED vars
  BY <1>7 DEF vars
<1> QED
  BY <1>3, <1>4, <1>5, <1>6, <1>7 DEF Next, Step, Proceed, Fail

\* A member is locked out of the room by a turn that holds its slot, or by one that threw
\* between taking it and entering the try, and by nothing else.
THEOREM SlotAlwaysHasTurn == Spec => []SlotHasTurn
<1>1. Init => SlotHasTurn
  BY DEF Init, SlotHasTurn
<1> QED
  BY <1>1, SlotStep, TypeInvariant, PTL DEF Spec

\* Every step keeps what the log holds in agreement with where its turn is suspended.
LEMMA LogStep == TypeOK /\ LogInv /\ [Next]_vars => LogInv'
<1> SUFFICES ASSUME TypeOK, LogInv, [Next]_vars PROVE LogInv'
  OBVIOUS
<1> USE DEF TypeOK, LogInv, Unguarded, Broken, Goto
<1>1. ASSUME NEW t \in Turns, Trigger(t) PROVE LogInv'
  BY <1>1 DEF Trigger
<1>2. ASSUME NEW t \in Turns, ReadSpend(t) \/ Refuse(t) \/ Admit(t) PROVE LogInv'
  BY <1>2 DEF ReadSpend, Refuse, Admit
<1>3. ASSUME NEW t \in Turns, Start(t) \/ Release(t) PROVE LogInv'
  BY <1>3 DEF Start, Release
<1>4. ASSUME NEW t \in Turns, Complete(t) PROVE LogInv'
  BY <1>4 DEF Complete
<1>5. ASSUME NEW t \in Turns, CloseTask(t) PROVE LogInv'
  BY <1>5 DEF CloseTask
\* The coroutine has reported nothing before its tail, so this report is its only one.
<1>6. ASSUME NEW t \in Turns, Tail(t) PROVE LogInv'
  <2>1. deferred[t] = {} /\ "success" \in completed[t]
    BY <1>6 DEF Tail
  <2> QED
    BY <1>6, <2>1 DEF Tail
<1>7. ASSUME NEW t \in Turns, Throw(t) PROVE LogInv'
  BY <1>7 DEF Throw
<1>8. ASSUME NEW t \in Turns, RecordFailure(t) PROVE LogInv'
  <2>1. deferred[t] = {}
    BY <1>8 DEF RecordFailure
  <2> QED
    BY <1>8, <2>1 DEF RecordFailure
<1>9. ASSUME NEW t \in Turns, HoldTask(t) PROVE LogInv'
  BY <1>9 DEF HoldTask
<1>10. ASSUME NEW t \in Turns, Finally(t) \/ CatchThrows(t) PROVE LogInv'
  BY <1>10 DEF Finally, CatchThrows
<1>11. CASE Restart
  BY <1>11 DEF Restart, Waiting, Holding, Trailing
<1>12. ASSUME NEW t \in Turns, ThrowEarly(t) \/ Strand(t) PROVE LogInv'
  BY <1>12 DEF ThrowEarly, Strand
<1>13. CASE UNCHANGED vars
  BY <1>13 DEF vars
<1> QED
  BY <1>1, <1>2, <1>3, <1>4, <1>5, <1>6, <1>7, <1>8, <1>9, <1>10, <1>11, <1>12, <1>13
     DEF Next, Step, Proceed, Fail

\* The log, the task row and the continuations agree at every await of every turn.
LEMMA LogInvariant == Spec => []LogInv
<1>1. Init => LogInv
  BY DEF Init, LogInv, Unguarded, Broken
<1> QED
  BY <1>1, LogStep, TypeInvariant, PTL DEF Spec

\* A turn that was refused says so, one that reached the end of its finally block left an outcome,
\* one that threw outside the try ran nothing, and only a throw of the catch block or the end
\* of the process leaves a started turn without an outcome.
THEOREM NeverSilentHolds == Spec => []NeverSilent
<1>1. LogInv => NeverSilent
  BY DEF LogInv, NeverSilent, Unguarded, Broken, Ended
<1> QED
  BY <1>1, LogInvariant, PTL

\* A task row says done or held only when the log says why.
THEOREM TaskMatchesLogHolds == Spec => []TaskMatchesLog
<1>1. LogInv => TaskMatchesLog
  BY DEF LogInv, TaskMatchesLog
<1> QED
  BY <1>1, LogInvariant, PTL

\* What the log, the notices and the task say of a turn that ended is what happened to it.
THEOREM EndsAreToldHolds == Spec => []EndsAreTold
<1>1. NeverSilent /\ TaskMatchesLog => EndsAreTold
  BY DEF EndsAreTold
<1> QED
  BY <1>1, NeverSilentHolds, TaskMatchesLogHolds, PTL

\* A turn drives the standing orders at most once.
THEOREM ContinuedOnceHolds == Spec => []ContinuedOnce
<1>1. LogInv => ContinuedOnce
  BY DEF LogInv, ContinuedOnce
<1> QED
  BY <1>1, LogInvariant, PTL

\* After the ceiling is reached no further turn is cleared to spend.
THEOREM CeilingClosesHolds == Spec => CeilingCloses
<1>1. TypeOK /\ [Next]_vars => [spent >= Ceiling => Cleared' \subseteq Cleared]_vars
  <2> SUFFICES ASSUME TypeOK, Next, spent >= Ceiling PROVE Cleared' \subseteq Cleared
    OBVIOUS
  <2> USE DEF TypeOK, Cleared, Goto
  <2>1. ASSUME NEW t \in Turns, Step(t) PROVE Cleared' \subseteq Cleared
    BY <2>1 DEF Step, Proceed, Fail, ThrowEarly, Strand, Trigger, ReadSpend, Refuse, Admit, Start, Complete, Release,
                CloseTask, Tail, Throw, RecordFailure, HoldTask, Finally, CatchThrows
  <2>2. CASE Restart
    BY <2>2 DEF Restart
  <2> QED
    BY <2>1, <2>2 DEF Next
<1> QED
  BY <1>1, TypeInvariant, PTL DEF Spec, CeilingCloses
=============================================================================
