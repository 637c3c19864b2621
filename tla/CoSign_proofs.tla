--------------------------- MODULE CoSign_proofs ---------------------------
(***************************************************************************)
(* Proofs about CoSign for every number of decisions, calls and restarts.  *)
(* The inductive invariant says who may be about to cause an effect: at    *)
(* most one call is past the resolution row of a decision, it carries the  *)
(* answer of that row, and what it is about to do has not been done.       *)
(***************************************************************************)
EXTENDS CoSign, TLAPS

\* What the guards of step 8 guarantee about a call that is releasing.
ReleaseOK ==
    \A c \in Calls :
        /\ pc[c] \in Releasing => resolution[on[c]] = says[c] /\ ruled[on[c]] # "unopened"
        /\ pc[c] = "denying" => says[c] = "DENIED"
        /\ pc[c] = "noting" => says[c] = "APPROVED" /\ Kind[on[c]] = "none"
        /\ pc[c] = "summoning" => says[c] = "APPROVED" /\ Kind[on[c]] = "summon"
        /\ pc[c] \in {"writing", "performed", "unperformed", "upstream"}
              => says[c] = "APPROVED" /\ Kind[on[c]] = "write"

\* migration 020: one call at most is past the row of a decision.
OneWinner ==
    \A c, e \in Calls :
        pc[c] \in Releasing /\ pc[e] \in Releasing /\ on[c] = on[e] => c = e

\* Nothing is done before it is answered, and the backend is not called twice.
NotYetDone ==
    /\ \A d \in Decisions :
          Kind[d] = "write" /\ resolution[d] = "none" => effects[ThingOf[d]] = 0
    /\ \A c \in Calls : pc[c] \in {"writing", "unperformed"} => effects[ThingOf[on[c]]] = 0

\* A call in flight was made by someone who was asked, on a decision that exists, and the one
\* about to append still works under the mandate of the ruling.
AskedInTime ==
    \A c \in Calls :
        /\ pc[c] \in InFlight => c \in Asked /\ ruled[on[c]] # "unopened"
        /\ pc[c] = "cleared" => mandate = ruled[on[c]]

\* An answer is the answer to a decision that was opened.
AnsweredOpen == \A d \in Decisions : resolution[d] # "none" => ruled[d] # "unopened"

SignInv == TypeOK /\ ReleaseOK /\ OneWinner /\ NotYetDone /\ AskedInTime /\ AnsweredOpen

-----------------------------------------------------------------------------

\* Every step keeps every variable's type.
LEMMA TypeStep == TypeOK /\ [Next]_vars => TypeOK'
<1> SUFFICES ASSUME TypeOK, [Next]_vars PROVE TypeOK'
  OBVIOUS
<1> USE DEF TypeOK, InFlight, Checking, Releasing, Returned, Answers, Outcomes
<1> USE DEF Goto, log
<1>1. ASSUME NEW d \in Decisions, Pause(d) PROVE TypeOK'
  BY <1>1 DEF Pause
<1>2. ASSUME NEW d \in Decisions, WindowPasses(d) PROVE TypeOK'
  BY <1>2 DEF WindowPasses
<1>3. ASSUME NEW c \in Calls, BeginSign(c) PROVE TypeOK'
  BY <1>3 DEF BeginSign
<1>4. ASSUME NEW c \in Calls, ReadResolution(c) \/ CheckStillValid(c) \/ LoseRace(c)
      PROVE TypeOK'
  BY <1>4 DEF ReadResolution, CheckStillValid, LoseRace
<1>5. ASSUME NEW c \in Calls, AppendResolved(c) PROVE TypeOK'
  <2>1. Release(c) \in Releasing
    BY KindAssumption DEF Release
  <2> QED BY <1>5, <2>1 DEF AppendResolved
<1>6. ASSUME NEW c \in Calls, Notice(c) PROVE TypeOK'
  BY <1>6 DEF Notice, Record
<1>7. ASSUME NEW c \in Calls, InsertSummon(c) PROVE TypeOK'
  BY <1>7, ThingOfAssumption DEF InsertSummon, Record
<1>8. ASSUME NEW c \in Calls, PerformWrite(c) PROVE TypeOK'
  <2>1. ThingOf[on[c]] \in Things /\ effects[ThingOf[on[c]]] + 1 \in Nat
    BY ThingOfAssumption
  <2>2. effects' \in [Things -> Nat]
    BY <1>8, <2>1 DEF PerformWrite
  <2>3. pc' \in [Calls -> InFlight \cup Returned \cup {"idle"}]
    BY <1>8 DEF PerformWrite
  <2> QED BY <1>8, <2>2, <2>3 DEF PerformWrite
<1>9. ASSUME NEW c \in Calls, RecordWrite(c) PROVE TypeOK'
  BY <1>9 DEF RecordWrite, Record
<1>10. ASSUME NEW c \in Calls, CatchRecord(c) \/ Throw(c) PROVE TypeOK'
  BY <1>10 DEF CatchRecord, Throw
<1>11. CASE Restart
  BY <1>11, BoundsAssumption DEF Restart
<1>12. CASE UNCHANGED vars
  BY <1>12 DEF vars
<1> QED
  BY <1>1, <1>2, <1>3, <1>4, <1>5, <1>6, <1>7, <1>8, <1>9, <1>10, <1>11, <1>12
  DEF Next, Step, Proceed

\* Every variable keeps its type, whatever the calls and restarts do.
LEMMA TypeInvariant == Spec => []TypeOK
<1>1. Init => TypeOK
  BY BoundsAssumption DEF Init, TypeOK, InFlight, Checking, Releasing, Returned, Answers, Outcomes
<1> QED BY <1>1, TypeStep, PTL DEF Spec

\* A held write has a thing of its own.
LEMMA OwnThing ==
    ASSUME NEW d \in Decisions, NEW e \in Decisions, Kind[d] = "write", ThingOf[d] = ThingOf[e]
    PROVE  d = e
BY ThingOfAssumption

\* Steps before the resolution row: nothing is released by them.
LEMMA CheckingStep ==
    ASSUME SignInv, NEW c \in Calls,
           BeginSign(c) \/ ReadResolution(c) \/ CheckStillValid(c) \/ LoseRace(c)
    PROVE  (ReleaseOK /\ OneWinner /\ NotYetDone /\ AskedInTime /\ AnsweredOpen)'
<1> USE DEF SignInv, TypeOK, InFlight, Checking, Releasing, Returned
<1>1. /\ pc[c] \in {"idle", "asking", "unresolved", "cleared"}
      /\ \E to \in {"asking", "unresolved", "cleared", "refused"} : pc' = [pc EXCEPT ![c] = to]
      /\ UNCHANGED <<mandate, expired, ruled, resolution, effects, outcome, on, says, restarts>>
  BY DEF BeginSign, ReadResolution, CheckStillValid, LoseRace, Goto, log
<1>2. ReleaseOK'
  BY <1>1 DEF ReleaseOK
<1>3. OneWinner'
  BY <1>1 DEF OneWinner
<1>4. NotYetDone'
  BY <1>1 DEF NotYetDone
<1>5. AskedInTime'
  <2>1. pc'[c] \in InFlight => c \in Asked /\ ruled[on[c]] # "unopened"
    BY DEF BeginSign, ReadResolution, CheckStillValid, LoseRace, Goto, AskedInTime
  <2>2. pc'[c] = "cleared" => mandate = ruled[on[c]]
    BY DEF BeginSign, ReadResolution, CheckStillValid, LoseRace, Goto
  <2> QED BY <1>1, <2>1, <2>2 DEF AskedInTime
<1>6. AnsweredOpen'
  BY <1>1 DEF AnsweredOpen
<1> QED BY <1>2, <1>3, <1>4, <1>5, <1>6

\* The resolution row: its writer is the only call past it, and carries the answer.
LEMMA AppendStep ==
    ASSUME SignInv, NEW c \in Calls, AppendResolved(c)
    PROVE  (ReleaseOK /\ OneWinner /\ NotYetDone /\ AskedInTime /\ AnsweredOpen)'
<1> USE DEF SignInv, TypeOK, InFlight, Checking, Releasing, Returned
<1> DEFINE d == on[c]
<1>1. /\ pc[c] = "cleared" /\ resolution[d] = "none"
      /\ pc' = [pc EXCEPT ![c] = Release(c)]
      /\ resolution' = [resolution EXCEPT ![d] = says[c]]
      /\ UNCHANGED <<mandate, ruled, expired, effects, outcome, on, says, restarts>>
      /\ d \in Decisions
  BY DEF AppendResolved, Goto
<1>2. /\ Release(c) \in {"denying", "summoning", "writing", "noting"}
      /\ Release(c) = "denying" => says[c] = "DENIED"
      /\ Release(c) = "noting" => says[c] = "APPROVED" /\ Kind[d] = "none"
      /\ Release(c) = "summoning" => says[c] = "APPROVED" /\ Kind[d] = "summon"
      /\ Release(c) = "writing" => says[c] = "APPROVED" /\ Kind[d] = "write"
  BY KindAssumption DEF Release, Answers
<1>3. c \in Asked /\ ruled[d] # "unopened"
  BY <1>1 DEF AskedInTime
<1>4. says[c] # "none"
  BY DEF Answers
<1>5. \A e \in Calls : e # c /\ on[e] = d => pc[e] \notin Releasing
  BY <1>1 DEF ReleaseOK, Answers
<1>6. ReleaseOK'
  BY <1>1, <1>2, <1>3, <1>5 DEF ReleaseOK
<1>7. OneWinner'
  BY <1>1, <1>5 DEF OneWinner
<1>8. NotYetDone'
  <2>1. \A e \in Decisions :
           Kind[e] = "write" /\ resolution'[e] = "none" => effects'[ThingOf[e]] = 0
    BY <1>1, <1>4 DEF NotYetDone
  <2>2. pc'[c] \in {"writing", "unperformed"} => effects'[ThingOf[d]] = 0
    BY <1>1, <1>2 DEF NotYetDone
  <2> QED BY <1>1, <2>1, <2>2 DEF NotYetDone
<1>9. AskedInTime'
  BY <1>1, <1>2, <1>3 DEF AskedInTime
<1>10. AnsweredOpen'
  BY <1>1, <1>3 DEF AnsweredOpen
<1> QED BY <1>6, <1>7, <1>8, <1>9, <1>10

\* A call past the row stays the only one, moves on and does what is held at most once.
LEMMA ReleasingStep ==
    ASSUME SignInv, NEW c \in Calls,
           Notice(c) \/ InsertSummon(c) \/ PerformWrite(c) \/ RecordWrite(c) \/ CatchRecord(c)
           \/ Throw(c)
    PROVE  (ReleaseOK /\ OneWinner /\ NotYetDone /\ AskedInTime /\ AnsweredOpen)'
<1> USE DEF SignInv, TypeOK, InFlight, Checking, Releasing, Returned
<1> DEFINE d == on[c]
           T == ThingOf[d]
<1>1. /\ pc[c] \in InFlight
      /\ \E to \in {"done", "threw", "performed", "unperformed", "upstream"} :
            /\ pc' = [pc EXCEPT ![c] = to]
            /\ to \in {"performed", "unperformed", "upstream"} =>
                  pc[c] \in {"writing", "performed", "unperformed"}
            /\ to = "unperformed" => pc[c] = "writing" /\ effects' = effects
      /\ UNCHANGED <<mandate, expired, ruled, resolution, on, says, restarts>>
  BY DEF Notice, InsertSummon, PerformWrite, RecordWrite, CatchRecord, Throw, Goto, log
<1> DEFINE Does == /\ pc[c] \in {"summoning", "writing"}
                   /\ pc'[c] \in {"done", "performed"}
                   /\ \E n \in Nat : effects' = [effects EXCEPT ![T] = n]
<1>2. UNCHANGED effects \/ Does
  <2>1. ASSUME InsertSummon(c) PROVE UNCHANGED effects \/ Does
    BY <2>1 DEF InsertSummon, Goto
  <2>2. ASSUME PerformWrite(c) PROVE UNCHANGED effects \/ Does
    <3>1. T \in Things /\ effects[T] + 1 \in Nat
      BY ThingOfAssumption
    <3> QED BY <2>2, <3>1 DEF PerformWrite, Goto
  <2>3. ASSUME Notice(c) \/ RecordWrite(c) \/ CatchRecord(c) \/ Throw(c) PROVE UNCHANGED effects
    BY <2>3 DEF Notice, RecordWrite, CatchRecord, Throw, log
  <2> QED BY <2>1, <2>2, <2>3
<1>3. ReleaseOK'
  BY <1>1 DEF ReleaseOK
<1>4. OneWinner'
  BY <1>1 DEF OneWinner
<1>5. NotYetDone'
  <2>1. CASE UNCHANGED effects
    BY <1>1, <2>1 DEF NotYetDone
  <2>2. ASSUME pc[c] \in {"summoning", "writing"}, pc'[c] \in {"done", "performed"},
               NEW n \in Nat, effects' = [effects EXCEPT ![T] = n]
        PROVE  NotYetDone'
    <3>1. d \in Decisions /\ resolution[d] # "none"
      BY <2>2 DEF ReleaseOK, Answers
    <3>2. \A e \in Decisions :
             Kind[e] = "write" /\ resolution'[e] = "none" => effects'[ThingOf[e]] = 0
      BY <1>1, <2>2, <3>1, OwnThing DEF NotYetDone
    <3>3. ASSUME NEW e \in Calls, pc'[e] \in {"writing", "unperformed"}
          PROVE  effects'[ThingOf[on'[e]]] = 0
      <4>1. e # c /\ pc[e] = pc'[e] /\ on'[e] = on[e]
        BY <1>1, <2>2, <3>3
      <4>2. Kind[on[e]] = "write" /\ on[e] \in Decisions /\ effects[ThingOf[on[e]]] = 0
        BY <3>3, <4>1 DEF ReleaseOK, NotYetDone
      <4>3. on[e] # d
        BY <2>2, <3>3, <4>1 DEF OneWinner
      <4>4. ThingOf[on[e]] # T
        BY <3>1, <4>2, <4>3, OwnThing
      <4> QED BY <2>2, <4>1, <4>2, <4>4
    <3> QED BY <3>2, <3>3 DEF NotYetDone
  <2> QED BY <1>2, <2>1, <2>2
<1>6. AskedInTime'
  BY <1>1 DEF AskedInTime
<1>7. AnsweredOpen'
  BY <1>1 DEF AnsweredOpen
<1> QED BY <1>3, <1>4, <1>5, <1>6, <1>7

\* So it always holds.
LEMMA SignInvariant == Spec => []SignInv
<1>1. Init => ReleaseOK /\ OneWinner /\ NotYetDone /\ AskedInTime /\ AnsweredOpen
  BY ThingOfAssumption DEF Init, ReleaseOK, OneWinner, NotYetDone, AskedInTime, AnsweredOpen,
     InFlight, Checking, Releasing
<1>2. SignInv /\ TypeOK' /\ [Next]_vars => SignInv'
  <2> SUFFICES ASSUME SignInv, TypeOK', [Next]_vars
               PROVE  (ReleaseOK /\ OneWinner /\ NotYetDone /\ AskedInTime /\ AnsweredOpen)'
    BY DEF SignInv
  <2>1. ASSUME NEW d \in Decisions, Pause(d) PROVE
               (ReleaseOK /\ OneWinner /\ NotYetDone /\ AskedInTime /\ AnsweredOpen)'
    BY <2>1, MandatesAssumption DEF Pause, SignInv, TypeOK, ReleaseOK, OneWinner, NotYetDone,
       AskedInTime, AnsweredOpen, InFlight, Checking, Releasing
  <2>2. ASSUME NEW d \in Decisions, WindowPasses(d) PROVE
               (ReleaseOK /\ OneWinner /\ NotYetDone /\ AskedInTime /\ AnsweredOpen)'
    BY <2>2 DEF WindowPasses, log, SignInv, ReleaseOK, OneWinner, NotYetDone, AskedInTime,
       AnsweredOpen
  <2>3. CASE Restart
    BY <2>3 DEF Restart, log, SignInv, TypeOK, ReleaseOK, OneWinner, NotYetDone, AskedInTime,
       AnsweredOpen, InFlight, Checking, Releasing
  <2>4. CASE UNCHANGED vars
    BY <2>4 DEF vars, SignInv, ReleaseOK, OneWinner, NotYetDone, AskedInTime, AnsweredOpen
  <2> QED
    BY <2>1, <2>2, <2>3, <2>4, CheckingStep, AppendStep, ReleasingStep DEF Next, Step, Proceed
<1> QED BY <1>1, <1>2, TypeInvariant, PTL DEF Spec, SignInv

-----------------------------------------------------------------------------

\* Every step of a signing call is a step of the one-shot approval, or none.
LEMMA StepRefines ==
    SignInv /\ SignInv' /\ [Next]_vars
        => [Promise!Next]_<<[d \in Decisions |-> Answer(d)], effects>>
<1> SUFFICES ASSUME SignInv, SignInv', [Next]_vars
             PROVE  [Promise!Next]_<<[d \in Decisions |-> Answer(d)], effects>>
  OBVIOUS
<1> DEFINE bar == [d \in Decisions |-> Answer(d)]
           Same == UNCHANGED <<bar, effects>>
<1> USE DEF SignInv, TypeOK
<1>1. ASSUME NEW d \in Decisions, Pause(d) PROVE Promise!Pause(d)
  <2>1. Answer(d) = "none" /\ Answer(d)' = "pending"
    BY <1>1, MandatesAssumption DEF Pause, Answer, AnsweredOpen
  <2>2. \A e \in Decisions : e # d => Answer(e)' = Answer(e)
    BY <1>1 DEF Pause, Answer
  <2>3. bar' = [e \in Decisions |-> IF e = d THEN "pending" ELSE bar[e]]
    BY <2>1, <2>2
  <2> QED BY <1>1, <2>1, <2>3 DEF Pause, Promise!Pause
<1>2. ASSUME NEW c \in Calls, AppendResolved(c), NEW d \in Decisions, d = on[c]
      PROVE  Promise!Answer(d)
  <2>1. ruled[d] # "unopened" /\ says[c] \in Answers
    BY <1>2 DEF AppendResolved, Goto, AskedInTime, InFlight, Checking
  <2>2. Answer(d) = "pending" /\ Answer(d)' = says[c]
    BY <1>2, <2>1 DEF AppendResolved, Answer, Answers
  <2>3. \A e \in Decisions : e # d => Answer(e)' = Answer(e)
    BY <1>2, <2>1 DEF AppendResolved, Answer
  <2>4. bar' = [e \in Decisions |-> IF e = d THEN says[c] ELSE bar[e]]
    BY <2>2, <2>3
  <2>5. bar' = [bar EXCEPT ![d] = says[c]]
    BY <2>4
  <2> QED BY <1>2, <2>1, <2>2, <2>5 DEF AppendResolved, Promise!Answer, Answers
<1>3. ASSUME NEW c \in Calls, InsertSummon(c) \/ PerformWrite(c)
      PROVE  Same \/ Promise!Act(on[c])
  <2> DEFINE d == on[c]
             T == ThingOf[d]
  <2>1. /\ d \in Decisions /\ T \in Things /\ UNCHANGED bar
        /\ pc[c] \in {"summoning", "writing"}
    BY <1>3, ThingOfAssumption DEF InsertSummon, PerformWrite, Goto, Answer
  <2>2. Answer(d) = "APPROVED"
    BY <2>1 DEF ReleaseOK, Answer, Releasing
  <2>3. UNCHANGED effects \/ (effects[T] = 0 /\ effects' = [effects EXCEPT ![T] = 1])
    <3>1. CASE InsertSummon(c)
      BY <3>1 DEF InsertSummon
    <3>2. CASE PerformWrite(c)
      <4>1. effects[T] = 0
        BY <3>2 DEF PerformWrite, Goto, NotYetDone
      <4> QED BY <3>2, <4>1, <2>1 DEF PerformWrite
    <3> QED BY <1>3, <3>1, <3>2
  <2> QED BY <2>1, <2>2, <2>3 DEF Promise!Act
<1>4. ASSUME NEW c \in Calls,
             \/ BeginSign(c) \/ ReadResolution(c) \/ CheckStillValid(c) \/ LoseRace(c)
             \/ Notice(c) \/ RecordWrite(c) \/ CatchRecord(c) \/ Throw(c)
      PROVE  Same
  BY <1>4 DEF BeginSign, ReadResolution, CheckStillValid, LoseRace, Notice, RecordWrite,
     CatchRecord, Throw, log, Answer
<1>5. ASSUME NEW d \in Decisions, WindowPasses(d) PROVE Same
  BY <1>5 DEF WindowPasses, log, Answer
<1>6. CASE Restart
  BY <1>6 DEF Restart, log, Answer
<1>7. CASE UNCHANGED vars
  BY <1>7 DEF vars, Answer
<1>8. \A c \in Calls : on[c] \in Decisions
  OBVIOUS
<1> QED
  BY <1>1, <1>2, <1>3, <1>4, <1>5, <1>6, <1>7, <1>8 DEF Next, Step, Proceed, Promise!Next

\* The signing command, with racing calls, replays and restarts, implements a one-shot approval:
\* one answer that never changes, no effect without an approval, no held thing done twice.
THEOREM SigningIsOneShot == Spec => OneShot
<1>1. Init => Promise!Init
  BY DEF Init, Promise!Init, Answer
<1> QED BY <1>1, StepRefines, SignInvariant, PTL DEF Spec, OneShot, Promise!Spec

\* Every answer was given by someone who was asked, under the mandate of the ruling.
THEOREM AnsweredAsRuledHolds == Spec => AnsweredAsRuled
<1>1. ASSUME SignInv, [Next]_vars, NEW d \in Decisions, resolution'[d] # resolution[d]
      PROVE  /\ mandate = ruled[d]
             /\ \E c \in Asked : on[c] = d /\ pc[c] = "cleared" /\ says[c] = resolution'[d]
  <2> USE DEF SignInv, TypeOK
  <2>1. \/ \E c \in Calls : AppendResolved(c)
        \/ UNCHANGED resolution
    BY <1>1 DEF Next, Step, Proceed, vars, Pause, WindowPasses, BeginSign, ReadResolution,
       CheckStillValid, LoseRace, Notice, InsertSummon, PerformWrite, RecordWrite, CatchRecord,
       Throw, Restart, log
  <2>2. PICK c \in Calls : AppendResolved(c)
    BY <1>1, <2>1
  <2>3. /\ pc[c] = "cleared"
        /\ resolution' = [resolution EXCEPT ![on[c]] = says[c]]
    BY <2>2 DEF AppendResolved, Goto
  <2>4. on[c] = d /\ resolution'[d] = says[c]
    BY <1>1, <2>3
  <2>5. c \in Asked /\ mandate = ruled[d]
    BY <1>1, <2>3, <2>4 DEF AskedInTime, InFlight, Checking
  <2> QED BY <2>3, <2>4, <2>5
<1>2. SignInv /\ [Next]_vars
        => [\A d \in Decisions : resolution'[d] # resolution[d] =>
              /\ mandate = ruled[d]
              /\ \E c \in Asked : on[c] = d /\ pc[c] = "cleared" /\ says[c] = resolution'[d]]_vars
  BY <1>1
<1> QED BY <1>2, SignInvariant, PTL DEF Spec, AnsweredAsRuled

\* A releasing call leaves a trace in the room, stays at work or throws; nothing is taken back.
LEMMA ReleaseLeavesTrace ==
    ASSUME SignInv, NEW c \in Calls,
           Notice(c) \/ InsertSummon(c) \/ PerformWrite(c) \/ RecordWrite(c) \/ CatchRecord(c)
           \/ Throw(c)
    PROVE  /\ UNCHANGED <<resolution, on>>
           /\ \A e \in Calls : e # c => pc'[e] = pc[e]
           /\ \A d \in Decisions : Told(d) => Told(d)'
           /\ pc[c] \in Releasing => Told(on[c])' \/ pc'[c] \in Releasing \cup {"threw"}
<1> USE DEF SignInv, TypeOK, Releasing
<1>1. ThingOf[on[c]] \in Things /\ on[c] \in Decisions
  BY ThingOfAssumption
<1>2. \A d \in Decisions : ThingOf[d] \in Things
  BY ThingOfAssumption
<1>3. CASE Notice(c)
  <2>1. PICK o \in {"denied", "noexec"} : outcome' = [outcome EXCEPT ![on[c]] = @ \cup {o}]
    BY <1>3 DEF Notice, Record
  <2>2. pc' = [pc EXCEPT ![c] = "done"] /\ UNCHANGED <<resolution, effects, on>>
    BY <1>3 DEF Notice, Goto
  <2>3. \A d \in Decisions : outcome[d] \subseteq outcome'[d]
    BY <2>1
  <2>4. \A d \in Decisions : outcome[d] # {} => outcome'[d] # {}
    BY <2>3
  <2>5. \A d \in Decisions : Told(d) => Told(d)'
    BY <2>2, <2>4 DEF Told
  <2>6. outcome'[on[c]] # {}
    BY <1>1, <2>1
  <2>7. Told(on[c])'
    BY <2>2, <2>6 DEF Told
  <2> QED BY <2>2, <2>5, <2>7
<1>4. CASE InsertSummon(c)
  <2>1. pc[c] = "summoning" /\ pc' = [pc EXCEPT ![c] = "done"] /\ UNCHANGED <<resolution, on>>
    BY <1>4 DEF InsertSummon, Goto
  <2>2. \A d \in Decisions : Told(d) => Told(d)'
    BY <1>1, <1>2, <1>4 DEF InsertSummon, Record, Told
  <2>3. outcome'[on[c]] # {} \/ effects'[ThingOf[on[c]]] > 0
    <3>1. CASE effects' = [effects EXCEPT ![ThingOf[on[c]]] = 1]
      BY <1>1, <3>1
    <3>2. CASE UNCHANGED effects /\ effects[ThingOf[on[c]]] > 0
      BY <3>2
    <3>3. CASE Record(c, "noroute")
      BY <1>1, <3>3 DEF Record
    <3> QED BY <1>4, <3>1, <3>2, <3>3 DEF InsertSummon
  <2>4. Told(on[c])'
    BY <2>1, <2>3 DEF Told
  <2> QED BY <2>1, <2>2, <2>4
<1>5. CASE PerformWrite(c)
  <2>1. /\ pc' = [pc EXCEPT ![c] = "performed"] \/ pc' = [pc EXCEPT ![c] = "unperformed"]
           \/ pc' = [pc EXCEPT ![c] = "upstream"]
        /\ UNCHANGED <<resolution, on, outcome>>
    BY <1>5 DEF PerformWrite, Goto
  <2>2. \A x \in Things : effects[x] > 0 => effects'[x] > 0
    BY <1>1, <1>5 DEF PerformWrite
  <2>3. \A d \in Decisions : Told(d) => Told(d)'
    BY <1>2, <2>1, <2>2 DEF Told
  <2> QED BY <2>1, <2>3
<1>6. CASE RecordWrite(c)
  <2>1. /\ pc[c] \in Releasing /\ pc' = [pc EXCEPT ![c] = "done"]
        /\ UNCHANGED <<resolution, on, effects>>
    BY <1>6 DEF RecordWrite, Goto
  <2>2. PICK o \in {"ok", "failed"} : outcome' = [outcome EXCEPT ![on[c]] = @ \cup {o}]
    BY <1>6 DEF RecordWrite, Record
  <2>3. Told(on[c])' /\ \A d \in Decisions : Told(d) => Told(d)'
    BY <1>1, <2>1, <2>2 DEF Told
  <2> QED BY <2>1, <2>3
<1>7. CASE CatchRecord(c) \/ Throw(c)
  BY <1>7 DEF CatchRecord, Throw, Goto, Told, log
<1> QED BY <1>3, <1>4, <1>5, <1>6, <1>7

\* No answer is lost to a race: until the room can see what became of it, the call that wrote it
\* is still at work, or a database error or a restart ended it.
THEOREM ReleaseInHandHolds == Spec => []ReleaseInHand
<1>1. Init => ReleaseInHand
  BY DEF Init, ReleaseInHand
<1>2. ASSUME SignInv, ReleaseInHand, [Next]_vars PROVE ReleaseInHand'
  <2> USE DEF SignInv, TypeOK
  <2>1. ASSUME NEW c \in Calls, AppendResolved(c) PROVE ReleaseInHand'
    <3>1. Release(c) \in Releasing
      BY <1>2, KindAssumption DEF Release, Releasing, Answers
    <3>2. /\ pc[c] = "cleared" /\ pc' = [pc EXCEPT ![c] = Release(c)]
          /\ resolution' = [resolution EXCEPT ![on[c]] = says[c]]
          /\ UNCHANGED <<effects, outcome, on>>
      BY <2>1 DEF AppendResolved, Goto
    <3> QED BY <1>2, <3>1, <3>2 DEF ReleaseInHand, Told, Releasing
  <2>2. ASSUME NEW c \in Calls,
               BeginSign(c) \/ ReadResolution(c) \/ CheckStillValid(c) \/ LoseRace(c)
        PROVE  ReleaseInHand'
    BY <1>2, <2>2 DEF BeginSign, ReadResolution, CheckStillValid, LoseRace, Goto, log,
       ReleaseInHand, Told, Releasing
  <2>3. ASSUME NEW c \in Calls,
               \/ Notice(c) \/ InsertSummon(c) \/ PerformWrite(c) \/ RecordWrite(c)
               \/ CatchRecord(c) \/ Throw(c)
        PROVE  ReleaseInHand'
    <3>1. /\ UNCHANGED <<resolution, on>>
          /\ \A e \in Calls : e # c => pc'[e] = pc[e]
          /\ \A d \in Decisions : Told(d) => Told(d)'
          /\ pc[c] \in Releasing => Told(on[c])' \/ pc'[c] \in Releasing \cup {"threw"}
      BY <2>3, <1>2, ReleaseLeavesTrace
    <3>2. pc[c] \in InFlight
      BY <2>3 DEF Notice, InsertSummon, PerformWrite, RecordWrite, CatchRecord, Throw, Goto,
         InFlight, Releasing
    <3>3. pc[c] \notin {"threw", "killed"}
      BY <3>2 DEF InFlight, Checking, Releasing
    <3> QED BY <1>2, <3>1, <3>3 DEF ReleaseInHand
  <2>4. ASSUME NEW d \in Decisions, Pause(d) \/ WindowPasses(d) PROVE ReleaseInHand'
    BY <1>2, <2>4 DEF Pause, WindowPasses, log, ReleaseInHand, Told
  <2>5. CASE Restart
    BY <1>2, <2>5 DEF Restart, log, ReleaseInHand, Told, InFlight, Releasing
  <2>6. CASE UNCHANGED vars
    BY <1>2, <2>6 DEF vars, ReleaseInHand, Told
  <2> QED BY <1>2, <2>1, <2>2, <2>3, <2>4, <2>5, <2>6 DEF Next, Step, Proceed
<1> QED BY <1>1, <1>2, SignInvariant, PTL DEF Spec

-----------------------------------------------------------------------------
(* What the room's record of a release is worth. *)

\* A decision is recorded once, by the call that releases it; and what that call has done so far.
SaysOnce ==
    /\ \A d \in Decisions : resolution[d] = "none" =>
          outcome[d] = {} /\ (Kind[d] # "summon" => effects[ThingOf[d]] = 0)
    /\ \A c \in Calls : pc[c] \in Releasing => outcome[on[c]] = {}
    /\ \A c \in Calls : pc[c] \in {"denying", "noting"} /\ Kind[on[c]] # "summon" =>
       effects[ThingOf[on[c]]] = 0
    /\ \A c \in Calls : pc[c] = "performed" => effects[ThingOf[on[c]]] = 1

\* Decisions that are not of summons have things of their own.
LEMMA ThingsApart ==
    ASSUME NEW d \in Decisions, NEW e \in Decisions, Kind[d] # "summon", ThingOf[d] = ThingOf[e]
    PROVE  d = e
BY ThingOfAssumption

\* A step that records nothing and does nothing, and puts no call where it has to have done something.
LEMMA QuietStep ==
    ASSUME SignInv, SaysOnce, RecordsAreEarned, UNCHANGED <<resolution, effects, outcome, on>>,
           \A c \in Calls : pc'[c] \in Releasing => pc[c] \in Releasing /\
             (pc'[c] = pc[c] \/ pc'[c] \in {"unperformed", "upstream"})
    PROVE  SaysOnce' /\ RecordsAreEarned'
<1>1. RecordsAreEarned'
  BY DEF RecordsAreEarned
<1>2. \A c \in Calls : pc'[c] \in {"denying", "noting", "performed"} => pc'[c] = pc[c]
  BY DEF Releasing
<1>3. SaysOnce'
  BY <1>2 DEF SaysOnce
<1> QED BY <1>1, <1>3

\* The answer's row: nothing was recorded or done of its decision before.
LEMMA AnswerIsFirst ==
    ASSUME SignInv, SaysOnce, RecordsAreEarned, NEW c \in Calls, AppendResolved(c)
    PROVE  SaysOnce' /\ RecordsAreEarned'
<1> USE DEF SignInv, TypeOK
<1>1. /\ pc[c] = "cleared" /\ resolution[on[c]] = "none" /\ pc' = [pc EXCEPT ![c] = Release(c)]
      /\ resolution' = [resolution EXCEPT ![on[c]] = says[c]] /\ UNCHANGED <<effects, outcome, on>>
  BY DEF AppendResolved, Goto
<1>2. Release(c) \in Releasing \ {"performed"} /\ on[c] \in Decisions
  BY KindAssumption DEF Release, Releasing, Answers
<1>3. outcome[on[c]] = {} /\ (Kind[on[c]] # "summon" => effects[ThingOf[on[c]]] = 0)
  BY <1>1, <1>2 DEF SaysOnce
<1>4. says[c] # "none"
  BY DEF Answers
<1>5. RecordsAreEarned'
  BY <1>1 DEF RecordsAreEarned
<1>6. SaysOnce'
  BY <1>1, <1>2, <1>3, <1>4 DEF SaysOnce
<1> QED BY <1>5, <1>6

\* A row about a release: it is the first of its decision, and its writer ends.
LEMMA RowIsEarned ==
    ASSUME SignInv, SaysOnce, RecordsAreEarned, NEW c \in Calls, NEW o \in Outcomes,
           pc[c] \in Releasing,
           Record(c, o), pc' = [pc EXCEPT ![c] = "done"], UNCHANGED <<resolution, on>>,
           \A x \in Things : effects[x] = effects'[x] \/
             (x = ThingOf[on[c]] /\ Kind[on[c]] = "summon" /\ effects[x] = 0 /\ effects'[x] = 1),
           o \in {"ok", "summoned"} => effects'[ThingOf[on[c]]] = 1,
           o \in {"denied", "noexec"} /\ Kind[on[c]] # "summon" => effects'[ThingOf[on[c]]] = 0
    PROVE  SaysOnce' /\ RecordsAreEarned'
<1> USE DEF SignInv, TypeOK
<1>1. on[c] \in Decisions /\ outcome[on[c]] = {} /\ resolution[on[c]] # "none"
  BY DEF SaysOnce, ReleaseOK, Answers
<1>2. outcome'[on[c]] = {o} /\ \A d \in Decisions \ {on[c]} : outcome'[d] = outcome[d]
  BY <1>1 DEF Record
<1>3. \A d \in Decisions : ThingOf[d] \in Things /\
      (Kind[d] # "summon" => effects'[ThingOf[d]] = effects[ThingOf[d]])
  BY <1>1, ThingsApart, ThingOfAssumption
<1>4. \A d \in Decisions : effects[ThingOf[d]] = 1 => effects'[ThingOf[d]] = 1
  BY <1>3
<1>5. RecordsAreEarned'
  <2> SUFFICES ASSUME NEW d \in Decisions
               PROVE  /\ outcome'[d] \cap {"ok", "summoned"} # {} => effects'[ThingOf[d]] = 1
                      /\ outcome'[d] \cap {"denied", "noexec"} # {} /\ Kind[d] # "summon" =>
                         effects'[ThingOf[d]] = 0
                      /\ outcome'[d] \cap {"denied"} # {} => outcome'[d] = {"denied"}
    BY DEF RecordsAreEarned
  <2>1. CASE d = on[c]
    BY <1>2, <2>1
  <2>2. CASE d # on[c]
    BY <1>2, <1>3, <1>4, <2>2 DEF RecordsAreEarned
  <2> QED BY <2>1, <2>2
<1>6. SaysOnce'
  <2>1. \A e \in Calls : pc'[e] \in Releasing => e # c /\ pc'[e] = pc[e] /\
        on[e] \in Decisions \ {on[c]}
    BY <1>1 DEF OneWinner, Releasing
  <2>2. \A d \in Decisions : resolution'[d] = "none" => outcome'[d] = {} /\
        (Kind[d] # "summon" => effects'[ThingOf[d]] = 0)
    BY <1>1, <1>2, <1>3 DEF SaysOnce
  <2>3. \A e \in Calls : pc'[e] \in Releasing => outcome'[on[e]] = {}
    BY <1>2, <2>1 DEF SaysOnce
  <2>4. \A e \in Calls : /\ pc'[e] \in {"denying", "noting"} /\ Kind[on[e]] # "summon" =>
                            effects'[ThingOf[on[e]]] = 0
                         /\ pc'[e] = "performed" => effects'[ThingOf[on[e]]] = 1
    BY <1>3, <1>4, <2>1 DEF SaysOnce, Releasing
  <2> QED BY <2>2, <2>3, <2>4 DEF SaysOnce
<1> QED BY <1>5, <1>6

\* The backend performs what nobody performed before, and nothing is on record of it.
LEMMA PerformedOnce ==
    ASSUME SignInv, SaysOnce, RecordsAreEarned, NEW c \in Calls, PerformWrite(c)
    PROVE  SaysOnce' /\ RecordsAreEarned'
<1> USE DEF SignInv, TypeOK
<1>1. CASE UNCHANGED effects /\
      (pc' = [pc EXCEPT ![c] = "unperformed"] \/ pc' = [pc EXCEPT ![c] = "upstream"])
  <2>1. pc[c] = "writing" /\ UNCHANGED <<resolution, outcome, on>>
    BY DEF PerformWrite, Goto
  <2>2. \A e \in Calls : pc'[e] \in Releasing => pc[e] \in Releasing /\
        (pc'[e] = pc[e] \/ pc'[e] \in {"unperformed", "upstream"})
    BY <1>1, <2>1 DEF Releasing
  <2> QED BY <1>1, <2>1, <2>2, QuietStep
<1>2. CASE effects' = [effects EXCEPT ![ThingOf[on[c]]] = @ + 1] /\ pc' = [pc EXCEPT ![c] = "performed"]
  <2>1. pc[c] = "writing" /\ UNCHANGED <<resolution, outcome, on>> /\ pc[c] \in Releasing
    BY DEF PerformWrite, Goto, Releasing
  <2>2. /\ on[c] \in Decisions /\ outcome[on[c]] = {} /\ resolution[on[c]] # "none" /\
           Kind[on[c]] = "write"
        /\ ThingOf[on[c]] \in Things /\ effects[ThingOf[on[c]]] = 0
    BY <2>1, ThingOfAssumption DEF SaysOnce, ReleaseOK, NotYetDone, Answers
  <2>3. effects'[ThingOf[on[c]]] = 1
    BY <1>2, <2>2
  <2>4. \A d \in Decisions \ {on[c]} : ThingOf[d] \in Things /\ ThingOf[d] # ThingOf[on[c]]
    BY <2>2, ThingsApart, ThingOfAssumption
  <2>5. \A d \in Decisions \ {on[c]} : effects'[ThingOf[d]] = effects[ThingOf[d]]
    BY <1>2, <2>4
  <2>6. RecordsAreEarned'
    BY <2>1, <2>2, <2>5 DEF RecordsAreEarned
  <2>7. \A e \in Calls : pc'[e] \in Releasing /\ e # c => pc'[e] = pc[e] /\
        on[e] \in Decisions \ {on[c]}
    BY <1>2, <2>1 DEF OneWinner
  <2>8. \A d \in Decisions : resolution[d] = "none" => d # on[c]
    BY <2>2
  <2>9. \A e \in Calls : pc'[e] \in Releasing => outcome'[on[e]] = {}
    BY <2>1, <2>2, <2>7 DEF SaysOnce
  <2>10. \A d \in Decisions : resolution[d] = "none" => outcome[d] = {} /\
         (Kind[d] # "summon" => effects'[ThingOf[d]] = 0)
    BY <2>5, <2>8 DEF SaysOnce
  <2>11. pc'[c] = "performed"
    BY <1>2
  <2>12. \A e \in Calls : /\ pc'[e] \in {"denying", "noting"} /\ Kind[on[e]] # "summon" =>
                             effects'[ThingOf[on[e]]] = 0
                          /\ pc'[e] = "performed" => effects'[ThingOf[on[e]]] = 1
    BY <2>3, <2>5, <2>7, <2>11 DEF SaysOnce, Releasing
  <2> QED BY <2>1, <2>6, <2>9, <2>10, <2>12 DEF SaysOnce
<1> QED BY <1>1, <1>2 DEF PerformWrite, Goto

\* However many calls race and whatever fails, a row that says it was done has exactly one effect
\* behind it, a denial and a lack of executor have none, and a denied decision has no other row.
THEOREM RecordsAreEarnedHolds == Spec => []RecordsAreEarned
<1>1. Init => SaysOnce /\ RecordsAreEarned
  BY ThingOfAssumption DEF Init, SaysOnce, RecordsAreEarned, Releasing
<1>2. ASSUME SignInv, SaysOnce, RecordsAreEarned, [Next]_vars PROVE SaysOnce' /\ RecordsAreEarned'
  <2> USE <1>2
  <2> USE DEF SignInv, TypeOK
  <2>1. ASSUME NEW c \in Calls, AppendResolved(c) PROVE SaysOnce' /\ RecordsAreEarned'
    BY <2>1, AnswerIsFirst
  <2>2. ASSUME NEW c \in Calls, BeginSign(c) \/ ReadResolution(c) \/ CheckStillValid(c) \/
               LoseRace(c) \/ CatchRecord(c) \/ Throw(c)
        PROVE  SaysOnce' /\ RecordsAreEarned'
    <3>1. UNCHANGED <<resolution, effects, outcome, on>>
      BY <2>2 DEF BeginSign, ReadResolution, CheckStillValid, LoseRace, CatchRecord, Throw, log
    <3>2. \A e \in Calls : pc'[e] \in Releasing => pc[e] \in Releasing /\
          (pc'[e] = pc[e] \/ pc'[e] \in {"unperformed", "upstream"})
      BY <2>2 DEF BeginSign, ReadResolution, CheckStillValid, LoseRace, CatchRecord, Throw, Goto,
         Releasing
    <3> QED BY <3>1, <3>2, QuietStep
  <2>3. ASSUME NEW c \in Calls, Notice(c) PROVE SaysOnce' /\ RecordsAreEarned'
    <3>1. PICK o \in {"denied", "noexec"} : Record(c, o) /\ pc[c] \in {"denying", "noting"} /\
          pc' = [pc EXCEPT ![c] = "done"]
      BY <2>3 DEF Notice, Goto
    <3>2. UNCHANGED <<resolution, effects, on>>
      BY <2>3 DEF Notice
    <3>3. Kind[on[c]] # "summon" => effects'[ThingOf[on[c]]] = 0
      BY <3>1, <3>2 DEF SaysOnce
    <3>4. o \in Outcomes /\ o \notin {"ok", "summoned"} /\ pc[c] \in Releasing
      BY <3>1 DEF Releasing, Outcomes
    <3>5. \A x \in Things : effects'[x] = effects[x]
      BY <3>2
    <3> HIDE DEF SignInv, TypeOK
    <3> QED BY <3>1, <3>2, <3>3, <3>4, <3>5, RowIsEarned
  <2>4. ASSUME NEW c \in Calls, InsertSummon(c) PROVE SaysOnce' /\ RecordsAreEarned'
    <3>1. pc[c] = "summoning" /\ pc' = [pc EXCEPT ![c] = "done"] /\ UNCHANGED <<resolution, on>>
      BY <2>4 DEF InsertSummon, Goto
    <3>2. Kind[on[c]] = "summon" /\ ThingOf[on[c]] \in Things
      BY <3>1, ThingOfAssumption DEF ReleaseOK
    <3>3. CASE effects[ThingOf[on[c]]] = 0 /\ effects' = [effects EXCEPT ![ThingOf[on[c]]] = 1] /\
          Record(c, "summoned")
      BY <3>1, <3>2, <3>3, RowIsEarned DEF Releasing, Outcomes
    <3>4. CASE UNCHANGED <<effects, outcome>>
      BY <3>1, <3>4, QuietStep DEF Releasing
    <3>5. CASE Record(c, "noroute") /\ UNCHANGED effects
      BY <3>1, <3>2, <3>5, RowIsEarned DEF Releasing, Outcomes
    <3> QED BY <2>4, <3>3, <3>4, <3>5 DEF InsertSummon
  <2>5. ASSUME NEW c \in Calls, PerformWrite(c) PROVE SaysOnce' /\ RecordsAreEarned'
    BY <2>5, PerformedOnce
  <2>6. ASSUME NEW c \in Calls, RecordWrite(c) PROVE SaysOnce' /\ RecordsAreEarned'
    <3>1. PICK o \in {"ok", "failed"} : Record(c, o) /\ pc[c] \in Releasing /\
          (o = "ok" => pc[c] = "performed") /\ pc' = [pc EXCEPT ![c] = "done"]
      BY <2>6 DEF RecordWrite, Goto, Releasing
    <3>2. UNCHANGED <<resolution, effects, on>>
      BY <2>6 DEF RecordWrite
    <3>3. o = "ok" => effects'[ThingOf[on[c]]] = 1
      BY <3>1, <3>2 DEF SaysOnce
    <3> QED BY <3>1, <3>2, <3>3, RowIsEarned DEF Outcomes
  <2>7. ASSUME NEW d \in Decisions, Pause(d) \/ WindowPasses(d) PROVE SaysOnce' /\ RecordsAreEarned'
    BY <2>7, QuietStep DEF Pause, WindowPasses, log
  <2>8. CASE Restart
    BY <2>8, QuietStep DEF Restart, log, InFlight, Releasing
  <2>9. CASE UNCHANGED vars
    BY <2>9, QuietStep DEF vars
  <2> QED BY <2>1, <2>2, <2>3, <2>4, <2>5, <2>6, <2>7, <2>8, <2>9 DEF Next, Step, Proceed
<1> QED BY <1>1, <1>2, SignInvariant, PTL DEF Spec
=============================================================================
