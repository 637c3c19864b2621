------------------------------- MODULE CoSign -------------------------------
(***************************************************************************)
(* The co-signature: a protected action is held on a decision event, a     *)
(* human answers it, and an approval releases what was held.  Modelled are *)
(* signDecisionCommand (commands/signDecision.ts), the executor fireWrite  *)
(* (commands/write.ts), the part of fireSummon that releases a held summon *)
(* and the derived status (decisions.ts), in one room.                     *)
(*                                                                         *)
(* Each action is the code between two awaits, so calls that sign the same *)
(* decision interleave, the clock moves between a check and the append it  *)
(* guards, and a restart, the only way a mandate can change, may fall      *)
(* between the answer and its effect.                                      *)
(*                                                                         *)
(* Abstracted: hashes and bodies (a write whose body does not match, a     *)
(* missing backend and a backend that says no are one outcome: nothing     *)
(* done); the tasks of a summon (TaskLedger) and its turn (AgentTurns).    *)
(***************************************************************************)
EXTENDS Naturals, FiniteSets

CONSTANTS
    Decisions,     \* the decision ids the room will see
    Kind,          \* [Decisions -> {"summon", "write", "none"}]: the pending action
    Things,        \* what is held: a summon's (cause, member), or the decision's own write
    ThingOf,       \* [Decisions -> Things]
    Calls,         \* the calls of signDecision
    Asked,         \* the calls made by a human member of the required principal
    Mandates,      \* the hashes the subject's mandate file can have
    Faulty,        \* the calls one of whose database writes may throw
    MaxRestarts    \* bound: restarts of the process

ASSUME KindAssumption == Kind \in [Decisions -> {"summon", "write", "none"}]
ASSUME ThingOfAssumption ==
    /\ ThingOf \in [Decisions -> Things]
    /\ \A d, e \in Decisions :
          ThingOf[d] = ThingOf[e] /\ d # e => Kind[d] = "summon" /\ Kind[e] = "summon"
ASSUME CallsAssumption == Asked \subseteq Calls /\ Faulty \subseteq Calls
ASSUME MandatesAssumption == "unopened" \notin Mandates
ASSUME BoundsAssumption == MaxRestarts \in Nat

VARIABLES
    mandate,      \* the hash the process has cached
    ruled,        \* decision -> the hash it was evaluated under; its event's payload
    expired,      \* the decisions whose window passed unanswered (isExpired)
    resolution,   \* decision -> the resolution of its decision.resolved row
    effects,      \* thing -> summon rows, or writes the backend performed
    outcome,      \* decision -> what its rows say of the release
    pc,           \* where each call is suspended
    on,           \* call -> the decision it signs
    says,         \* call -> the answer it carries
    restarts

vars == <<mandate, ruled, expired, resolution, effects, outcome, pc, on, says, restarts>>
log == <<ruled, resolution, effects, outcome>>

Answers == {"APPROVED", "DENIED"}
Outcomes == {"denied", "noexec", "summoned", "noroute", "ok", "failed"}

\* A call before its resolution row, and after it.
Checking == {"asking", "unresolved", "cleared"}
Releasing == {"denying", "summoning", "writing", "noting", "performed", "unperformed", "upstream"}
InFlight == Checking \cup Releasing
Returned == {"refused", "done", "threw", "killed"}

TypeOK ==
    /\ mandate \in Mandates
    /\ ruled \in [Decisions -> Mandates \cup {"unopened"}]
    /\ expired \subseteq Decisions
    /\ resolution \in [Decisions -> Answers \cup {"none"}]
    /\ effects \in [Things -> Nat]
    /\ outcome \in [Decisions -> SUBSET Outcomes]
    /\ pc \in [Calls -> InFlight \cup Returned \cup {"idle"}]
    /\ on \in [Calls -> Decisions]
    /\ says \in [Calls -> Answers]
    /\ restarts \in 0..MaxRestarts

Init ==
    /\ mandate \in Mandates
    /\ ruled = [d \in Decisions |-> "unopened"]
    /\ expired = {}
    /\ resolution = [d \in Decisions |-> "none"]
    /\ effects = [x \in Things |-> 0]
    /\ outcome = [d \in Decisions |-> {}]
    /\ pc = [c \in Calls |-> "idle"]
    /\ on \in [Calls -> Decisions]
    /\ says \in [Calls -> Answers]
    /\ restarts = 0

Goto(c, from, to) ==
    /\ pc[c] = from
    /\ pc' = [pc EXCEPT ![c] = to]

-----------------------------------------------------------------------------
(* The decision and its window. *)

\* writeCoSignDecision: the verdict's mandate hash goes on the decision event.
Pause(d) ==
    /\ ruled[d] = "unopened"
    /\ ruled' = [ruled EXCEPT ![d] = mandate]
    /\ UNCHANGED <<mandate, expired, resolution, effects, outcome, pc, on, says, restarts>>

\* The clock passes the decision's ts plus the expiry (a resolution wins over the clock).
WindowPasses(d) ==
    /\ ruled[d] # "unopened"
    /\ resolution[d] = "none"
    /\ d \notin expired
    /\ expired' = expired \cup {d}
    /\ UNCHANGED <<mandate, log, pc, on, says, restarts>>

-----------------------------------------------------------------------------
(* signDecisionCommand, steps 1 to 7. *)

\* Steps 1 to 3 read what never changes: the decision event, the member's kind and principal.
BeginSign(c) ==
    /\ ruled[on[c]] # "unopened"
    /\ Goto(c, "idle", IF c \in Asked THEN "asking" ELSE "refused")
    /\ UNCHANGED <<mandate, expired, log, on, says, restarts>>

\* Step 4: the database's answer, on which the call resumes later.
ReadResolution(c) ==
    /\ Goto(c, "asking", IF resolution[on[c]] = "none" THEN "unresolved" ELSE "refused")
    /\ UNCHANGED <<mandate, expired, log, on, says, restarts>>

\* Mutant: the mandate is not compared again.
CheckClockOnly(c) ==
    /\ Goto(c, "unresolved", IF on[c] \in expired THEN "refused" ELSE "cleared")
    /\ UNCHANGED <<mandate, expired, log, on, says, restarts>>

\* Steps 5 and 6, in one synchronous stretch: the window, and the mandate against the ruling.
CheckStillValid(c) ==
    /\ Goto(c, "unresolved",
            IF on[c] \in expired \/ mandate # ruled[on[c]] THEN "refused" ELSE "cleared")
    /\ UNCHANGED <<mandate, expired, log, on, says, restarts>>

\* Where step 8 goes.
Release(c) ==
    IF says[c] = "DENIED" THEN "denying"
    ELSE CASE Kind[on[c]] = "summon" -> "summoning"
           [] Kind[on[c]] = "write" -> "writing"
           [] Kind[on[c]] = "none" -> "noting"

\* Mutant: no unique index, every call past the early check records its answer.
AppendAlways(c) ==
    /\ Goto(c, "cleared", Release(c))
    /\ resolution' = [resolution EXCEPT ![on[c]] = says[c]]
    /\ UNCHANGED <<mandate, ruled, expired, effects, outcome, on, says, restarts>>

\* Step 7: the decision.resolved row (migration 020 lets one through).
AppendResolved(c) ==
    /\ resolution[on[c]] = "none"
    /\ Goto(c, "cleared", Release(c))
    /\ resolution' = [resolution EXCEPT ![on[c]] = says[c]]
    /\ UNCHANGED <<mandate, ruled, expired, effects, outcome, on, says, restarts>>

\* Step 7 when another call's row is there: 23505, answered as already resolved.
LoseRace(c) ==
    /\ resolution[on[c]] # "none"
    /\ Goto(c, "cleared", "refused")
    /\ UNCHANGED <<mandate, expired, log, on, says, restarts>>

-----------------------------------------------------------------------------
(* Step 8: the release. *)

Record(c, o) == outcome' = [outcome EXCEPT ![on[c]] = @ \cup {o}]

\* Mutant: a denial is not announced.
NoticeApprovalsOnly(c) ==
    /\ \/ Goto(c, "denying", "done") /\ UNCHANGED outcome
       \/ Goto(c, "noting", "done") /\ Record(c, "noexec")
    /\ UNCHANGED <<mandate, ruled, expired, resolution, effects, on, says, restarts>>

\* The notice that it was denied, or that nothing can execute it.
Notice(c) ==
    /\ \/ Goto(c, "denying", "done") /\ Record(c, "denied")
       \/ Goto(c, "noting", "done") /\ Record(c, "noexec")
    /\ UNCHANGED <<mandate, ruled, expired, resolution, effects, on, says, restarts>>

\* Mutant: a member without a route is skipped without a word.
InsertSummonSilently(c) ==
    /\ Goto(c, "summoning", "done")
    /\ \/ /\ effects[ThingOf[on[c]]] = 0
          /\ effects' = [effects EXCEPT ![ThingOf[on[c]]] = 1]
          /\ Record(c, "summoned")
       \/ UNCHANGED <<effects, outcome>>
    /\ UNCHANGED <<mandate, ruled, expired, resolution, on, says, restarts>>

\* fireSummon: the summon row; nothing when the cause already has one; a notice when the member
\* has no route.
InsertSummon(c) ==
    /\ Goto(c, "summoning", "done")
    /\ \/ /\ effects[ThingOf[on[c]]] = 0
          /\ effects' = [effects EXCEPT ![ThingOf[on[c]]] = 1]
          /\ Record(c, "summoned")
       \/ /\ effects[ThingOf[on[c]]] > 0
          /\ UNCHANGED <<effects, outcome>>
       \/ /\ Record(c, "noroute")
          /\ UNCHANGED effects
    /\ UNCHANGED <<mandate, ruled, expired, resolution, on, says, restarts>>

\* fireWrite up to its record: the backend performs, or nothing is done (a body that no longer
\* matches, no backend, a receipt that says no), or the backend throws, taken to have done nothing.
PerformWrite(c) ==
    /\ \/ /\ Goto(c, "writing", "performed")
          /\ effects' = [effects EXCEPT ![ThingOf[on[c]]] = @ + 1]
       \/ /\ Goto(c, "writing", "unperformed") \/ Goto(c, "writing", "upstream")
          /\ UNCHANGED effects
    /\ UNCHANGED <<mandate, ruled, expired, resolution, outcome, on, says, restarts>>

\* The record of a receipt throws inside the try block: the catch block records upstream_error.
CatchRecord(c) ==
    /\ c \in Faulty
    /\ \/ Goto(c, "performed", "upstream")
       \/ Goto(c, "unperformed", "upstream")
    /\ UNCHANGED <<mandate, expired, log, on, says, restarts>>

\* Mutant: a receipt that says no is recorded as a success.
RecordAlwaysOk(c) ==
    /\ \/ Goto(c, "performed", "done") /\ Record(c, "ok")
       \/ Goto(c, "unperformed", "done") /\ Record(c, "ok")
       \/ Goto(c, "upstream", "done") /\ Record(c, "failed")
    /\ UNCHANGED <<mandate, ruled, expired, resolution, effects, on, says, restarts>>

\* The write.performed row.
RecordWrite(c) ==
    /\ \/ Goto(c, "performed", "done") /\ Record(c, "ok")
       \/ Goto(c, "unperformed", "done") /\ Record(c, "failed")
       \/ Goto(c, "upstream", "done") /\ Record(c, "failed")
    /\ UNCHANGED <<mandate, ruled, expired, resolution, effects, on, says, restarts>>

-----------------------------------------------------------------------------
(* Failures. *)

\* A database call of the command throws (for a write not performed, outside the try block).
Throw(c) ==
    /\ c \in Faulty
    /\ pc[c] \in InFlight \ {"unresolved", "writing", "performed"}
    /\ pc' = [pc EXCEPT ![c] = "threw"]
    /\ UNCHANGED <<mandate, expired, log, on, says, restarts>>

\* Mutant: the mandate files are reloaded under the calls in flight.
Reload ==
    /\ restarts < MaxRestarts
    /\ restarts' = restarts + 1
    /\ mandate' \in Mandates
    /\ UNCHANGED <<expired, log, pc, on, says>>

\* The process ends with its calls and comes back with the mandate files of the day.
Restart ==
    /\ restarts < MaxRestarts
    /\ restarts' = restarts + 1
    /\ mandate' \in Mandates
    /\ pc' = [c \in Calls |-> IF pc[c] \in InFlight THEN "killed" ELSE pc[c]]
    /\ UNCHANGED <<expired, log, on, says>>

Proceed(c) ==
    \/ ReadResolution(c) \/ CheckStillValid(c) \/ AppendResolved(c) \/ LoseRace(c)
    \/ Notice(c) \/ InsertSummon(c) \/ PerformWrite(c) \/ RecordWrite(c)

Step(c) == BeginSign(c) \/ Proceed(c) \/ CatchRecord(c) \/ Throw(c)

Next ==
    \/ \E d \in Decisions : Pause(d) \/ WindowPasses(d)
    \/ \E c \in Calls : Step(c)
    \/ Restart

\* Every await of the command settles.
Fairness == \A c \in Calls : WF_vars(Proceed(c))

Spec == Init /\ [][Next]_vars
FairSpec == Spec /\ Fairness

-----------------------------------------------------------------------------
(* Properties. *)

Answer(d) ==
    IF ruled[d] = "unopened" THEN "none"
    ELSE IF resolution[d] = "none" THEN "pending" ELSE resolution[d]

Promise == INSTANCE OneShotApproval WITH answer <- [d \in Decisions |-> Answer(d)]

\* "The ONLY place a co-signed action is released, and it runs at most once because the
\* resolution above is single-use" (commands/signDecision.ts:185): with any number of racing
\* calls, replays of the cause and restarts, an answer is given once and never changed, an effect
\* follows an approval only, and each held thing is done at most once.
OneShot == Promise!Spec

\* The answer in the log was given by a human who was asked, and under the very mandate the
\* action was ruled on: no await between the check and the row lets another mandate in.
AnsweredAsRuled ==
    [][\A d \in Decisions : resolution'[d] # resolution[d] =>
          /\ mandate = ruled[d]
          /\ \E c \in Asked : on[c] = d /\ pc[c] = "cleared" /\ says[c] = resolution'[d]]_vars

\* The room was told what became of the answer, or can see the effect.
Told(d) == outcome[d] # {} \/ effects[ThingOf[d]] > 0

\* An answer whose release the room cannot see is still in the hands of a call, or a database
\* error or a restart took that call: nothing is lost to a race.
ReleaseInHand ==
    \A d \in Decisions : resolution[d] # "none" /\ ~Told(d) =>
        \E c \in Calls :
            /\ on[c] = d
            /\ pc[c] \in Releasing \cup {"threw", "killed"}

\* The room's record of a release is never better than the truth: a row that says it was done
\* has the effect behind it, and a denial or a lack of executor has none.
RecordsAreEarned ==
    \A d \in Decisions :
        /\ outcome[d] \cap {"ok", "summoned"} # {} => effects[ThingOf[d]] = 1
        /\ outcome[d] \cap {"denied", "noexec"} # {} /\ Kind[d] # "summon"
              => effects[ThingOf[d]] = 0
        /\ outcome[d] \cap {"denied"} # {} => outcome[d] = {"denied"}

\* Without faults and restarts, every answer is acted on.
AnswersSettle == \A d \in Decisions : resolution[d] # "none" ~> Told(d)

AtRest == \A c \in Calls : pc[c] \notin InFlight

\* "A protected action pauses for a named human signature and releases exactly once"
\* (README.md:112).
ReleasesExactlyOnce ==
    AtRest => \A d \in Decisions : resolution[d] = "APPROVED" => Told(d)

\* "An unresolved-but-EXPIRED one will never resolve" (server.ts:1012).
ExpiredNeverResolves ==
    [][\A d \in expired : resolution[d] = "none" => resolution'[d] = "none"]_vars

\* "A write.performed event records the OUTCOME of firing a co-signed, APPROVED write"
\* (events.ts:578): a failed outcome means the write did not happen.
FailedMeansNotDone ==
    \A d \in Decisions : "failed" \in outcome[d] => effects[ThingOf[d]] = 0
=============================================================================
