-------------------------- MODULE OneShotApproval --------------------------
(***************************************************************************)
(* What a co-signature promises, whatever the number of people, clicks,    *)
(* sockets and crashes behind it: a protected action waits; it is answered *)
(* once; only an approval lets its effect happen, and the effect happens   *)
(* at most once for each thing that was asked for.                         *)
(***************************************************************************)
EXTENDS Naturals

CONSTANTS
    Decisions,   \* the paused actions
    Things,      \* what they would do: two decisions may hold the same thing
    ThingOf      \* [Decisions -> Things]

VARIABLES
    answer,      \* decision -> "none", "pending", "APPROVED" or "DENIED"
    effects      \* thing -> how often it was done

Init ==
    /\ answer = [d \in Decisions |-> "none"]
    /\ effects = [x \in Things |-> 0]

\* The room asks for a signature.
Pause(d) ==
    /\ answer[d] = "none"
    /\ answer' = [answer EXCEPT ![d] = "pending"]
    /\ UNCHANGED effects

\* A person answers.
Answer(d) ==
    /\ answer[d] = "pending"
    /\ \E r \in {"APPROVED", "DENIED"} : answer' = [answer EXCEPT ![d] = r]
    /\ UNCHANGED effects

\* The effect, on the strength of an approval.
Act(d) ==
    /\ answer[d] = "APPROVED"
    /\ effects[ThingOf[d]] = 0
    /\ effects' = [effects EXCEPT ![ThingOf[d]] = 1]
    /\ UNCHANGED answer

Next == \E d \in Decisions : Pause(d) \/ Answer(d) \/ Act(d)

Spec == Init /\ [][Next]_<<answer, effects>>
=============================================================================
