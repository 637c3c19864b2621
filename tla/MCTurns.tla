------------------------------- MODULE MCTurns -------------------------------
(***************************************************************************)
(* The two things a room waits for, side by side: a turn that has the slot *)
(* of its member, and the answer to a decision.  `focus` says which of the *)
(* two moves, and only that one is fair.                                   *)
(***************************************************************************)
EXTENDS MCAgentTurns

CONSTANTS write, merge, post, nothing, c1, c2, c3, h1

Decisions == {write, merge}
Calls == {c1, c2, c3}

VARIABLES focus, mandate, ruled, expired, resolution, effects, outcome, at, on, says, reboots

coVars == <<mandate, ruled, expired, resolution, effects, outcome, at, on, says, reboots>>

\* No fault and no restart; one caller was not asked.
Co == INSTANCE CoSign WITH
    Kind <- (write :> "write") @@ (merge :> "none"),
    Things <- {post, nothing},
    ThingOf <- (write :> post) @@ (merge :> nothing),
    Asked <- {c1, c2},
    Faulty <- {},
    Mandates <- {h1},
    MaxRestarts <- 0,
    pc <- at,
    restarts <- reboots

TurnsInit ==
    /\ Init /\ Co!Init
    /\ focus \in {"turns", "answers"}
    /\ focus = "turns" => on = [c \in Calls |-> write] /\ says = [c \in Calls |-> "DENIED"]

TurnsNext ==
    /\ UNCHANGED focus
    /\ \/ focus = "turns" /\ Next /\ UNCHANGED coVars
       \/ focus = "answers" /\ Co!Next /\ UNCHANGED vars

TurnsSpec ==
    /\ TurnsInit /\ [][TurnsNext]_<<focus, vars, coVars>>
    /\ \A t \in Turns : WF_vars(focus = "turns" /\ Proceed(t))
    /\ \A c \in Calls : WF_coVars(focus = "answers" /\ Co!Proceed(c))

\* Without faults and restarts, every answer is acted on or announced (CoSign).
AnswersSettle == Co!AnswersSettle
=============================================================================
