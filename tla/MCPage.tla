------------------------------- MODULE MCPage --------------------------------
(***************************************************************************)
(* From the log to what is seen: the delivery of numbers, and what a page  *)
(* makes of the events it holds in any order. `focus` says which of the    *)
(* two moves; behaviours of the screens are not fair, so liveness is about *)
(* delivery alone.                                                         *)
(***************************************************************************)
EXTENDS MCEventDelivery, MCScreens

VARIABLE focus

pageVars == <<focus, vars, screenVars>>

PageInit ==
    /\ Init /\ ScreensInit
    /\ focus \in {"delivery", "screens"}
    /\ focus = "delivery" => story = CHOOSE s \in Stories : Cardinality(WatchedBy[s]) = 1

PageNext ==
    /\ UNCHANGED focus
    /\ \/ focus = "delivery" /\ Next /\ UNCHANGED screenVars
       \/ focus = "screens" /\ ScreensNext /\ UNCHANGED vars

PageSpec == PageInit /\ [][PageNext]_pageVars /\ Fairness
=============================================================================
