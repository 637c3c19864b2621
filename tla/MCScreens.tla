------------------------------ MODULE MCScreens ------------------------------
\* Joe and Jan, two humans of one principal, their agent, and Amy, who is somebody else.
EXTENDS Screens, TLC

CONSTANTS joe, jan, amy, sol, ours, theirs, nobody, card, block, chip, reply, job, routine, said, route, brief

Sides == (joe :> ours) @@ (jan :> ours) @@ (sol :> ours) @@ (amy :> theirs)
Signs == (card :> ours) @@ (block :> nobody)
ToldTo == (chip :> joe)
Made == (routine :> joe)
Watched == ({card} :> {joe, jan}) @@ ({card, block} :> {sol}) @@ ({chip, block} :> {joe}) @@ ({chip, said} :> {jan})
           @@ ({reply, said} :> {sol}) @@ ({reply, job} :> {sol}) @@ ({routine, route} :> {sol})
StoriesOf == DOMAIN Watched
Run == [s \in StoriesOf |-> IF routine \in s THEN {joe, amy} ELSE {}]
=============================================================================
