------------------------------ MODULE MCPeople -------------------------------
(***************************************************************************)
(* The components between the system and the people and machines outside   *)
(* it, checked side by side: the orders that stand for them, what          *)
(* interrupts them, what is pushed to them, what they log in with, how     *)
(* their nodes hold a lease, how they get a seat and what their browser    *)
(* does with it. `focus` says which component moves in a behaviour; the    *)
(* others keep their first state. They share no state while they run: an   *)
(* order raises its interrupts when it has stopped, a push starts when a   *)
(* claim is recorded, both return nothing, and a credential is revoked in  *)
(* each component as it is in the table.                                   *)
(***************************************************************************)
EXTENDS StandingOrders, Interrupts, PushSends, OAuthGrants, Leases, Seats, Browser, TLC

CONSTANTS c1, c2, c3, d1, bot, x, y, n1, n2, p1, p2, g1, g2, t1, t2, t3, k1,
          l1, o1, o2, q1, q2, m1, m2, r1, r2, r3, h1, h2, guest,
          amy, e1, e2, u1, u2, s1, prince

\* Two orders on the completed turns of one member, both summoning it.
Wiring == [o \in Orders |-> amy]
TwoTerms == {[cap |-> 1, dial |-> 2, expires |-> FALSE], [cap |-> 2, dial |-> 1, expires |-> TRUE]}

\* Two interrupts about one thing that blocks, and one to decide.
RaisedBy == [k \in Abouts |-> bot]
Subject == c1 :> x @@ c2 :> x @@ c3 :> y
Urgency == [c \in Calls |-> IF Subject[c] = x THEN "BLOCKER" ELSE "DECISION"]

Whose == [n \in Notices |-> p1]

\* One host operation is only allowed with a passing check, the other as it is.
Asks == [o \in HostOps |-> IF o = o1 THEN "proof" ELSE "nothing"]

\* Two codes for one seat; two people present the first.
ForSeat == [m \in Mints |-> guest]
Presents == r1 :> m1 @@ r2 :> m1 @@ r3 :> m2

\* Of calls that nothing but their names tells apart, the first goes first.
After(call, a, b) == call[b].pc # "none" => call[a].pc # "none"
InTurn == /\ After(ctl, e1, e2) /\ After(raise, c1, c2) /\ After(push, n1, n2)
          /\ After(tokenCall, t1, t2) /\ After(tokenCall, t2, t3)

\* Two commands race over two orders, or beside a fault over one; two turns of people start two
\* cycles of one order with neither.
TwoAsked == Cardinality({t \in Turns : turn[t].pc # "none" /\ turn[t].order = NoOrder}) > 1
NotAllAtOnce ==
    /\ faults > 0 => ctl[e2].pc = "none" \/ hist[2] = <<>>
    /\ TwoAsked => faults = 0 /\ ctl[e1].pc = "none"

VARIABLE focus

peopleVars == <<focus, orderVars, intVars, pushVars, oauthVars, leaseVars, seatVars, browserVars>>

Init ==
    /\ OrderInit /\ IntInit /\ PushInit /\ OAuthInit /\ LeaseInit /\ SeatInit /\ BrowserInit
    /\ focus \in {"loops", "interrupts", "push", "oauth", "leases", "seats", "browser"}
    /\ focus # "browser" => deployment = NoToken

Next ==
    /\ UNCHANGED focus
    /\ \/ focus = "loops" /\ OrderNext /\ UNCHANGED <<intVars, pushVars, oauthVars, leaseVars, seatVars, browserVars>>
       \/ focus = "interrupts" /\ IntNext /\ UNCHANGED <<orderVars, pushVars, oauthVars, leaseVars, seatVars, browserVars>>
       \/ focus = "push" /\ PushNext /\ UNCHANGED <<orderVars, intVars, oauthVars, leaseVars, seatVars, browserVars>>
       \/ focus = "oauth" /\ OAuthNext /\ UNCHANGED <<orderVars, intVars, pushVars, leaseVars, seatVars, browserVars>>
       \/ focus = "leases" /\ LeaseNext /\ UNCHANGED <<orderVars, intVars, pushVars, oauthVars, seatVars, browserVars>>
       \/ focus = "seats" /\ SeatNext /\ UNCHANGED <<orderVars, intVars, pushVars, oauthVars, leaseVars, browserVars>>
       \/ focus = "browser" /\ BrowserNext /\ UNCHANGED <<orderVars, intVars, pushVars, oauthVars, leaseVars, seatVars>>
    /\ InTurn' /\ NotAllAtOnce'

\* What ends an order, a lease, a token or the credential behind them ends what they allowed, for good.
WhatEndsStaysEnded == SettledIsOver /\ OverIsForGood /\ AccessEnds

\* A person's phones are told what the record says, and their browser shows what it is set to.
DevicesHold == SendsAreTrue /\ BrowserHolds

TypeOK == OrderTypeOK /\ IntTypeOK /\ PushTypeOK /\ OAuthTypeOK /\ LeaseTypeOK /\ SeatTypeOK /\ BrowserTypeOK

Spec == Init /\ [][Next]_peopleVars
=============================================================================
