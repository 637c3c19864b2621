-------------------------- MODULE MCStandingOrders --------------------------
\* Standing orders on the completed turns of one member, each summoning it.
EXTENDS StandingOrders

CONSTANTS a, c1, c2, c3

Wiring == [o \in Orders |-> a]
TwoTerms == {[cap |-> 1, dial |-> 2, expires |-> FALSE], [cap |-> 2, dial |-> 1, expires |-> TRUE]}
=============================================================================
