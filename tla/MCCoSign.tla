------------------------------ MODULE MCCoSign ------------------------------
(* A summon asked for twice under one cause, a write, and an action nobody can execute. *)
EXTENDS CoSign, TLC

CONSTANTS summonA, summonB, write, merge, turn, post, nothing, c1, c2, c3, c4, h1, h2

KindOf == (summonA :> "summon") @@ (summonB :> "summon") @@ (write :> "write") @@ (merge :> "none")
Held == (summonA :> turn) @@ (summonB :> turn) @@ (write :> post) @@ (merge :> nothing)

MCKind == [d \in Decisions |-> KindOf[d]]
MCThingOf == [d \in Decisions |-> Held[d]]

CallSymmetry == Permutations({c1, c2, c3}) \cup Permutations({h1, h2})
=============================================================================
