---------------------------- MODULE MCTaskLedger ----------------------------
(* One task written by two replays of its summon, its turn and two handoffs. *)
EXTENDS TaskLedger, TLC

CONSTANTS s1, s2, turn, h1, h2, alice, bob

MCKind == (s1 :> "summon") @@ (s2 :> "summon") @@ (turn :> "turn")
          @@ (h1 :> "handoff") @@ (h2 :> "handoff")
MCHandover == (s1 :> "summon") @@ (turn :> "turn") @@ (h1 :> "handoff")
=============================================================================
