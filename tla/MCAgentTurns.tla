---------------------------- MODULE MCAgentTurns ----------------------------
(* A room with one busy member and one other, for TLC. *)
EXTENDS AgentTurns, TLC

CONSTANTS t1, t2, t3, t4, m1, m2

\* Three summons of one member (two can overlap only with a third) and one of another.
MCMemberOf == (t1 :> m1) @@ (t2 :> m1) @@ (t3 :> m1) @@ (t4 :> m2)
MCSameMember == (t1 :> m1) @@ (t2 :> m1) @@ (t3 :> m1)
=============================================================================
