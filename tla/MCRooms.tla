------------------------------- MODULE MCRooms -------------------------------
(***************************************************************************)
(* Inside a room, checked side by side: what is said in it and the summons *)
(* that sets off, the papers pinned to it, its running summary and the     *)
(* audit chain over its commitments. `focus` says which component moves in *)
(* a behaviour; the others keep their first state. The messages of the     *)
(* summary and the commitments of the chain are events that appear at any  *)
(* time, so nothing the posts do is missing from them.                     *)
(***************************************************************************)
EXTENDS Posting, RoomPapers, RoomSummary, AuditChain, TLC

CONSTANTS u1, u2, v1, v2, b1, b2, k1, f1, f2, f3, a1, a2,
          d1, d2, d3, d4, i1, i2, i3, ann, joe, bot, sol, who

\* The room has space for one document, and two calls take the first one back.
Size == [u \in Uploads |-> 1]
TakenBack == [v \in Removals |-> u1]

\* The first process folds again while, or after, the other one folds.
Process2 == f1 :> 1 @@ f2 :> 2 @@ f3 :> 1

\* A call of the door and its retry, and an agent's call of the MCP tool.
Caller == d1 :> joe @@ d2 :> joe @@ d3 :> bot @@ d4 :> ann
CallId == d1 :> i1 @@ d2 :> i1 @@ d3 :> i2 @@ d4 :> i3
NamesIn == 1 :> {bot} @@ 2 :> {sol} @@ 3 :> {who} @@ d1 :> {sol, bot, who} @@ d2 :> {sol, bot, who}
           @@ d3 :> {sol} @@ d4 :> {bot}

\* Beside the agent's call, either the page posts, a third time only while it has the connection
\* it began with; or, the page being offline, the door is called and called again, or twice.
Silent(P) == \A p \in P : post'[p].pc = "none"
Page == Silent({d1, d2, d4}) /\ (Silent({3}) \/ page'.conn <= 1)
Door == page'.box = Nil /\ page'.conn = 0 /\ (Silent({d2}) \/ Silent({d4}))

VARIABLE focus

roomVars == <<focus, postVars, paperVars, summaryVars, auditVars>>

Init ==
    /\ PostInit /\ PapersInit /\ SummaryInit /\ AuditInit
    /\ focus \in {"page", "door", "papers", "summary", "audit"}

Next ==
    /\ UNCHANGED focus
    /\ \/ focus = "page" /\ PostNext /\ Page /\ UNCHANGED <<paperVars, summaryVars, auditVars>>
       \/ focus = "door" /\ PostNext /\ Door /\ UNCHANGED <<paperVars, summaryVars, auditVars>>
       \/ focus = "papers" /\ PapersNext /\ UNCHANGED <<postVars, summaryVars, auditVars>>
       \/ focus = "summary" /\ SummaryNext /\ UNCHANGED <<postVars, paperVars, auditVars>>
       \/ focus = "audit" /\ AuditNext /\ UNCHANGED <<postVars, paperVars, summaryVars>>

TypeOK == PostTypeOK /\ PapersTypeOK /\ SummaryTypeOK /\ AuditTypeOK

Spec == Init /\ [][Next]_roomVars
=============================================================================
