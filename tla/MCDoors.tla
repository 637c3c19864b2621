------------------------------- MODULE MCDoors -------------------------------
(***************************************************************************)
(* What comes in at the doors of the api and what it meets, checked side   *)
(* by side: the doors themselves, the mandate gate, the actions that are   *)
(* proposed, the summons that one turn makes of another, and the window a  *)
(* turn is shown. `focus` says which moves in a behaviour; the others keep *)
(* their first state. They share no state while they run: a door hands its *)
(* request to one command, the verdict a proposal or a summon gets is a    *)
(* function of what the gate is given, and a turn has its window before it *)
(* emits anything.                                                         *)
(***************************************************************************)
EXTENDS ExecutionGate, SummonChains, Proposals, ContextAssembly, Gateway, TLC

CONSTANTS rA, rB, merge, push, run, agent, other, tests,
          bot, sol, joe, amy, who, noName, loop, nobody, noLoop,
          node, e1, e2, h1, h2,
          w1, w2, promote, presume, pJoe, pAmy, noPrincipal, c1,
          kJoe, kBot, m1, s1, s2, s3,
          order, pushing, ticket, anything, act1, act2, redeem,
          tJoe, tToo, lBot, tool1, tool2, hostOp, here, there

\* The gate: two abstract actions, a push and a command, two resources, one fact.
MCGlobs == {{rA}, {rA, rB}}

\* Two bots that may summon each other, one with a signature, and a loop between them.
NameOf == bot :> bot @@ sol :> sol @@ who :> nobody
MaySummonWith == bot :> "ALLOW" @@ sol :> "CO_SIGN"
FiresOn == loop :> bot
ThenSummons == loop :> sol
MadeBy == loop :> joe

\* A node asks for amy what a record entitles joe to; the reply bot has two mentions; a turn emits.
ForWhom == [a \in Asks |-> IF a = node THEN amy ELSE joe]
ByWhom == [a \in Asks |-> joe]
MaySay == 1 :> {"CO_SIGN"} @@ 2 :> {"ALLOW"} @@ node :> {"CO_SIGN", "BLOCK"}
            @@ e1 :> {"BLOCK"} @@ e2 :> {"ALLOW", "CO_SIGN"}
Emits == {<<"good", "bad", "good">>, <<"bad", "good">>}
EmittedIds == <<e1, e2>>

\* Two members of two principals, one fired by an order; an item of each in the store.
Whose == w1 :> pJoe @@ w2 :> pAmy @@ promote :> pJoe @@ presume :> pAmy
Promoted == [u \in {promote, presume} |-> 1]
Notes == {<<[of |-> pJoe, short |-> TRUE], [of |-> pAmy, short |-> TRUE]>>,
          <<[of |-> pAmy, short |-> TRUE], [of |-> pJoe, short |-> FALSE]>>}

\* A human and an agent with a credential each; two OAuth tokens of the human, a lease of the agent.
Holder == kJoe :> joe @@ kBot :> bot @@ tJoe :> joe @@ tToo :> joe @@ lBot :> bot
Tokens == {tJoe, tToo, lBot}
Kinds == [c \in Creds |-> IF c \in {tJoe, tToo} THEN "oauth" ELSE IF c = lBot THEN "lease" ELSE "static"]
Doors == order :> {"orderCreate"} @@ pushing :> {"subscribe"} @@ ticket :> {"ticket"}
           @@ anything :> DOMAIN Checks @@ act1 :> {"action"} @@ act2 :> {"action", "mcpRequest"}
           @@ redeem :> {"redeem", "consent", "register"}
           @@ tool1 :> {"mcpRooms", "roster"} @@ tool2 :> {"mcpTags"} @@ hostOp :> {"nodeOp", "checkReport", "heartbeat"}
Shows == [r \in HttpCalls |-> CASE r \in {pushing, redeem} -> kBot [] r = tool1 -> tJoe [] r = tool2 -> tToo
                                [] r = hostOp -> lBot [] OTHER -> kJoe]
From == [r \in HttpCalls |-> IF r = redeem THEN there ELSE here]
Opens == [s \in Sockets |-> ticket]
Sent == [s \in Sockets |-> IF s = s1 THEN {<<"none", f>> : f \in DOMAIN Outcomes} ELSE {<<"send">>}]

\* The requests of one behaviour: of the doors, of the throttles, of the sockets.
Served == [doors |-> {order, pushing, ticket}, anyDoor |-> {anything, order},
          throttles |-> {act1, act2, redeem}, tokens |-> {tool1, tool2, hostOp}, sockets |-> {ticket}, strays |-> {ticket}]

\* The sockets of one behaviour, and who reads at once.
Opened == [sockets |-> {s1, s2}, strays |-> {s1, s3}]
Reading == [windows |-> {w1, w2}, promotions |-> {w2, promote, presume}]

\* Each names what there is.
ASSUME FocusAssumption ==
    /\ \A f \in DOMAIN Reading : Reading[f] \subseteq Users
    /\ \A f \in DOMAIN Served : Served[f] \subseteq HttpCalls
    /\ \A f \in DOMAIN Opened : Opened[f] \subseteq Sockets
    /\ Tokens \subseteq Creds

\* A mandate that is not in force whatever it grants is given one host grant at most.
Edited == \/ mandate.loaded /\ mandate.sig_valid
          \/ Cardinality(mandate'.host_scope) + Cardinality(mandate'.host_protected) <= 1

\* A fault strikes where one name is emitted, two are emitted where none strikes.
FewEmitted == breaks' > 0 => Cardinality(asked') <= 1

\* Nothing but their names tells the signers apart: the first to join is h1.
InTurn == h2 \in present => h1 \in present

VARIABLE focus

askAll == <<vars, chainVars, windowVars, doorVars>>
doorsVars == <<focus, askVars, askAll>>

DoorsInit ==
    /\ Init /\ ChainInit /\ AskInit /\ WindowInit /\ DoorInit
    /\ focus \in {"gate", "chains", "nodes", "bot", "emissions"} \cup DOMAIN Served \cup DOMAIN Reading
    /\ focus # "gate" => ~mandate.loaded /\ ~mandate.sig_valid /\ ~mandate.roster_only
                          /\ mandate.member = agent /\ mandate.scope \cup mandate.protected_actions = {}
    /\ InTurn
    /\ focus \notin {"nodes", "bot", "emissions"} => present = {}
    /\ focus \notin DOMAIN Reading => items[1].of = pJoe
    /\ focus \notin {"doors", "anyDoor"} => creds = Creds /\ admitted = {joe}
    /\ focus \in {"doors", "anyDoor"} => Tokens \subseteq creds

DoorsNext ==
    /\ UNCHANGED focus
    /\ \/ focus = "gate" /\ Next /\ Edited /\ UNCHANGED <<chainVars, askVars, windowVars, doorVars>>
       \/ focus = "chains" /\ ChainNext /\ FewEmitted /\ UNCHANGED <<vars, askVars, windowVars, doorVars>>
       \/ focus = "nodes" /\ (OwnNext \/ AskedNext) /\ InTurn' /\ UNCHANGED askAll
       \/ focus = "bot" /\ (BotNext \/ AskedNext) /\ InTurn' /\ UNCHANGED askAll
       \/ focus = "emissions" /\ (TurnNext \/ AskedNext) /\ InTurn' /\ UNCHANGED askAll
       \/ /\ focus \in DOMAIN Reading
          /\ RoomStep \/ \E u \in Reading[focus] : ReaderStep(u)
          /\ UNCHANGED <<vars, chainVars, askVars, doorVars>>
       \/ /\ focus \in DOMAIN Served
          /\ \/ \E r \in Served[focus] : CallNext(r)
             \/ focus \in {"doors", "anyDoor"} /\ PeopleNext /\ Tokens \subseteq creds'
             \/ focus = "tokens" /\ \E c \in Tokens : CredentialEnds(c)
             \/ focus \in {"throttles", "tokens"} /\ Ticks
             \/ focus \in DOMAIN Opened /\ \E s \in Opened[focus] : SocketStep(s)
          /\ UNCHANGED <<vars, chainVars, askVars, windowVars>>

DoorsSpec == DoorsInit /\ [][DoorsNext]_doorsVars

DoorsTypeOK == ChainTypeOK /\ AskTypeOK /\ WindowTypeOK /\ DoorTypeOK
=============================================================================
