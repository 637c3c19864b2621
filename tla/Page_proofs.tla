----------------------------- MODULE Page_proofs -----------------------------
(***************************************************************************)
(* Proofs about a page of a room for every value of the constants: what an *)
(* open socket owes it, what its cursor passes and its meter's baseline    *)
(* covers (EventDelivery), and what it makes of the events it holds and    *)
(* lets its viewer press (Screens).  The last part carries both over to    *)
(* the instance that the runs check.                                       *)
(***************************************************************************)
EXTENDS MCPage, TLAPS, WellFoundedInduction, SequenceTheorems, FiniteSetTheorems

\* The events carried by a sequence of frames: OnWire is Load(wire).
Load(w) == UNION {w[i].seqs : i \in DOMAIN w}

-----------------------------------------------------------------------------
(* Lemmas on the least and greatest of a set of rows and on frames. *)

\* A set of numbers has a least one.
LEMMA LeastNumber ==
    ASSUME NEW S \in SUBSET Nat, S # {}
    PROVE  \E m \in S : \A k \in S : m <= k
<1>1. PICK m \in S : \A k \in S : <<k, m>> \notin OpToRel(<, Nat)
  BY WFMin, NatLessThanWellFounded, Zenon
<1>2. \A k \in S : ~(k < m)
  <2> SUFFICES ASSUME NEW k \in S PROVE ~(k < m)
    OBVIOUS
  <2>1. <<k, m>> \in Nat \X Nat
    BY Zenon
  <2> QED BY <1>1, <2>1, Zenon DEF OpToRel
<1>3. \A k \in S : m <= k
  BY <1>2
<1> QED BY <1>3

\* The head of a set of rows, as they are sent.
LEMMA LowestIsLeast ==
    ASSUME NEW S \in SUBSET Events, S # {}
    PROVE  Lowest(S) \in S /\ \A d \in S : Lowest(S) <= d
<1>1. S \in SUBSET Nat
  BY BoundsAssumption DEF Events
<1>2. \E e \in S : \A d \in S : e <= d
  BY <1>1, LeastNumber
<1> QED BY <1>2 DEF Lowest

\* The cursor after a window, and the number of a hello.
LEMMA NewestIsGreatest ==
    ASSUME NEW S \in SUBSET Events, S # {}
    PROVE  Newest(S) \in S /\ \A d \in S : d <= Newest(S)
<1> DEFINE T == {MaxSeq - e : e \in S}
<1>1. T \in SUBSET Nat /\ T # {}
  <2>1. \A e \in S : MaxSeq - e \in Nat
    BY BoundsAssumption DEF Events
  <2> QED BY <2>1
<1> HIDE DEF T
<1>2. PICK n \in T : \A m \in T : n <= m
  BY <1>1, LeastNumber
<1> USE DEF T
<1>3. PICK e \in S : n = MaxSeq - e
  BY <1>2
<1>4. \A d \in S : d <= e
  <2> SUFFICES ASSUME NEW d \in S PROVE d <= e
    OBVIOUS
  <2>1. MaxSeq - d \in T
    OBVIOUS
  <2>2. n <= MaxSeq - d
    BY <1>2, <2>1
  <2> QED BY <2>2, <1>3, BoundsAssumption DEF Events
<1> QED BY <1>4 DEF Newest

\* Both stay within the numbers, empty set or not.
LEMMA BoundsOfRows ==
    ASSUME NEW S \in SUBSET Events
    PROVE  Lowest(S) \in 0..MaxSeq /\ Newest(S) \in 0..MaxSeq
<1>1. CASE S = {}
  BY <1>1, BoundsAssumption DEF Lowest, Newest
<1>2. CASE S # {}
  <2>1. Lowest(S) \in S /\ Newest(S) \in S
    BY <1>2, LowestIsLeast, NewestIsGreatest
  <2>2. S \subseteq 0..MaxSeq
    BY BoundsAssumption DEF Events
  <2> QED BY <2>1, <2>2
<1> QED BY <1>1, <1>2

\* What a send adds to the wire.
LEMMA AppendLoad ==
    ASSUME NEW w \in Seq(Frames), NEW f \in Frames
    PROVE  /\ Append(w, f) \in Seq(Frames)
           /\ Load(Append(w, f)) = Load(w) \cup f.seqs
           /\ \A i \in DOMAIN Append(w, f) :
                 Append(w, f)[i] = f \/ \E j \in DOMAIN w : Append(w, f)[i] = w[j]
<1>1. /\ Append(w, f) \in Seq(Frames)
      /\ DOMAIN Append(w, f) = 1..(Len(w) + 1) /\ DOMAIN w = 1..Len(w) /\ Len(w) \in Nat
      /\ \A i \in 1..Len(w) : Append(w, f)[i] = w[i]
      /\ Append(w, f)[Len(w) + 1] = f
  BY AppendProperties, LenProperties
<1>2. \A i \in DOMAIN Append(w, f) : i = Len(w) + 1 \/ i \in DOMAIN w
  BY <1>1
<1>3. \A i \in DOMAIN w : i \in DOMAIN Append(w, f) /\ Append(w, f)[i] = w[i]
  BY <1>1
<1>4. Load(Append(w, f)) \subseteq Load(w) \cup f.seqs
  BY <1>1, <1>2 DEF Load
<1>5. Load(w) \subseteq Load(Append(w, f))
  BY <1>3 DEF Load
<1>6. f.seqs \subseteq Load(Append(w, f))
  <2>1. Len(w) + 1 \in DOMAIN Append(w, f)
    BY <1>1
  <2> QED BY <1>1, <2>1 DEF Load
<1> QED BY <1>1, <1>2, <1>4, <1>5, <1>6

\* What a receipt takes from it.
LEMMA TailLoad ==
    ASSUME NEW w \in Seq(Frames), w # <<>>
    PROVE  /\ Head(w) \in Frames /\ Tail(w) \in Seq(Frames)
           /\ Load(w) = Head(w).seqs \cup Load(Tail(w))
           /\ \A i \in DOMAIN Tail(w) : \E j \in DOMAIN w : Tail(w)[i] = w[j]
           /\ \E j \in DOMAIN w : Head(w) = w[j]
<1>1. /\ Head(w) \in Frames /\ Tail(w) \in Seq(Frames)
      /\ Len(w) \in Nat \ {0} /\ DOMAIN w = 1..Len(w) /\ DOMAIN Tail(w) = 1..(Len(w) - 1)
      /\ Head(w) = w[1]
      /\ \A i \in 1..(Len(w) - 1) : Tail(w)[i] = w[i + 1]
  BY HeadTailProperties, LenProperties
<1>2. \A i \in DOMAIN Tail(w) : i + 1 \in DOMAIN w /\ Tail(w)[i] = w[i + 1]
  BY <1>1
<1>3. \A j \in DOMAIN w : j = 1 \/ (j - 1 \in DOMAIN Tail(w) /\ w[j] = Tail(w)[j - 1])
  BY <1>1
<1>4. 1 \in DOMAIN w
  BY <1>1
<1>5. Load(w) \subseteq Head(w).seqs \cup Load(Tail(w))
  BY <1>1, <1>3 DEF Load
<1>6. Head(w).seqs \cup Load(Tail(w)) \subseteq Load(w)
  BY <1>1, <1>2, <1>4 DEF Load
<1> QED BY <1>1, <1>2, <1>4, <1>5, <1>6

\* A head frame that still carries something.
LEMMA RestLoad ==
    ASSUME NEW w \in Seq(Frames), NEW f \in Frames
    PROVE  /\ <<f>> \o w \in Seq(Frames)
           /\ Load(<<f>> \o w) = f.seqs \cup Load(w)
           /\ \A i \in DOMAIN (<<f>> \o w) :
                 (<<f>> \o w)[i] = f \/ \E j \in DOMAIN w : (<<f>> \o w)[i] = w[j]
<1> DEFINE v == <<f>> \o w
<1>1. /\ v \in Seq(Frames) /\ Len(w) \in Nat /\ DOMAIN w = 1..Len(w)
      /\ DOMAIN v = 1..(Len(w) + 1) /\ v[1] = f
      /\ \A i \in 2..(Len(w) + 1) : v[i] = w[i - 1]
  OBVIOUS
<1>2. \A i \in DOMAIN v : i = 1 \/ (i - 1 \in DOMAIN w /\ v[i] = w[i - 1])
  BY <1>1
<1>3. \A j \in DOMAIN w : j + 1 \in DOMAIN v /\ v[j + 1] = w[j]
  BY <1>1
<1>4. 1 \in DOMAIN v
  BY <1>1
<1> HIDE DEF v
<1>5. Load(v) \subseteq f.seqs \cup Load(w)
  BY <1>1, <1>2 DEF Load
<1>6. f.seqs \cup Load(w) \subseteq Load(v)
  BY <1>1, <1>3, <1>4 DEF Load
<1> QED BY <1>1, <1>2, <1>5, <1>6 DEF v

-----------------------------------------------------------------------------
(* Types. *)

\* The frames the server sends.
LEMMA FrameTypes ==
    /\ Error \in Frames
    /\ \A n \in 0..MaxSeq, S \in SUBSET Costly : Hello(n, S) \in Frames
    /\ \A t \in {"hello", "live", "replay", "error"}, S \in SUBSET Events : Carry(t, S) \in Frames
<1>1. 0 \in 0..MaxSeq
  BY BoundsAssumption
<1> QED BY <1>1 DEF Frames, Error, Hello, Carry

\* A publication puts one frame on the wire, or none.
LEMMA FanTypes ==
    ASSUME wire \in Seq(Frames), NEW e \in Events, Fan(e)
    PROVE  /\ wire' \in Seq(Frames)
           /\ wire' = Append(wire, Carry("live", {e})) \/ wire' = wire
           /\ socket \in Subscribed => wire' = Append(wire, Carry("live", {e}))
<1>1. Carry("live", {e}) \in Frames
  BY FrameTypes
<1>2. Append(wire, Carry("live", {e})) \in Seq(Frames)
  BY <1>1, AppendProperties
<1> QED BY <1>2 DEF Fan, Send

\* A refused handshake has no listener any more when its error frame arrives, the frames that carry
\* no event are what they seem, and nothing is on the wire before a page dials.
WireOK ==
    /\ \A i \in DOMAIN wire : wire[i].type \in {"hello", "error"} => wire[i].seqs = {}
    /\ \A i \in DOMAIN wire : wire[i].type = "error" => socket = "none"
    /\ page \notin {"up", "refused"} => wire = <<>>

\* The handler sends nothing of the kind while it goes on.
LEMMA WireStep == TypeOK /\ WireOK /\ [Next]_vars => WireOK'
<1> SUFFICES ASSUME TypeOK, WireOK, [Next]_vars PROVE WireOK'
  OBVIOUS
<1> USE DEF WireOK
<1>0. wire \in Seq(Frames)
  BY DEF TypeOK
<1>1. ASSUME NEW f \in Frames, wire' = Append(wire, f), f.type # "error" \/ socket' = "none",
             f.type \in {"hello", "error"} => f.seqs = {}, socket' = "none" \/ socket # "none",
             page = "up", page' = page
      PROVE  WireOK'
  BY <1>0, <1>1, AppendLoad
<1>2. CASE wire' = wire /\ (socket' = "none" \/ socket # "none") /\ page' = page
  BY <1>2
<1>3. CASE wire' = <<>>
  BY <1>3
<1>4. CASE wire # <<>> /\ wire' = Tail(wire) /\ socket' = socket /\ page' \in {page, "refused"}
  BY <1>0, <1>4, TailLoad
<1>5. ASSUME NEW e \in Events, Insert(e) \/ Abort(e) \/ Commit(e) \/ Withhold(e) PROVE WireOK'
  BY <1>5 DEF Insert, Abort, Commit, Withhold, server, client
<1>6. ASSUME NEW e \in Events, Publish(e) \/ Republish(e) PROVE WireOK'
  <2>1. Fan(e) /\ socket' = socket /\ page' = page
    BY <1>6 DEF Publish, Republish, server, client
  <2>2. CASE socket \in Subscribed
    BY <1>0, <1>1, <2>1, <2>2, FanTypes, FrameTypes DEF Carry, Subscribed, Opening, TypeOK
  <2>3. CASE socket \notin Subscribed
    BY <2>1, <2>3 DEF Fan
  <2> QED BY <2>2, <2>3
<1>7. CASE ConsumeTicket \/ RoomAccess \/ ReadLastSeq \/ QueryBacklog \/ OpenFails
  BY <1>2, <1>7 DEF ConsumeTicket, RoomAccess, ReadLastSeq, QueryBacklog, OpenFails, SocketStep,
     Opening, client
<1>8. CASE RefuseTicket
  BY <1>8, FrameTypes, <1>1 DEF RefuseTicket, SocketStep, Send, Error, client, TypeOK
<1>9. CASE ReadSpend
  <2>1. Hello(helloSeq, Durable \cap Costly) \in Frames
    BY FrameTypes DEF TypeOK
  <2> QED BY <1>1, <1>9, <2>1 DEF ReadSpend, SocketStep, Send, Hello, client, TypeOK
<1>10. CASE SendBacklog
  <2>1. Carry("replay", backlog) \in Frames
    BY FrameTypes DEF TypeOK
  <2> QED BY <1>1, <1>2, <1>10, <2>1 DEF SendBacklog, SocketStep, Send, Carry, client, TypeOK
<1>11. CASE FetchWindow \/ FetchFails \/ FetchTicket \/ ShowWindow \/ LoadOlder
  BY <1>11 DEF FetchWindow, FetchFails, FetchTicket, ShowWindow, LoadOlder, server
<1>12. CASE Dial
  BY <1>12 DEF Dial
<1>13. CASE ReceiveEvent
  <2> DEFINE f == Head(wire)
             g == Carry(f.type, f.seqs \ {Lowest(f.seqs)})
  <2>1. wire # <<>> /\ (wire' = Tail(wire) \/ wire' = <<g>> \o Tail(wire)) /\ socket' = socket
        /\ page = "up" /\ page' = page
    BY <1>13 DEF ReceiveEvent, server
  <2>2. f \in Frames /\ Tail(wire) \in Seq(Frames) /\ \E j \in DOMAIN wire : f = wire[j]
    BY <1>0, <2>1, TailLoad
  <2>3. g \in Frames /\ g.type = f.type
    BY <2>2, FrameTypes DEF Frames, Carry
  <2>5. f.seqs # {}
    BY <1>13 DEF ReceiveEvent
  <2>4. CASE wire' = <<g>> \o Tail(wire)
    <3> HIDE DEF f, g
    <3>1. \A i \in DOMAIN wire' :
             wire'[i] = g \/ \E j \in DOMAIN Tail(wire) : wire'[i] = Tail(wire)[j]
      BY <2>2, <2>3, <2>4, RestLoad
    <3>2. \A j \in DOMAIN Tail(wire) : \E k \in DOMAIN wire : Tail(wire)[j] = wire[k]
      BY <1>0, <2>1, TailLoad
    <3>3. \A i \in DOMAIN wire' : \E k \in DOMAIN wire :
             /\ wire'[i].type = wire[k].type
             /\ wire'[i].seqs = wire[k].seqs \/ wire[k].seqs # {}
      BY <2>2, <2>3, <2>5, <3>1, <3>2
    <3> QED BY <2>1, <3>3
  <2> QED BY <1>4, <2>1, <2>4
<1>14. CASE ReceiveHello \/ ReceiveError
  BY <1>4, <1>14 DEF ReceiveHello, ReceiveError, server
<1>15. CASE Break \/ Restart
  BY <1>3, <1>15 DEF Break, Restart, Close
<1>16. CASE UNCHANGED vars
  BY <1>16 DEF vars, server, client
<1> QED BY <1>5, <1>6, <1>7, <1>8, <1>9, <1>10, <1>11, <1>12, <1>13, <1>14, <1>15, <1>16
        DEF Next, Handler, Follow, Receive

\* Every step keeps every variable's type.
LEMMA TypeStep == TypeOK /\ WireOK /\ [Next]_vars => TypeOK'
<1> SUFFICES ASSUME TypeOK, WireOK, [Next]_vars PROVE TypeOK'
  OBVIOUS
<1> USE BoundsAssumption DEF TypeOK, Opening, Subscribed, server, client
<1>0. Durable \in SUBSET Events /\ 0 \in 0..MaxSeq
  BY DEF Durable
<1>1. ASSUME NEW e \in Events, Insert(e) \/ Abort(e) PROVE TypeOK'
  BY <1>1 DEF Insert, Abort
<1>2. ASSUME NEW e \in Events, Commit(e) PROVE TypeOK'
  BY <1>2 DEF Commit, Overtakes
<1>3. ASSUME NEW e \in Events, Publish(e) PROVE TypeOK'
  BY <1>3, FanTypes DEF Publish, Overtakes
<1>4. ASSUME NEW e \in Events, Republish(e) PROVE TypeOK'
  <2>1. faults' \in 0..MaxFaults
    BY <1>4 DEF Republish, Fault
  <2> QED BY <1>4, <2>1, FanTypes DEF Republish, Overtakes
<1>21. ASSUME NEW e \in Events, Withhold(e) PROVE TypeOK'
  <2>1. faults' \in 0..MaxFaults
    BY <1>21 DEF Withhold, Fault
  <2> QED BY <1>21, <2>1 DEF Withhold
<1>5. CASE ConsumeTicket \/ RoomAccess
  BY <1>5 DEF ConsumeTicket, RoomAccess, SocketStep
<1>6. CASE RefuseTicket
  BY <1>6, FrameTypes, AppendProperties DEF RefuseTicket, SocketStep, Send
<1>7. CASE ReadLastSeq
  BY <1>7, <1>0, BoundsOfRows DEF ReadLastSeq, SocketStep
<1>8. CASE ReadSpend
  <2>1. Hello(helloSeq, Durable \cap Costly) \in Frames
    BY FrameTypes
  <2> QED BY <1>8, <1>0, <2>1, AppendProperties DEF ReadSpend, SocketStep, Send
<1>9. CASE QueryBacklog
  BY <1>9, <1>0 DEF QueryBacklog, SocketStep
<1>20. CASE SendBacklog
  <2>1. Carry("replay", backlog) \in Frames
    BY FrameTypes
  <2> QED BY <1>20, <2>1, AppendProperties DEF SendBacklog, SocketStep, Send
<1>10. CASE OpenFails
  BY <1>10 DEF OpenFails, Fault
<1>11. CASE FetchWindow \/ FetchFails \/ FetchTicket \/ Dial
  BY <1>11, <1>0 DEF FetchWindow, FetchFails, FetchTicket, Dial
<1>12. CASE ShowWindow
  <2>1. Newest(window) \in 0..MaxSeq /\ Lowest(window) \in 0..MaxSeq
    BY BoundsOfRows
  <2> QED BY <1>12, <2>1 DEF ShowWindow
<1>13. CASE LoadOlder
  <2>1. OlderPage \in SUBSET Events
    BY <1>0 DEF OlderPage
  <2>2. Lowest(OlderPage \ seen) \in 0..MaxSeq
    BY <2>1, BoundsOfRows
  <2> QED BY <1>13, <2>1, <2>2 DEF LoadOlder
<1>14. CASE ReceiveEvent
  <2> DEFINE f == Head(wire)
             e == Lowest(f.seqs)
  <2>1. wire # <<>> /\ f.seqs # {} /\ page = "up"
    BY <1>14 DEF ReceiveEvent
  <2>2. f \in Frames /\ Tail(wire) \in Seq(Frames)
    BY <2>1, TailLoad
  <2>3. f.seqs \in SUBSET Events /\ f.type \in {"hello", "live", "replay", "error"}
    BY <2>2 DEF Frames
  <2>4. e \in Events
    BY <2>1, <2>3, LowestIsLeast
  <2>5. <<Carry(f.type, f.seqs \ {e})>> \o Tail(wire) \in Seq(Frames)
    BY <2>2, <2>3, FrameTypes, RestLoad
  <2>6. wire' \in Seq(Frames)
    BY <1>14, <2>2, <2>5 DEF ReceiveEvent
  <2>7. cursor' \in 0..MaxSeq
    BY <1>14, <2>4 DEF ReceiveEvent, Events
  <2>8. seen' \in SUBSET Events /\ ahead' \in BOOLEAN
    BY <1>14, <2>4 DEF ReceiveEvent
  <2> QED BY <1>14, <2>6, <2>7, <2>8 DEF ReceiveEvent
<1>15. CASE ReceiveHello
  <2>1. Head(wire) \in Frames /\ Tail(wire) \in Seq(Frames)
    BY <1>15, TailLoad DEF ReceiveHello
  <2> QED BY <1>15, <2>1 DEF ReceiveHello, Frames
<1>16. CASE ReceiveError
  <2>1. Tail(wire) \in Seq(Frames) /\ \E j \in DOMAIN wire : Head(wire) = wire[j]
    BY <1>16, TailLoad DEF ReceiveError
  <2>2. socket = "none"
    BY <1>16, <2>1 DEF ReceiveError, WireOK
  <2> QED BY <1>16, <2>1, <2>2 DEF ReceiveError
<1>17. CASE Break
  BY <1>17, EmptySeq DEF Break, Close, Fault
<1>18. CASE Restart
  BY <1>18, EmptySeq DEF Restart, Close, Fault
<1>19. CASE UNCHANGED vars
  BY <1>19 DEF vars
<1> QED BY <1>1, <1>2, <1>3, <1>4, <1>5, <1>6, <1>7, <1>8, <1>9, <1>10, <1>11, <1>12, <1>13,
           <1>14, <1>15, <1>16, <1>17, <1>18, <1>19, <1>20, <1>21 DEF Next, Handler, Follow, Receive

\* Types and wire are kept together.
LEMMA Types == Spec => [](TypeOK /\ WireOK)
<1>1. Init => TypeOK /\ WireOK
  <2> SUFFICES ASSUME Init PROVE TypeOK /\ WireOK
    OBVIOUS
  <2> USE BoundsAssumption DEF Init
  <2>1. wire \in Seq(Frames) /\ WireOK
    BY EmptySeq DEF WireOK
  <2>2. row \in [Events -> {"unborn", "inserting", "aborted", "committed", "published", "orphaned",
                         "silent"}]
    OBVIOUS
  <2>3. cursor \in 0..MaxSeq /\ oldest \in 0..MaxSeq /\ after \in 0..MaxSeq /\ helloSeq \in 0..MaxSeq
        /\ baselineSeq \in 0..MaxSeq /\ faults \in 0..MaxFaults
    OBVIOUS
  <2> QED BY <2>1, <2>2, <2>3 DEF TypeOK
<1>2. TypeOK /\ WireOK /\ [Next]_vars => (TypeOK /\ WireOK)'
  BY TypeStep, WireStep
<1> QED BY <1>1, <1>2, PTL DEF Spec

\* The state has its types: in particular the bus listens for a page only while it holds the
\* socket, whatever order closes and refusals come in.
THEOREM TypeInvariant == Spec => []TypeOK
BY Types, PTL

-----------------------------------------------------------------------------
(* What an open socket owes its page. *)

\* Between the read of the backlog and its answer, a row is in the answer or was heard on the bus.
ReplayMissesNothing ==
    socket = "replay" =>
        \A e \in Events : e > after /\ row[e] \in {"published", "orphaned"} =>
            e \in seen \cup OnWire \cup backlog

DeliveryInv == TypeOK /\ WireOK /\ OpenSocketMissesNothing /\ ReplayMissesNothing

\* The receipt of one event moves it from the wire to the screen, and moves nothing else.
LEMMA ReceiptMoves ==
    ASSUME TypeOK, ReceiveEvent
    PROVE  /\ seen' \cup OnWire' = seen \cup OnWire
           /\ OnWire' \subseteq OnWire
           /\ \E e \in OnWire : seen' = seen \cup {e}
<1> DEFINE f == Head(wire)
           e == Lowest(f.seqs)
           g == Carry(f.type, f.seqs \ {e})
<1>1. wire \in Seq(Frames) /\ wire # <<>> /\ f.seqs # {} /\ seen' = seen \cup {e}
      /\ wire' = IF f.seqs = {e} THEN Tail(wire) ELSE <<g>> \o Tail(wire)
  BY DEF TypeOK, ReceiveEvent
<1>2. f \in Frames /\ Tail(wire) \in Seq(Frames) /\ Load(wire) = f.seqs \cup Load(Tail(wire))
  BY <1>1, TailLoad
<1>3. f.seqs \in SUBSET Events
  BY <1>2 DEF Frames
<1>4. e \in f.seqs
  BY <1>1, <1>3, LowestIsLeast
<1>5. g \in Frames /\ g.seqs = f.seqs \ {e}
  BY <1>2, <1>3, FrameTypes DEF Frames, Carry
<1> HIDE DEF g, e, f
<1>6. Load(wire') \cup {e} = Load(wire) \cup {e} /\ Load(wire') \subseteq Load(wire)
  <2>1. CASE f.seqs = {e}
    BY <1>1, <1>2, <2>1
  <2>2. CASE f.seqs # {e}
    <3>1. Load(wire') = g.seqs \cup Load(Tail(wire))
      BY <1>1, <1>2, <1>5, <2>2, RestLoad
    <3> QED BY <1>2, <1>5, <3>1
  <2> QED BY <2>1, <2>2
<1>7. OnWire = Load(wire) /\ OnWire' = Load(wire')
  BY DEF OnWire, Load
<1>8. e \in OnWire
  BY <1>2, <1>4, <1>7
<1> QED BY <1>1, <1>6, <1>7, <1>8

\* A publication puts the row on the wire of a socket that is open, and takes nothing off it.
LEMMA FanLoads ==
    ASSUME TypeOK, NEW e \in Events, Fan(e)
    PROVE  /\ OnWire \subseteq OnWire' /\ OnWire' \subseteq OnWire \cup {e}
           /\ socket \in {"live", "replay"} => e \in OnWire'
<1>1. wire \in Seq(Frames) /\ Carry("live", {e}) \in Frames /\ Carry("live", {e}).seqs = {e}
  BY FrameTypes DEF TypeOK, Carry
<1>2. Load(Append(wire, Carry("live", {e}))) = Load(wire) \cup {e}
  BY <1>1, AppendLoad
<1>3. wire' = Append(wire, Carry("live", {e})) \/ (wire' = wire /\ socket \notin {"live", "replay"})
  BY DEF Fan, Send, Subscribed, Opening
<1>4. OnWire = Load(wire) /\ OnWire' = Load(wire')
  BY DEF OnWire, Load
<1> QED BY <1>2, <1>3, <1>4

\* The answer puts what it read on the wire.
LEMMA BacklogLoads ==
    ASSUME TypeOK, SendBacklog
    PROVE  OnWire' = OnWire \cup backlog
<1>1. wire \in Seq(Frames) /\ backlog \in SUBSET Events
  BY DEF TypeOK
<1>2. Carry("replay", backlog) \in Frames /\ Carry("replay", backlog).seqs = backlog
  BY <1>1, FrameTypes DEF Carry
<1>3. Load(Append(wire, Carry("replay", backlog))) = Load(wire) \cup backlog
  BY <1>1, <1>2, AppendLoad
<1>4. wire' = IF backlog = {} THEN wire ELSE Append(wire, Carry("replay", backlog))
  BY DEF SendBacklog, Send
<1>5. OnWire = Load(wire) /\ OnWire' = Load(wire')
  BY DEF OnWire, Load
<1> QED BY <1>3, <1>4, <1>5

\* Every step keeps what an open socket owes.
LEMMA DeliveryStep ==
    DeliveryInv /\ [Next]_vars => OpenSocketMissesNothing' /\ ReplayMissesNothing'
<1> DEFINE Owed == OpenSocketMissesNothing /\ ReplayMissesNothing
<1> SUFFICES ASSUME DeliveryInv, [Next]_vars PROVE Owed'
  OBVIOUS
<1> USE DEF OpenSocketMissesNothing, ReplayMissesNothing
<1>0. TypeOK /\ WireOK /\ Owed
  BY DEF DeliveryInv
\* What a step that leaves the socket open may do.
<1>1. CASE /\ socket' = socket /\ after' = after /\ backlog' = backlog /\ row' = row
           /\ seen \subseteq seen' /\ wire' = wire
  BY <1>0, <1>1 DEF OnWire
<1>2. ASSUME NEW e \in Events, Insert(e) \/ Abort(e) \/ Commit(e) \/ Withhold(e)
      PROVE  Owed'
  <2>1. wire' = wire /\ seen' = seen /\ socket' = socket /\ after' = after /\ backlog' = backlog
    BY <1>2 DEF Insert, Abort, Commit, Withhold, server, client
  <2>2. \A d \in Events : row'[d] \in {"published", "orphaned"} => row[d] = row'[d]
    BY <1>0, <1>2 DEF Insert, Abort, Commit, Withhold, TypeOK
  <2> QED BY <1>0, <2>1, <2>2 DEF OnWire
<1>3. ASSUME NEW e \in Events, Publish(e) \/ Republish(e) PROVE Owed'
  <2>1. Fan(e) /\ seen' = seen /\ socket' = socket /\ after' = after /\ backlog' = backlog
    BY <1>3 DEF Publish, Republish, server, client
  <2>2. \A d \in Events : d = e \/ row'[d] = row[d]
    BY <1>0, <1>3 DEF Publish, Republish, TypeOK
  <2>3. OnWire \subseteq OnWire' /\ (socket \in {"live", "replay"} => e \in OnWire')
    BY <1>0, <2>1, FanLoads
  <2> QED BY <1>0, <2>1, <2>2, <2>3
<1>4. CASE ConsumeTicket \/ RoomAccess \/ ReadLastSeq \/ ReadSpend \/ RefuseTicket \/ OpenFails
  BY <1>4 DEF ConsumeTicket, RoomAccess, ReadLastSeq, ReadSpend, RefuseTicket, OpenFails, SocketStep
<1>5. CASE QueryBacklog \/ SendBacklog
  <2>1. CASE QueryBacklog
    BY <2>1 DEF QueryBacklog, SocketStep, Durable, client
  <2>2. CASE SendBacklog
    <3>1. seen' = seen /\ after' = after /\ row' = row /\ socket = "replay" /\ socket' = "live"
      BY <2>2 DEF SendBacklog, SocketStep, client
    <3>2. OnWire' = OnWire \cup backlog
      BY <1>0, <2>2, BacklogLoads
    <3> QED BY <1>0, <3>1, <3>2
  <2> QED BY <1>5, <2>1, <2>2
<1>6. CASE FetchWindow \/ FetchFails \/ FetchTicket \/ LoadOlder
  BY <1>1, <1>6 DEF FetchWindow, FetchFails, FetchTicket, LoadOlder, server
<1>7. CASE ShowWindow
  <2>1. socket' = "none"
    BY <1>0, <1>7 DEF ShowWindow, TypeOK, server
  <2> QED BY <2>1
<1>8. CASE Dial
  BY <1>8 DEF Dial
<1>9. CASE ReceiveEvent
  <2>1. seen' \cup OnWire' = seen \cup OnWire
    BY <1>0, <1>9, ReceiptMoves
  <2>2. socket' = socket /\ after' = after /\ backlog' = backlog /\ row' = row
    BY <1>9 DEF ReceiveEvent, server
  <2> QED BY <1>0, <2>1, <2>2
<1>10. CASE ReceiveHello \/ ReceiveError
  <2>1. socket' = socket /\ after' = after /\ backlog' = backlog /\ row' = row /\ seen' = seen
    BY <1>10 DEF ReceiveHello, ReceiveError, server
  <2>2. wire \in Seq(Frames) /\ wire # <<>> /\ wire' = Tail(wire)
        /\ Head(wire).type \in {"hello", "error"}
    BY <1>0, <1>10 DEF ReceiveHello, ReceiveError, TypeOK
  <2>3. Head(wire).seqs = {}
    <3>1. \E j \in DOMAIN wire : Head(wire) = wire[j]
      BY <2>2, TailLoad
    <3> QED BY <1>0, <2>2, <3>1 DEF WireOK
  <2>4. Load(wire) = Load(wire')
    BY <2>2, <2>3, TailLoad
  <2>5. OnWire = Load(wire) /\ OnWire' = Load(wire')
    BY DEF OnWire, Load
  <2> QED BY <1>0, <2>1, <2>4, <2>5
<1>11. CASE Break \/ Restart
  BY <1>11 DEF Break, Restart, Close
<1>12. CASE UNCHANGED vars
  BY <1>1, <1>12 DEF vars, server, client
<1> QED BY <1>2, <1>3, <1>4, <1>5, <1>6, <1>7, <1>8, <1>9, <1>10, <1>11, <1>12
        DEF Next, Handler, Follow, Receive

\* "Subscribe before replay so no event committed during replay is missed" (server.ts:2065): for
\* any rows committed and published in any order around the handler's queries, any lost
\* connections, restarts and refused or failed opens.
THEOREM OpenSocketMissesNothingHolds == Spec => []OpenSocketMissesNothing
<1>1. Init => OpenSocketMissesNothing /\ ReplayMissesNothing
  BY DEF Init, OpenSocketMissesNothing, ReplayMissesNothing
<1>2. DeliveryInv /\ [Next]_vars => OpenSocketMissesNothing' /\ ReplayMissesNothing'
  BY DeliveryStep
<1>3. Spec => [](TypeOK /\ WireOK)
  BY Types
<1> QED BY <1>1, <1>2, <1>3, PTL DEF Spec, DeliveryInv

-----------------------------------------------------------------------------
(* What the baseline of the meter covers. *)

\* The fate of every number up to n is known, and what of it costs is in the sum.
Settled(n) == \A e \in Events : e <= n => row[e] \notin {"unborn", "inserting"}
Covered(n, spent) == Settled(n) /\ \A e \in Durable \cap Costly : e <= n => e \in spent

\* Numbers are handed out in order, and nothing is shown that was not committed.
LogFirst ==
    /\ \A d, e \in Events : d < e /\ row[e] # "unborn" => row[d] # "unborn"
    /\ seen \cup window \cup OnWire \cup backlog \subseteq Durable

\* While no row overtakes another: a committed row has only settled rows below it, and so has every
\* number a hello was, or will be, made of.
InOrder ==
    ~overtaken =>
        /\ \A e \in Durable : Settled(e)
        /\ Settled(helloSeq)
        /\ Covered(baselineSeq, baselineSpend)
        /\ \A i \in DOMAIN wire : Covered(wire[i].seq, wire[i].spent)

MeterInv == TypeOK /\ WireOK /\ LogFirst /\ InOrder

\* A number is handed out, then its row commits or not, then it is published, orphaned or passed over in silence.
LEMMA RowMoves ==
    ASSUME TypeOK, [Next]_vars, NEW e \in Events
    PROVE  \/ row'[e] = row[e]
           \/ row[e] = "unborn" /\ row'[e] = "inserting" /\ Insert(e)
           \/ row[e] = "inserting" /\ row'[e] = "committed" /\ Commit(e)
           \/ row[e] = "inserting" /\ row'[e] = "aborted"
           \/ row[e] = "committed" /\ row'[e] \in {"published", "orphaned", "silent"}
<1> DEFINE Moves ==
        \/ row'[e] = row[e]
        \/ row[e] = "unborn" /\ row'[e] = "inserting" /\ Insert(e)
        \/ row[e] = "inserting" /\ row'[e] = "committed" /\ Commit(e)
        \/ row[e] = "inserting" /\ row'[e] = "aborted"
        \/ row[e] = "committed" /\ row'[e] \in {"published", "orphaned", "silent"}
<1>1. ASSUME NEW d \in Events, Insert(d) PROVE Moves
  <2>1. row[d] = "unborn" /\ row' = [row EXCEPT ![d] = "inserting"]
    BY <1>1 DEF Insert
  <2> QED BY <1>1, <2>1 DEF TypeOK
<1>2. ASSUME NEW d \in Events, Commit(d) PROVE Moves
  <2>1. row[d] = "inserting" /\ row' = [row EXCEPT ![d] = "committed"]
    BY <1>2 DEF Commit
  <2> QED BY <1>2, <2>1 DEF TypeOK
<1>3. ASSUME NEW d \in Events, Abort(d) \/ Publish(d) \/ Withhold(d) PROVE Moves
  BY <1>3 DEF Abort, Publish, Withhold, TypeOK
<1>4. CASE Restart
  BY <1>4 DEF Restart, TypeOK
<1>5. CASE row' = row
  BY <1>5
<1>6. ASSUME NEW d \in Events, Republish(d) PROVE row' = row
  BY <1>6 DEF Republish
<1>7. CASE Handler \/ RefuseTicket \/ OpenFails \/ Follow \/ FetchFails \/ LoadOlder \/ Receive
           \/ Break \/ UNCHANGED vars
  BY <1>5, <1>7 DEF Handler, Follow, Receive, vars, ConsumeTicket, RoomAccess, ReadLastSeq,
     ReadSpend, QueryBacklog, SendBacklog, RefuseTicket, OpenFails, FetchWindow, ShowWindow,
     FetchTicket, Dial, FetchFails, LoadOlder, ReceiveEvent, ReceiveHello, ReceiveError, Break
<1> QED BY <1>1, <1>2, <1>3, <1>4, <1>5, <1>6, <1>7 DEF Next

\* So what is durable stays, and a number whose fate is known keeps it, whatever it was told with.
LEMMA CoverKept ==
    ASSUME TypeOK, [Next]_vars
    PROVE  /\ Durable \subseteq Durable'
           /\ \A n \in 0..MaxSeq : Settled(n) => Settled(n)'
           /\ \A n \in 0..MaxSeq, S \in SUBSET Costly : Covered(n, S) => Covered(n, S)'
<1>1. Durable \subseteq Durable'
  BY RowMoves DEF Durable
<1>2. \A e \in Events : row[e] \notin {"unborn", "inserting"} =>
         row'[e] \notin {"unborn", "inserting"} /\ (e \in Durable' => e \in Durable)
  BY RowMoves DEF Durable
<1>3. \A n \in 0..MaxSeq : Settled(n) => Settled(n)'
  BY <1>2 DEF Settled
<1>4. \A n \in 0..MaxSeq, S \in SUBSET Costly : Covered(n, S) => Covered(n, S)'
  <2> SUFFICES ASSUME NEW n \in 0..MaxSeq, NEW S \in SUBSET Costly, Covered(n, S)
      PROVE Covered(n, S)'
    OBVIOUS
  <2>1. Settled(n) /\ Settled(n)'
    BY <1>3 DEF Covered
  <2>2. \A e \in Durable' : e \in Events
    BY DEF Durable
  <2>3. ASSUME NEW e \in Durable' \cap Costly, e <= n PROVE e \in S
    <3>1. e \in Durable
      BY <1>2, <2>1, <2>2, <2>3 DEF Settled
    <3> QED BY <2>3, <3>1 DEF Covered
  <2> QED BY <2>1, <2>3 DEF Covered
<1> QED BY <1>1, <1>3, <1>4

\* Zero is below every number.
LEMMA ZeroCovers == Settled(0) /\ \A S : Covered(0, S)
<1>1. \A e \in Events : ~(e <= 0)
  BY BoundsAssumption DEF Events
<1>2. \A e \in Durable : e \in Events
  BY DEF Durable
<1> QED BY <1>1, <1>2 DEF Settled, Covered

\* What reaches the wire was committed.
LEMMA WireIsDurable ==
    ASSUME TypeOK, WireOK, [Next]_vars
    PROVE  OnWire' \subseteq OnWire \cup backlog \cup Durable
<1>0. wire \in Seq(Frames) /\ OnWire = Load(wire) /\ OnWire' = Load(wire')
  BY DEF TypeOK, OnWire, Load
<1>1. CASE wire' = wire
  BY <1>0, <1>1
<1>2. CASE wire' = <<>>
  BY <1>0, <1>2 DEF Load
<1>3. CASE wire # <<>> /\ wire' = Tail(wire)
  BY <1>0, <1>3, TailLoad
<1>4. ASSUME NEW f \in Frames, wire' = Append(wire, f), f.seqs = {} PROVE OnWire' \subseteq OnWire
  BY <1>0, <1>4, AppendLoad
<1>5. ASSUME NEW e \in Events, Publish(e) \/ Republish(e) PROVE OnWire' \subseteq OnWire \cup Durable
  <2>1. Fan(e) /\ e \in Durable
    BY <1>5 DEF Publish, Republish, Durable
  <2> QED BY <2>1, FanLoads
<1>6. CASE SendBacklog
  BY <1>6, BacklogLoads
<1>7. CASE ReceiveEvent
  BY <1>7, ReceiptMoves
<1>8. CASE RefuseTicket
  BY <1>4, <1>8, FrameTypes DEF RefuseTicket, Send, Error
<1>9. CASE ReadSpend
  <2>1. Hello(helloSeq, Durable \cap Costly) \in Frames
    BY FrameTypes DEF TypeOK
  <2> QED BY <1>4, <1>9, <2>1 DEF ReadSpend, Send, Hello
<1>10. ASSUME NEW e \in Events, Insert(e) \/ Commit(e) \/ Abort(e) \/ Withhold(e) PROVE wire' = wire
  BY <1>10 DEF Insert, Commit, Abort, Withhold
<1>11. CASE \/ ConsumeTicket \/ RoomAccess \/ ReadLastSeq \/ QueryBacklog \/ OpenFails \/ Follow
            \/ FetchFails \/ LoadOlder \/ UNCHANGED vars
  BY <1>1, <1>11 DEF ConsumeTicket, RoomAccess, ReadLastSeq, QueryBacklog, OpenFails, Follow,
     FetchWindow, ShowWindow, FetchTicket, Dial, FetchFails, LoadOlder, vars
<1>12. CASE ReceiveHello \/ ReceiveError
  BY <1>3, <1>12 DEF ReceiveHello, ReceiveError
<1>13. CASE Break \/ Restart
  BY <1>2, <1>13 DEF Break, Restart, Close
<1> QED BY <1>1, <1>5, <1>6, <1>7, <1>8, <1>9, <1>10, <1>11, <1>12, <1>13
        DEF Next, Handler, Receive

\* What reaches the screen was on the wire, or was read from the log.
LEMMA ScreenIsDurable ==
    ASSUME TypeOK, [Next]_vars
    PROVE  /\ seen' \subseteq seen \cup window \cup OnWire \cup Durable
           /\ window' \subseteq window \cup Durable
           /\ backlog' \subseteq backlog \cup Durable
<1>1. CASE ReceiveEvent
  BY <1>1, ReceiptMoves DEF ReceiveEvent, server
<1>2. CASE FetchWindow \/ ShowWindow \/ FetchFails \/ LoadOlder
  BY <1>2 DEF FetchWindow, ShowWindow, FetchFails, LoadOlder, OlderPage, server
<1>3. ASSUME NEW e \in Events, Insert(e) \/ Commit(e) \/ Abort(e) \/ Publish(e) \/ Republish(e) \/
                             Withhold(e)
      PROVE  seen' = seen /\ window' = window /\ backlog' = backlog
  BY <1>3 DEF Insert, Commit, Abort, Publish, Republish, Withhold, server, client
<1>4. CASE \/ Handler \/ RefuseTicket \/ OpenFails \/ FetchTicket \/ Dial \/ ReceiveHello
           \/ ReceiveError \/ Break \/ Restart \/ UNCHANGED vars
  BY <1>4 DEF Handler, ConsumeTicket, RoomAccess, ReadLastSeq, ReadSpend, QueryBacklog,
     SendBacklog, RefuseTicket, OpenFails, FetchTicket, Dial, ReceiveHello, ReceiveError, Break,
     Restart, Close, vars, server, client
<1> QED BY <1>1, <1>2, <1>3, <1>4 DEF Next, Follow, Receive

\* LogFirst is kept.
LEMMA LogFirstStep == TypeOK /\ WireOK /\ LogFirst /\ [Next]_vars => LogFirst'
<1> SUFFICES ASSUME TypeOK, WireOK, LogFirst, [Next]_vars PROVE LogFirst'
  OBVIOUS
<1>1. ASSUME NEW d \in Events, NEW e \in Events, d < e, row'[e] # "unborn" PROVE row'[d] # "unborn"
  <2>1. row[d] # "unborn"
    <3>1. CASE row[e] = "unborn"
      <4>1. Insert(e)
        BY <1>1, <3>1, RowMoves
      <4> QED BY <1>1, <4>1 DEF Insert
    <3> QED BY <1>1, <3>1 DEF LogFirst
  <2> QED BY <2>1, RowMoves
<1>2. seen' \cup window' \cup OnWire' \cup backlog' \subseteq Durable'
  BY CoverKept, WireIsDurable, ScreenIsDurable DEF LogFirst
<1> QED BY <1>1, <1>2 DEF LogFirst

\* A frame on the wire tells what an older one told, nothing, or what the handler has just summed.
LEMMA FramesTell ==
    ASSUME TypeOK, WireOK, [Next]_vars, NEW i \in DOMAIN wire'
    PROVE  \/ \E j \in DOMAIN wire : wire'[i].seq = wire[j].seq /\ wire'[i].spent = wire[j].spent
           \/ wire'[i].seq = 0
           \/ /\ ReadSpend
              /\ wire'[i].seq = helloSeq /\ wire'[i].spent = Durable \cap Costly
<1> DEFINE Old == \E j \in DOMAIN wire : wire'[i].seq = wire[j].seq /\ wire'[i].spent = wire[j].spent
           Told == ReadSpend /\ wire'[i].seq = helloSeq /\ wire'[i].spent = Durable \cap Costly
           Tells == Old \/ wire'[i].seq = 0 \/ Told
<1>0. wire \in Seq(Frames)
  BY DEF TypeOK
<1>1. CASE wire' = wire
  BY <1>1
<1>2. CASE wire' = <<>>
  BY <1>2
<1>3. CASE wire # <<>> /\ wire' = Tail(wire)
  BY <1>0, <1>3, TailLoad
<1>4. ASSUME NEW f \in Frames, wire' = Append(wire, f), f.seq = 0 PROVE Tells
  BY <1>0, <1>4, AppendLoad
<1>5. ASSUME NEW e \in Events, Publish(e) \/ Republish(e) PROVE Tells
  <2>1. Fan(e)
    BY <1>5 DEF Publish, Republish
  <2>2. Carry("live", {e}) \in Frames /\ Carry("live", {e}).seq = 0
    BY FrameTypes DEF Carry
  <2> QED BY <1>0, <1>1, <1>4, <2>1, <2>2, FanTypes
<1>6. CASE SendBacklog
  <2>1. Carry("replay", backlog) \in Frames /\ Carry("replay", backlog).seq = 0
    BY FrameTypes DEF Carry, TypeOK
  <2> QED BY <1>1, <1>4, <1>6, <2>1 DEF SendBacklog, Send
<1>7. CASE ReceiveEvent
  <2> DEFINE f == Head(wire)
             g == Carry(f.type, f.seqs \ {Lowest(f.seqs)})
  <2>1. wire # <<>> /\ (wire' = Tail(wire) \/ wire' = <<g>> \o Tail(wire))
    BY <1>7 DEF ReceiveEvent
  <2>2. f \in Frames /\ Tail(wire) \in Seq(Frames)
    BY <1>0, <2>1, TailLoad
  <2>3. g \in Frames /\ g.seq = 0
    BY <2>2, FrameTypes DEF Frames, Carry
  <2>4. CASE wire' = <<g>> \o Tail(wire)
    <3> HIDE DEF f, g
    <3>1. wire'[i] = g \/ \E j \in DOMAIN Tail(wire) : wire'[i] = Tail(wire)[j]
      BY <2>2, <2>3, <2>4, RestLoad
    <3>2. \A j \in DOMAIN Tail(wire) : \E k \in DOMAIN wire : Tail(wire)[j] = wire[k]
      BY <1>0, <2>1, TailLoad
    <3> QED BY <2>3, <3>1, <3>2
  <2> QED BY <1>3, <2>1, <2>4
<1>8. CASE RefuseTicket
  BY <1>4, <1>8, FrameTypes DEF RefuseTicket, Send, Error
<1>9. CASE ReadSpend
  <2>1. Hello(helloSeq, Durable \cap Costly) \in Frames
    BY FrameTypes DEF TypeOK
  <2>2. wire' = Append(wire, Hello(helloSeq, Durable \cap Costly))
    BY <1>9 DEF ReadSpend, Send
  <2>3. wire'[i] = Hello(helloSeq, Durable \cap Costly) \/ \E j \in DOMAIN wire : wire'[i] = wire[j]
    BY <1>0, <2>1, <2>2, AppendLoad
  <2> QED BY <1>9, <2>3 DEF Hello
<1>10. ASSUME NEW e \in Events, Insert(e) \/ Commit(e) \/ Abort(e) \/ Withhold(e) PROVE wire' = wire
  BY <1>10 DEF Insert, Commit, Abort, Withhold
<1>11. CASE \/ ConsumeTicket \/ RoomAccess \/ ReadLastSeq \/ QueryBacklog \/ OpenFails \/ Follow
            \/ FetchFails \/ LoadOlder \/ UNCHANGED vars
  BY <1>1, <1>11 DEF ConsumeTicket, RoomAccess, ReadLastSeq, QueryBacklog, OpenFails, Follow,
     FetchWindow, ShowWindow, FetchTicket, Dial, FetchFails, LoadOlder, vars
<1>12. CASE ReceiveHello \/ ReceiveError
  BY <1>3, <1>12 DEF ReceiveHello, ReceiveError
<1>13. CASE Break \/ Restart
  BY <1>2, <1>13 DEF Break, Restart, Close
<1> QED BY <1>1, <1>5, <1>6, <1>7, <1>8, <1>9, <1>10, <1>11, <1>12, <1>13
        DEF Next, Handler, Receive

\* A row that commits and overtakes none has only settled rows below it.
LEMMA CommitSettles ==
    ASSUME TypeOK, LogFirst, [Next]_vars, NEW e \in Events, Commit(e), ~overtaken'
    PROVE  Settled(e)'
<1>1. row[e] = "inserting" /\ row'[e] = "committed"
  BY DEF Commit, TypeOK
<1>2. \A d \in Events : d < e => row[d] \notin {"unborn", "inserting"}
  BY <1>1 DEF Commit, Overtakes, LogFirst
<1>3. \A d \in Events : d <= e => row'[d] \notin {"unborn", "inserting"}
  <2> SUFFICES ASSUME NEW d \in Events, d <= e PROVE row'[d] \notin {"unborn", "inserting"}
    OBVIOUS
  <2>1. d = e \/ d < e
    BY BoundsAssumption DEF Events
  <2> QED BY <1>1, <1>2, <2>1, RowMoves
<1> QED BY <1>3 DEF Settled

\* InOrder is kept.
LEMMA InOrderStep == MeterInv /\ [Next]_vars => InOrder'
<1> SUFFICES ASSUME MeterInv, [Next]_vars, ~overtaken' PROVE
        /\ (\A e \in Durable : Settled(e))'
        /\ Settled(helloSeq)'
        /\ Covered(baselineSeq, baselineSpend)'
        /\ (\A i \in DOMAIN wire : Covered(wire[i].seq, wire[i].spent))'
  BY DEF InOrder
<1>0. TypeOK /\ WireOK /\ LogFirst /\ InOrder
  BY DEF MeterInv
<1>1. overtaken' = overtaken \/ \E e \in Events : Commit(e) \/ Publish(e) \/ Republish(e)
  BY DEF Next, Handler, Follow, Receive, vars, Insert, Abort, Withhold, ConsumeTicket, RoomAccess,
     ReadLastSeq, ReadSpend, QueryBacklog, SendBacklog, RefuseTicket, OpenFails, FetchWindow,
     ShowWindow,
     FetchTicket, Dial, FetchFails, LoadOlder, ReceiveEvent, ReceiveHello, ReceiveError, Break,
     Restart
<1>2. ~overtaken
  BY <1>1 DEF Commit, Publish, Republish, Overtakes
<1>3. /\ \A e \in Durable : Settled(e)
      /\ Settled(helloSeq)
      /\ Covered(baselineSeq, baselineSpend)
      /\ \A i \in DOMAIN wire : Covered(wire[i].seq, wire[i].spent)
  BY <1>0, <1>2 DEF InOrder
<1>4. Events \subseteq 0..MaxSeq /\ 0 \in 0..MaxSeq /\ helloSeq \in 0..MaxSeq
      /\ baselineSeq \in 0..MaxSeq /\ baselineSpend \in SUBSET Costly /\ Durable \subseteq Events
  BY <1>0, BoundsAssumption DEF TypeOK, Events, Durable
<1>5. \A n \in 0..MaxSeq, S \in SUBSET Costly : Covered(n, S) => Covered(n, S)'
  BY <1>0, CoverKept
<1>6. \A n \in 0..MaxSeq : Settled(n) => Settled(n)'
  BY <1>0, CoverKept
<1>7. wire \in Seq(Frames) /\ \A i \in DOMAIN wire :
         wire[i].seq \in 0..MaxSeq /\ wire[i].spent \in SUBSET Costly
  <2>1. wire \in Seq(Frames)
    BY <1>0 DEF TypeOK
  <2>2. \A i \in DOMAIN wire : wire[i] \in Frames
    BY <2>1
  <2> QED BY <2>1, <2>2 DEF Frames
<1>8. ASSUME NEW e \in Durable' PROVE Settled(e)'
  <2>1. e \in Events
    BY <1>8 DEF Durable
  <2>2. CASE e \in Durable
    BY <1>3, <1>4, <1>6, <2>2
  <2>3. CASE e \notin Durable
    <3>1. Commit(e)
      BY <1>0, <1>8, <2>1, <2>3, RowMoves DEF Durable
    <3> QED BY <1>0, <2>1, <3>1, CommitSettles
  <2> QED BY <2>2, <2>3
<1>9. Settled(helloSeq)'
  <2>1. helloSeq' \in {helloSeq, 0} \/ (helloSeq' = Newest(Durable) /\ row' = row)
    BY DEF Next, Handler, Follow, Receive, vars, Insert, Commit, Abort, Publish, Republish, Withhold,
       ConsumeTicket, RoomAccess, ReadLastSeq, ReadSpend, QueryBacklog, SendBacklog, RefuseTicket,
       OpenFails,
       FetchWindow, ShowWindow, FetchTicket, Dial, FetchFails, LoadOlder, ReceiveEvent,
       ReceiveHello, ReceiveError, Break, Restart, Close, server
  <2>2. Settled(0)
    BY ZeroCovers
  <2>3. Settled(Newest(Durable))
    <3>1. CASE Durable = {}
      BY <2>2, <3>1 DEF Newest
    <3>2. CASE Durable # {}
      BY <1>3, <1>4, <3>2, NewestIsGreatest
    <3> QED BY <3>1, <3>2
  <2>4. Newest(Durable) \in 0..MaxSeq
    BY <1>4, BoundsOfRows
  <2>5. \E n \in 0..MaxSeq : n = helloSeq' /\ Settled(n)
    BY <1>3, <1>4, <2>1, <2>2, <2>3, <2>4
  <2>6. PICK n \in 0..MaxSeq : n = helloSeq' /\ Settled(n)
    BY <2>5
  <2>7. Settled(n)'
    BY <1>6, <2>6
  <2> QED BY <2>6, <2>7 DEF Settled
<1>10. Covered(baselineSeq, baselineSpend)'
  <2>1. \/ baselineSeq' = baselineSeq /\ baselineSpend' = baselineSpend
        \/ ReceiveHello
    BY DEF Next, Handler, Follow, Receive, vars, Insert, Commit, Abort, Publish, Republish, Withhold,
       ConsumeTicket, RoomAccess, ReadLastSeq, ReadSpend, QueryBacklog, SendBacklog, RefuseTicket,
       OpenFails,
       FetchWindow, ShowWindow, FetchTicket, Dial, FetchFails, LoadOlder, ReceiveEvent,
       ReceiveError, Break, Restart, client
  <2>2. CASE ReceiveHello
    <3>1. PICK j \in DOMAIN wire : Head(wire) = wire[j]
      BY <1>7, <2>2, TailLoad DEF ReceiveHello
    <3> QED BY <1>3, <1>5, <1>7, <2>2, <3>1 DEF ReceiveHello, Covered, Settled
  <2>3. CASE baselineSeq' = baselineSeq /\ baselineSpend' = baselineSpend
    BY <1>3, <1>4, <1>5, <2>3 DEF Covered, Settled
  <2> QED BY <2>1, <2>2, <2>3
<1>11. ASSUME NEW i \in DOMAIN wire' PROVE Covered(wire[i].seq, wire[i].spent)'
  <2>1. ASSUME NEW j \in DOMAIN wire, wire'[i].seq = wire[j].seq, wire'[i].spent = wire[j].spent
        PROVE  Covered(wire[i].seq, wire[i].spent)'
    BY <1>3, <1>5, <1>7, <2>1 DEF Covered, Settled
  <2>2. CASE wire'[i].seq = 0
    <3>1. \A e \in Events : ~(e <= 0)
      BY BoundsAssumption DEF Events
    <3> QED BY <2>2, <3>1 DEF Covered, Settled, Durable
  <2>3. CASE ReadSpend /\ wire'[i].seq = helloSeq /\ wire'[i].spent = Durable \cap Costly
    <3>1. Covered(helloSeq, Durable \cap Costly)
      BY <1>3 DEF Covered
    <3>2. row' = row
      BY <2>3 DEF ReadSpend
    <3> QED BY <2>3, <3>1, <3>2 DEF Covered, Settled, Durable
  <2> QED BY <1>0, <2>1, <2>2, <2>3, FramesTell
<1> QED BY <1>8, <1>9, <1>10, <1>11

\* It starts so, with the rows of the past published.
LEMMA MeterInit == Init => LogFirst /\ InOrder
<1> SUFFICES ASSUME Init PROVE LogFirst /\ InOrder
  OBVIOUS
<1>1. seen \cup window \cup OnWire \cup backlog = {}
  BY DEF Init, OnWire
<1>2. \A e \in Events : (row[e] = "published" <=> e <= Past) /\ (row[e] = "unborn" <=> ~(e <= Past))
  BY DEF Init
<1>3. \A d, e \in Events : d < e /\ row[e] # "unborn" => row[d] # "unborn"
  BY <1>2, BoundsAssumption DEF Events
<1>4. \A e \in Durable : Settled(e)
  BY <1>2, BoundsAssumption DEF Events, Durable, Settled
<1>5. Settled(helloSeq) /\ Covered(baselineSeq, baselineSpend) /\ DOMAIN wire = {}
  BY ZeroCovers DEF Init
<1> QED BY <1>1, <1>3, <1>4, <1>5 DEF LogFirst, InOrder

\* The meter has "no gap" (server.ts:2163): a cost on the screen is in the baseline of the last hello
\* or past its number, for any rows, reconnections and restarts, while no row overtakes another.
THEOREM MeterNeverLowHolds == Spec => []MeterNeverLow
<1>1. Init => LogFirst /\ InOrder
  BY MeterInit
<1>2. MeterInv /\ [Next]_vars => LogFirst' /\ InOrder'
  BY LogFirstStep, InOrderStep DEF MeterInv
<1>3. MeterInv => MeterNeverLow
  <2> SUFFICES ASSUME MeterInv, ~overtaken, NEW e \in seen \cap Costly
      PROVE e \in baselineSpend \/ e > baselineSeq
    BY DEF MeterNeverLow
  <2>1. e \in Durable /\ e \in Events
    BY DEF MeterInv, LogFirst, Durable
  <2>2. e <= baselineSeq => e \in baselineSpend
    BY <2>1 DEF MeterInv, InOrder, Covered
  <2>3. e \in Nat /\ baselineSeq \in Nat
    BY <2>1, BoundsAssumption DEF MeterInv, TypeOK, Events
  <2> QED BY <2>2, <2>3
<1>4. Spec => [](TypeOK /\ WireOK)
  BY Types
<1> QED BY <1>1, <1>2, <1>3, <1>4, PTL DEF Spec, MeterInv

-----------------------------------------------------------------------------
(* What the screen shows. *)

\* The cursor rests on a row that is shown.
CursorInv == cursor = 0 \/ cursor \in seen

\* Every step keeps it there.
LEMMA CursorStep == TypeOK /\ CursorInv /\ [Next]_vars => CursorInv'
<1> SUFFICES ASSUME TypeOK, CursorInv, [Next]_vars PROVE CursorInv'
  OBVIOUS
<1> USE DEF CursorInv
<1>1. CASE cursor' = cursor /\ seen \subseteq seen'
  BY <1>1
<1>2. CASE ShowWindow
  <2>1. CASE window = {}
    BY <1>2, <2>1 DEF ShowWindow, Newest
  <2>2. CASE window # {}
    BY <1>2, <2>2, NewestIsGreatest DEF ShowWindow, TypeOK
  <2> QED BY <2>1, <2>2
<1>3. CASE ReceiveEvent
  BY <1>3 DEF ReceiveEvent
<1>4. ASSUME NEW e \in Events, Insert(e) \/ Commit(e) \/ Abort(e) \/ Publish(e) \/ Republish(e) \/
                             Withhold(e)
      PROVE  cursor' = cursor /\ seen' = seen
  BY <1>4 DEF Insert, Commit, Abort, Publish, Republish, Withhold, client
<1>5. CASE \/ Handler \/ RefuseTicket \/ OpenFails \/ FetchWindow \/ FetchFails \/ LoadOlder
           \/ FetchTicket \/ Dial \/ ReceiveHello \/ ReceiveError \/ Break \/ Restart
           \/ UNCHANGED vars
  BY <1>1, <1>5 DEF Handler, ConsumeTicket, RoomAccess, ReadLastSeq, ReadSpend, QueryBacklog,
     SendBacklog, RefuseTicket, OpenFails, FetchWindow, FetchFails, LoadOlder, FetchTicket, Dial,
     ReceiveHello, ReceiveError, Break, Restart, vars, client
<1> QED BY <1>1, <1>2, <1>3, <1>4, <1>5 DEF Next, Follow, Receive

\* "No event reaches a client that is not already durable" (architecture bible:530), from the bus,
\* a replay, the window or an older page; and the cursor a page reconnects with is shown.
THEOREM CursorIsShownHolds == Spec => []CursorIsShown
<1>1. Init => LogFirst /\ CursorInv
  BY MeterInit DEF Init, CursorInv
<1>2. TypeOK /\ WireOK /\ LogFirst /\ CursorInv /\ [Next]_vars => LogFirst' /\ CursorInv'
  BY LogFirstStep, CursorStep
<1>3. LogFirst /\ CursorInv => CursorIsShown
  BY DEF LogFirst, CursorInv, CursorIsShown
<1>4. Spec => [](TypeOK /\ WireOK)
  BY Types
<1> QED BY <1>1, <1>2, <1>3, <1>4, PTL DEF Spec

-----------------------------------------------------------------------------
(* What the cursor has passed. *)

\* The open handler has still to replay the row, or its replay is on the wire.
Owes(d) ==
    \/ socket \notin {"replay", "live"}
    \/ socket = "replay" /\ d \in backlog
    \/ \E k \in DOMAIN wire : wire[k].type = "replay" /\ d \in wire[k].seqs

\* A row on the bus had the ones below it go before it, unless the replay brings them or nobody
\* published them.
LiveInOrder ==
    \A i \in DOMAIN wire, e \in Events, d \in Durable :
        wire[i].type = "live" /\ e \in wire[i].seqs /\ d < e /\ d > after =>
            \/ d \in seen
            \/ \E j \in DOMAIN wire : j < i /\ d \in wire[j].seqs
            \/ Owes(d)
            \/ row[d] = "silent"

\* What is replayed has no holes while it is received, and had none when it was read; nor has the
\* window.
FramesWhole ==
    \A i \in DOMAIN wire, e \in Events, d \in Durable :
        wire[i].type = "replay" /\ e \in wire[i].seqs /\ d < e /\ d > after =>
          d \in seen \cup wire[i].seqs
BacklogWhole == \A e \in backlog, d \in Durable : d < e /\ d > after => d \in backlog
WindowWhole == \A e \in window : e > Floor /\ \A d \in Durable : d < e /\ d > Floor => d \in window

\* What the cursor passed is shown, can be asked for, is owed by a connection that was ahead of its
\* replay, or was never published.
Accounted(d) ==
    \/ d \in seen
    \/ d < oldest /\ hasOlder
    \/ page = "up" /\ ahead /\ d > after /\ Owes(d)
    \/ row[d] = "silent"

AllAccounted == \A d \in Durable : d <= cursor => Accounted(d)

\* A socket is opened with the cursor, which only goes on while it is open.
OpenedBelow == page = "up" => after <= cursor

\* A backlog is held from its read to its answer.
ReadInHand == socket # "replay" => backlog = {}

Whole == LiveInOrder /\ FramesWhole /\ BacklogWhole /\ WindowWhole
GapInv == OpenedBelow /\ ReadInHand /\ (~overtaken => Whole) /\ (~overtaken /\ ~skipped => AllAccounted)

\* All that is known of delivery.
Known == MeterInv /\ DeliveryInv /\ GapInv

-----------------------------------------------------------------------------

\* Where the frames are after a send.
LEMMA AppendAt ==
    ASSUME NEW w \in Seq(Frames), NEW f \in Frames
    PROVE  /\ DOMAIN w \subseteq Nat /\ Len(w) + 1 \in DOMAIN Append(w, f) /\
              Append(w, f)[Len(w) + 1] = f
           /\ \A i \in DOMAIN w : i \in DOMAIN Append(w, f) /\ Append(w, f)[i] = w[i] /\ i < Len(w) + 1
           /\ \A i \in DOMAIN Append(w, f) : i = Len(w) + 1 \/ i \in DOMAIN w
<1>1. /\ DOMAIN Append(w, f) = 1..(Len(w) + 1) /\ DOMAIN w = 1..Len(w) /\ Len(w) \in Nat
      /\ \A i \in 1..Len(w) : Append(w, f)[i] = w[i]
      /\ Append(w, f)[Len(w) + 1] = f
  BY AppendProperties, LenProperties
<1> QED BY <1>1

\* The rows of some are received: the frames move up by one when the first is used up.
Moved(by, E) ==
    /\ \A i \in DOMAIN wire' :
          /\ i \in Nat /\ i + by \in DOMAIN wire /\ wire'[i].type = wire[i + by].type
          /\ wire'[i].seqs \subseteq wire[i + by].seqs /\
             wire[i + by].seqs \subseteq wire'[i].seqs \cup E
    /\ \A j \in DOMAIN wire : j \in Nat /\ (wire[j].seqs \subseteq E \/ j - by \in DOMAIN wire')

\* A head frame that is used up.
LEMMA TailMoves ==
    ASSUME TypeOK, wire # <<>>, wire' = Tail(wire), NEW E, Head(wire).seqs \subseteq E
    PROVE  Moved(1, E)
<1>1. wire \in Seq(Frames)
  BY DEF TypeOK
<1>2. /\ Len(wire) \in Nat \ {0} /\ DOMAIN wire = 1..Len(wire) /\ DOMAIN wire' = 1..(Len(wire) - 1)
      /\ Head(wire) = wire[1]
      /\ \A i \in 1..(Len(wire) - 1) : wire'[i] = wire[i + 1]
  BY <1>1, HeadTailProperties, LenProperties
<1>3. \A i \in DOMAIN wire' : i \in Nat /\ i + 1 \in DOMAIN wire /\ wire'[i] = wire[i + 1]
  BY <1>2
<1>4. \A j \in DOMAIN wire : j \in Nat /\ (j = 1 \/ j - 1 \in DOMAIN wire')
  BY <1>2
<1> QED BY <1>2, <1>3, <1>4 DEF Moved

\* The receipt of an event: the lowest of the first frame.
LEMMA EventMoves ==
    ASSUME TypeOK, ReceiveEvent
    PROVE  \E by \in {0, 1}, e \in Events :
              /\ Moved(by, {e}) /\ seen' = seen \cup {e} /\ e = Lowest(Head(wire).seqs)
              /\ 1 \in DOMAIN wire /\ Head(wire) = wire[1]
              /\ e \in wire[1].seqs /\ \A d \in wire[1].seqs : e <= d
<1> DEFINE f == Head(wire)
           e == Lowest(f.seqs)
           g == Carry(f.type, f.seqs \ {e})
<1>1. wire \in Seq(Frames) /\ wire # <<>> /\ f.seqs # {} /\ seen' = seen \cup {e}
      /\ wire' = IF f.seqs = {e} THEN Tail(wire) ELSE <<g>> \o Tail(wire)
  BY DEF TypeOK, ReceiveEvent
<1>2. /\ Len(wire) \in Nat \ {0} /\ DOMAIN wire = 1..Len(wire)
      /\ DOMAIN Tail(wire) = 1..(Len(wire) - 1) /\ Len(Tail(wire)) = Len(wire) - 1
      /\ f = wire[1] /\ f \in Frames /\ Tail(wire) \in Seq(Frames)
      /\ \A i \in 1..(Len(wire) - 1) : Tail(wire)[i] = wire[i + 1]
  BY <1>1, HeadTailProperties, LenProperties
<1>3. f.seqs \in SUBSET Events
  BY <1>2 DEF Frames
<1>4. e \in f.seqs /\ \A d \in f.seqs : e <= d
  BY <1>1, <1>3, LowestIsLeast
<1>5. g \in Frames /\ g.seqs = f.seqs \ {e} /\ g.type = f.type
  BY <1>2, <1>3, FrameTypes DEF Frames, Carry
<1>6. 1 \in DOMAIN wire /\ e \in Events
  BY <1>2, <1>3, <1>4
<1> HIDE DEF g, e, f
<1>7. CASE f.seqs = {e}
  <2>1. wire' = Tail(wire) /\ Head(wire).seqs \subseteq {e}
    BY <1>1, <1>7 DEF f
  <2>2. Moved(1, {e})
    BY <1>1, <2>1, TailMoves
  <2> QED BY <1>1, <1>2, <1>4, <1>6, <2>2 DEF e, f
<1>8. CASE f.seqs # {e}
  <2>1. wire' = <<g>> \o Tail(wire)
    BY <1>1, <1>8
  <2>2. DOMAIN wire' = 1..Len(wire) /\ wire'[1] = g /\
        \A i \in 2..Len(wire) : wire'[i] = Tail(wire)[i - 1]
    BY <1>2, <1>5, <2>1
  <2>3. \A i \in 2..Len(wire) : wire'[i] = wire[i]
    <3>1. \A i \in 2..Len(wire) : i - 1 \in 1..(Len(wire) - 1) /\ (i - 1) + 1 = i
      BY <1>2
    <3> QED BY <1>2, <2>2, <3>1
  <2>4. \A i \in DOMAIN wire' : i \in Nat /\ i + 0 = i /\ i - 0 = i /\ i \in DOMAIN wire /\
        (i = 1 \/ wire'[i] = wire[i])
    BY <1>2, <2>2, <2>3
  <2>5. \A j \in DOMAIN wire : j \in Nat /\ j - 0 \in DOMAIN wire'
    BY <1>2, <2>2
  <2>6. Moved(0, {e})
    BY <1>2, <1>5, <2>2, <2>4, <2>5 DEF Moved
  <2> QED BY <1>1, <1>2, <1>4, <1>6, <2>6 DEF e, f
<1> QED BY <1>7, <1>8

\* Of a frame without events nothing else moves.
LEMMA NothingMoves ==
    ASSUME TypeOK, WireOK, ReceiveHello \/ ReceiveError
    PROVE  Moved(1, {})
<1>1. wire \in Seq(Frames) /\ wire # <<>> /\ wire' = Tail(wire) /\
      Head(wire).type \in {"hello", "error"}
  BY DEF ReceiveHello, ReceiveError, TypeOK
<1>2. Head(wire).seqs \subseteq {}
  <2>1. \E j \in DOMAIN wire : Head(wire) = wire[j]
    BY <1>1, TailLoad
  <2> QED BY <1>1, <2>1 DEF WireOK
<1> QED BY <1>1, <1>2, TailMoves

\* While no row overtakes another, none becomes durable below one that is.
LEMMA RowsAbove ==
    ASSUME MeterInv, [Next]_vars, ~overtaken, NEW e \in Durable, NEW d \in Durable', d <= e
    PROVE  d \in Durable
<1>1. TypeOK /\ Settled(e) /\ d \in Events
  BY DEF MeterInv, InOrder, Durable
<1>2. row[d] \notin {"unborn", "inserting"}
  BY <1>1 DEF Settled
<1>3. row'[d] \in {"committed", "published", "orphaned", "silent"}
  BY DEF Durable
<1> QED BY <1>1, <1>2, <1>3, RowMoves DEF Durable

\* A row that was passed over stays so.
LEMMA SilenceStays ==
    ASSUME TypeOK, [Next]_vars, NEW d \in Events, row[d] = "silent"
    PROVE  row'[d] = "silent"
BY RowMoves

\* Nor below the cursor.
LEMMA RowsAboveCursor ==
    ASSUME MeterInv, CursorInv, [Next]_vars, ~overtaken, NEW d \in Durable', d <= cursor
    PROVE  d \in Durable
<1>1. d \in Events /\ ~(d <= 0)
  BY BoundsAssumption DEF Durable, Events
<1>2. cursor \in Durable
  BY <1>1 DEF CursorInv, MeterInv, LogFirst
<1> QED BY <1>2, RowsAbove

\* What is on the wire is durable.
LEMMA OnTheWire == ASSUME MeterInv, NEW i \in DOMAIN wire, NEW e \in wire[i].seqs PROVE e \in Durable
BY DEF MeterInv, LogFirst, OnWire

\* What happened stays on record.
LEMMA RecordStays == ASSUME [Next]_vars PROVE (overtaken => overtaken') /\ (skipped => skipped')
<1>1. ASSUME NEW e \in Events, Insert(e) \/ Abort(e) \/ Withhold(e)
      PROVE overtaken' = overtaken /\ skipped' = skipped
  BY <1>1 DEF Insert, Abort, Withhold
<1>2. ASSUME NEW e \in Events, Commit(e) \/ Publish(e) \/ Republish(e)
      PROVE (overtaken => overtaken') /\ skipped' = skipped
  <2>1. skipped' = skipped
    BY <1>2 DEF Commit, Publish, Republish
  <2>2. overtaken => overtaken'
    BY <1>2, Zenon DEF Commit, Publish, Republish, Overtakes
  <2> QED BY <2>1, <2>2
<1>3. CASE Handler \/ RefuseTicket \/ OpenFails \/ Follow \/ FetchFails \/ LoadOlder \/
      ReceiveEvent \/ ReceiveHello \/ UNCHANGED vars
  BY <1>3 DEF Handler, Follow, vars, ConsumeTicket, RoomAccess, ReadLastSeq, ReceiveEvent, ReceiveHello,
     ReadSpend, QueryBacklog, SendBacklog, RefuseTicket, OpenFails, FetchWindow, ShowWindow,
     FetchTicket, Dial, FetchFails, LoadOlder
<1>4. CASE ReceiveError \/ Break \/ Restart
  <2>1. overtaken' = overtaken
    BY <1>4 DEF ReceiveError, Break, Restart
  <2>2. skipped => skipped'
    BY <1>4, Zenon DEF ReceiveError, Break, Restart, Close
  <2> QED BY <2>1, <2>2
<1> QED BY <1>1, <1>2, <1>3, <1>4 DEF Next, Receive

-----------------------------------------------------------------------------
(* The order of what is sent. *)

\* The backlog is what was durable past the socket's cursor.
LEMMA BacklogStep ==
    ASSUME MeterInv, ReadInHand, [Next]_vars, ~overtaken, BacklogWhole PROVE BacklogWhole'
<1>1. CASE backlog' = backlog /\ after' = after
  <2>1. \A e \in backlog : e \in Durable
    BY DEF MeterInv, LogFirst
  <2>2. \A e \in Durable, d \in Durable' : d < e => d <= e
    BY BoundsAssumption DEF Durable, Events
  <2> QED BY <1>1, <2>1, <2>2, RowsAbove DEF BacklogWhole
<1>2. CASE backlog' = {}
  BY <1>2 DEF BacklogWhole
<1>3. CASE QueryBacklog
  <2>1. row' = row /\ after' = after /\ backlog' = {e \in Durable : e > after}
    BY <1>3 DEF QueryBacklog
  <2>2. Durable' = Durable
    BY <2>1 DEF Durable
  <2> QED BY <2>1, <2>2 DEF BacklogWhole
<1>4. CASE Dial
  <2>1. backlog' = backlog /\ socket = "none"
    BY <1>4 DEF Dial, MeterInv, TypeOK
  <2> QED BY <2>1 DEF ReadInHand, BacklogWhole
<1>5. (backlog' = backlog /\ after' = after) \/ backlog' = {} \/ QueryBacklog \/ Dial
  BY DEF Next, Handler, Follow, Receive, vars, Insert, Commit, Abort, Publish, Republish, Withhold,
     ConsumeTicket,
     RoomAccess, ReadLastSeq, ReadSpend, SendBacklog, RefuseTicket, OpenFails, FetchWindow, ShowWindow,
     FetchTicket, FetchFails, LoadOlder, ReceiveEvent, ReceiveHello, ReceiveError, Break, Restart,
       Close, server, client
<1> QED BY <1>1, <1>2, <1>3, <1>4, <1>5

\* The window is what was durable past the floor.
LEMMA WindowStep ==
    ASSUME MeterInv, [Next]_vars, ~overtaken, WindowWhole PROVE WindowWhole'
<1>1. CASE window' = window
  <2>1. \A e \in window : e \in Durable
    BY DEF MeterInv, LogFirst
  <2>2. \A e \in Durable, d \in Durable' : d < e => d <= e
    BY BoundsAssumption DEF Durable, Events
  <2> QED BY <1>1, <2>1, <2>2, RowsAbove DEF WindowWhole
<1>2. CASE window' = {}
  BY <1>2 DEF WindowWhole
<1>3. CASE FetchWindow
  <2>1. row' = row /\ window' = {e \in Durable : e > Floor}
    BY <1>3 DEF FetchWindow
  <2>2. Durable' = Durable
    BY <2>1 DEF Durable
  <2> QED BY <2>1, <2>2 DEF WindowWhole
<1>4. window' = window \/ window' = {} \/ FetchWindow
  BY DEF Next, Handler, Follow, Receive, vars, Insert, Commit, Abort, Publish, Republish, Withhold,
     ConsumeTicket,
     RoomAccess, ReadLastSeq, ReadSpend, SendBacklog, RefuseTicket, OpenFails, QueryBacklog,
       ShowWindow, Dial,
     FetchTicket, FetchFails, LoadOlder, ReceiveEvent, ReceiveHello, ReceiveError, Break, Restart,
       client
<1> QED BY <1>1, <1>2, <1>3, <1>4

\* The read of it is in hand until it is answered.
LEMMA ReadInHandStep == ASSUME TypeOK, ReadInHand, [Next]_vars PROVE ReadInHand'
<1>1. CASE backlog' = backlog /\ (socket' = socket \/ socket # "replay")
  BY <1>1 DEF ReadInHand
<1>2. CASE backlog' = {} \/ socket' = "replay"
  BY <1>2 DEF ReadInHand
<1>3. (backlog' = backlog /\ (socket' = socket \/ socket # "replay")) \/ backlog' = {} \/
      socket' = "replay"
  BY DEF Next, Handler, Follow, Receive, vars, Insert, Commit, Abort, Publish, Republish, Withhold,
     ConsumeTicket,
     RoomAccess, ReadLastSeq, ReadSpend, QueryBacklog, SendBacklog, RefuseTicket, OpenFails,
       FetchWindow, ShowWindow,
     FetchTicket, FetchFails, LoadOlder, Dial, ReceiveEvent, ReceiveHello, ReceiveError, Break,
       Restart, Close,
     SocketStep, server, client, TypeOK
<1> QED BY <1>1, <1>2, <1>3

\* The cursor goes on.
LEMMA OpenedBelowStep == ASSUME TypeOK, OpenedBelow, [Next]_vars PROVE OpenedBelow'
<1>1. CASE after' = after /\ cursor' = cursor /\ (page' = "up" => page = "up")
  BY <1>1 DEF OpenedBelow
<1>2. CASE page' # "up"
  BY <1>2 DEF OpenedBelow
<1>3. CASE Dial
  <2>1. after' = cursor' /\ cursor' \in Nat
    BY <1>3, BoundsAssumption DEF Dial, TypeOK
  <2> QED BY <2>1 DEF OpenedBelow
<1>4. CASE ReceiveEvent
  <2>1. PICK e \in Events : e = Lowest(Head(wire).seqs)
    BY <1>4, EventMoves
  <2>2. cursor' = cursor \/ (cursor' = e /\ e > cursor)
    BY <1>4, <2>1 DEF ReceiveEvent
  <2>3. after' = after /\ page' = page
    BY <1>4 DEF ReceiveEvent, server
  <2>4. after \in Nat /\ cursor \in Nat /\ e \in Nat
    BY BoundsAssumption DEF TypeOK, Events
  <2> QED BY <2>2, <2>3, <2>4 DEF OpenedBelow
<1>5. CASE Break \/ Restart
  BY <1>5 DEF Break, Restart, Close, OpenedBelow
<1>6. (after' = after /\ cursor' = cursor /\ (page' = "up" => page = "up")) \/ page' # "up" \/
      Dial \/ ReceiveEvent \/ Break \/ Restart
  BY DEF Next, Handler, Follow, Receive, vars, Insert, Commit, Abort, Publish, Republish, Withhold,
     ConsumeTicket,
     RoomAccess, ReadLastSeq, ReadSpend, QueryBacklog, SendBacklog, RefuseTicket, OpenFails,
       FetchWindow, ShowWindow,
     FetchTicket, FetchFails, LoadOlder, ReceiveHello, ReceiveError, SocketStep, server, client
<1> QED BY <1>1, <1>2, <1>3, <1>4, <1>5, <1>6

\* A step that sends nothing and owes no less.
LEMMA OrderKept ==
    ASSUME MeterInv, [Next]_vars, ~overtaken, LiveInOrder, FramesWhole, wire' = wire,
           after' = after, seen \subseteq seen',
           \A d \in Durable : d > after /\ Owes(d) => Owes(d)'
    PROVE  LiveInOrder' /\ FramesWhole'
<1>1. ASSUME NEW i \in DOMAIN wire, NEW e \in wire[i].seqs, NEW d \in Durable', d < e
      PROVE d \in Durable
  <2>1. e \in Durable
    BY OnTheWire
  <2>2. d <= e
    BY <1>1, <2>1, BoundsAssumption DEF Durable, Events
  <2> QED BY <2>1, <2>2, RowsAbove
<1>2. LiveInOrder'
  <2> SUFFICES ASSUME NEW i \in DOMAIN wire, NEW e \in Events, NEW d \in Durable',
                      wire[i].type = "live", e \in wire[i].seqs, d < e, d > after
               PROVE  \/ d \in seen' \/ (\E j \in DOMAIN wire : j < i /\ d \in wire[j].seqs)
                      \/ Owes(d)' \/ row'[d] = "silent"
    BY DEF LiveInOrder
  <2>1. d \in Durable /\ d \in Events
    BY <1>1 DEF Durable
  <2>2. row[d] = "silent" => row'[d] = "silent"
    BY <2>1, SilenceStays DEF MeterInv
  <2>3. d \in seen \/ (\E j \in DOMAIN wire : j < i /\ d \in wire[j].seqs) \/ Owes(d) \/
        row[d] = "silent"
    BY <2>1 DEF LiveInOrder
  <2> QED BY <2>1, <2>2, <2>3
<1>3. FramesWhole'
  BY <1>1 DEF FramesWhole
<1> QED BY <1>2, <1>3

\* Nor when the wire is empty.
LEMMA NothingLeft == ASSUME wire' = <<>> PROVE LiveInOrder' /\ FramesWhole'
<1>1. DOMAIN wire' = {}
  OBVIOUS
<1> QED BY <1>1 DEF LiveInOrder, FramesWhole

\* Nothing is replayed on a socket that is not there yet, and everything is owed.
LEMMA NothingSent ==
    ASSUME MeterInv, [Next]_vars, ~overtaken, FramesWhole, socket' \notin {"replay", "live"},
           wire' = <<>> \/ (/\ after' = after /\ seen \subseteq seen' /\ row' = row
                            /\ \E f \in Frames : wire' = Append(wire, f) /\ f.seqs = {})
    PROVE  LiveInOrder' /\ FramesWhole'
<1>1. LiveInOrder'
  BY DEF LiveInOrder, Owes
<1>2. CASE wire' = <<>>
  BY <1>2, NothingLeft
<1>3. ASSUME after' = after, seen \subseteq seen', row' = row, NEW f \in Frames,
             wire' = Append(wire, f), f.seqs = {} PROVE FramesWhole'
  <2>1. wire \in Seq(Frames) /\ Durable' = Durable
    BY <1>3 DEF MeterInv, TypeOK, Durable
  <2>2. \A i \in DOMAIN wire' : wire'[i].seqs = {} \/ (i \in DOMAIN wire /\ wire'[i] = wire[i])
    BY <1>3, <2>1, AppendAt
  <2> QED BY <1>3, <2>1, <2>2 DEF FramesWhole
<1> QED BY <1>1, <1>2, <1>3

\* A row goes on the bus behind those below it.
LEMMA FanInOrder ==
    ASSUME MeterInv, DeliveryInv, LiveInOrder, FramesWhole, [Next]_vars, ~overtaken, ~overtaken',
           NEW e \in Events, Publish(e) \/ Republish(e)
    PROVE  LiveInOrder' /\ FramesWhole' /\ \A d \in Durable : Owes(d) => Owes(d)'
<1> USE DEF MeterInv, TypeOK
<1>1. /\ Fan(e) /\ e \in Durable /\ \A d \in Events : d < e => row[d] \notin {"inserting", "committed"}
      /\ UNCHANGED <<socket, after, backlog, seen>>
  BY DEF Publish, Republish, Durable, Overtakes, server, client
<1> DEFINE f == Carry("live", {e})
<1>2. f \in Frames /\ f.seqs = {e} /\ f.type = "live"
  BY FrameTypes DEF Carry
<1>3. CASE socket \notin Subscribed
  <2>1. wire' = wire
    BY <1>1, <1>3 DEF Fan
  <2> QED BY <1>1, <2>1, OrderKept DEF Owes
<1>4. CASE socket \in Subscribed
  <2>1. wire' = Append(wire, f) /\ wire \in Seq(Frames)
    BY <1>1, <1>4, FanTypes
  <2> HIDE DEF f
  <2>2. /\ DOMAIN wire \subseteq Nat /\ Len(wire) + 1 \in DOMAIN wire' /\ wire'[Len(wire) + 1] = f
        /\ \A i \in DOMAIN wire : i \in DOMAIN wire' /\ wire'[i] = wire[i] /\ i < Len(wire) + 1
        /\ \A i \in DOMAIN wire' : i = Len(wire) + 1 \/ i \in DOMAIN wire
    BY <1>2, <2>1, AppendAt
  <2>3. \A d \in Durable : Owes(d) => Owes(d)'
    BY <1>1, <2>2 DEF Owes
  <2>4. ASSUME NEW i \in DOMAIN wire', NEW x \in wire'[i].seqs, NEW d \in Durable', d < x
        PROVE d \in Durable
    <3>1. x \in Durable
      BY <1>1, <1>2, <2>2, OnTheWire
    <3>2. d <= x
      BY <2>4, <3>1, BoundsAssumption DEF Durable, Events
    <3> QED BY <3>1, <3>2, RowsAbove
  <2>5. LiveInOrder'
    <3> SUFFICES ASSUME NEW i \in DOMAIN wire', NEW x \in Events, NEW d \in Durable',
                        wire'[i].type = "live", x \in wire'[i].seqs, d < x, d > after
                 PROVE  \/ d \in seen \/ (\E j \in DOMAIN wire' : j < i /\ d \in wire'[j].seqs)
                        \/ Owes(d)' \/ row'[d] = "silent"
      BY <1>1 DEF LiveInOrder
    <3>1. d \in Durable /\ d \in Events /\ (row[d] = "silent" => row'[d] = "silent")
      <4>1. d \in Durable /\ d \in Events
        BY <2>4 DEF Durable
      <4> QED BY <4>1, SilenceStays
    <3>2. CASE i \in DOMAIN wire
      <4>1. \/ d \in seen \/ (\E j \in DOMAIN wire : j < i /\ d \in wire[j].seqs)
            \/ Owes(d) \/ row[d] = "silent"
        BY <2>2, <3>1, <3>2 DEF LiveInOrder
      <4> QED BY <2>2, <2>3, <3>1, <4>1
    <3>3. CASE i = Len(wire) + 1 /\ row[d] # "silent"
      <4>1. x = e /\ row[d] \in {"published", "orphaned"}
        BY <1>1, <1>2, <2>2, <3>1, <3>3 DEF Durable
      <4>2. CASE socket \notin {"replay", "live"}
        BY <1>1, <4>2 DEF Owes
      <4>3. CASE socket \in {"replay", "live"}
        <5>1. d \in seen \cup OnWire \/ (socket = "replay" /\ d \in backlog)
          BY <3>1, <4>1, <4>3 DEF DeliveryInv, OpenSocketMissesNothing, ReplayMissesNothing
        <5>2. d \in OnWire => \E j \in DOMAIN wire : d \in wire[j].seqs
          BY DEF OnWire
        <5> QED BY <1>1, <2>2, <3>3, <5>1, <5>2 DEF Owes
      <4> QED BY <4>2, <4>3
    <3> QED BY <2>2, <3>1, <3>2, <3>3
  <2>6. FramesWhole'
    <3>1. \A i \in DOMAIN wire' : wire'[i].type = "replay" => i \in DOMAIN wire /\ wire'[i] = wire[i]
      BY <1>2, <2>2
    <3> QED BY <1>1, <2>4, <3>1 DEF FramesWhole
  <2> QED BY <2>3, <2>5, <2>6
<1> QED BY <1>3, <1>4

\* The answer brings what was read.
LEMMA AnswerInOrder ==
    ASSUME MeterInv, ReadInHand, LiveInOrder, FramesWhole, BacklogWhole, [Next]_vars, ~overtaken,
           SendBacklog
    PROVE  LiveInOrder' /\ FramesWhole' /\ \A d \in Durable : Owes(d) => Owes(d)'
<1> USE DEF MeterInv, TypeOK
<1>1. /\ socket = "replay" /\ socket' = "live" /\ backlog' = {} /\ UNCHANGED <<row, after, seen>>
      /\ wire' = IF backlog = {} THEN wire ELSE Append(wire, Carry("replay", backlog))
  BY DEF SendBacklog, SocketStep, Send, client
<1>2. Durable' = Durable
  BY <1>1 DEF Durable
<1>3. CASE backlog = {}
  <2>1. wire' = wire /\ \A d \in Durable : Owes(d) => Owes(d)'
    BY <1>1, <1>3 DEF Owes
  <2> QED BY <1>1, <2>1, OrderKept
<1>4. CASE backlog # {}
  <2> DEFINE f == Carry("replay", backlog)
  <2>1. f \in Frames /\ f.seqs = backlog /\ f.type = "replay"
    BY FrameTypes DEF Carry
  <2>2. wire' = Append(wire, f) /\ wire \in Seq(Frames)
    BY <1>1, <1>4
  <2> HIDE DEF f
  <2>3. /\ DOMAIN wire \subseteq Nat /\ Len(wire) + 1 \in DOMAIN wire' /\ wire'[Len(wire) + 1] = f
        /\ \A i \in DOMAIN wire : i \in DOMAIN wire' /\ wire'[i] = wire[i] /\ i < Len(wire) + 1
        /\ \A i \in DOMAIN wire' : i = Len(wire) + 1 \/ i \in DOMAIN wire
    BY <2>1, <2>2, AppendAt
  <2>4. \A d \in Durable : Owes(d) => Owes(d)'
    BY <1>1, <2>1, <2>3 DEF Owes
  <2>5. LiveInOrder'
    <3> SUFFICES ASSUME NEW i \in DOMAIN wire', NEW x \in Events, NEW d \in Durable,
                        wire'[i].type = "live", x \in wire'[i].seqs, d < x, d > after
                 PROVE  \/ d \in seen \/ (\E j \in DOMAIN wire' : j < i /\ d \in wire'[j].seqs)
                        \/ Owes(d)' \/ row[d] = "silent"
      BY <1>1, <1>2 DEF LiveInOrder
    <3>1. i \in DOMAIN wire /\ wire'[i] = wire[i]
      BY <2>1, <2>3
    <3>2. \/ d \in seen \/ (\E j \in DOMAIN wire : j < i /\ d \in wire[j].seqs)
          \/ Owes(d) \/ row[d] = "silent"
      BY <3>1 DEF LiveInOrder
    <3> QED BY <2>3, <2>4, <3>2
  <2>6. FramesWhole'
    <3> SUFFICES ASSUME NEW i \in DOMAIN wire', NEW x \in Events, NEW d \in Durable,
                        wire'[i].type = "replay", x \in wire'[i].seqs, d < x, d > after
                 PROVE  d \in seen \cup wire'[i].seqs
      BY <1>1, <1>2 DEF FramesWhole
    <3>1. CASE i \in DOMAIN wire
      BY <2>3, <3>1 DEF FramesWhole
    <3>2. CASE i = Len(wire) + 1
      BY <2>1, <2>3, <3>2 DEF BacklogWhole
    <3> QED BY <2>3, <3>1, <3>2
  <2> QED BY <2>4, <2>5, <2>6
<1> QED BY <1>3, <1>4

\* What is received is shown, in the order it was sent.
LEMMA ReceiptInOrder ==
    ASSUME MeterInv, LiveInOrder, FramesWhole, NEW by \in {0, 1}, NEW E, Moved(by, E),
           seen' = seen \cup E,
           UNCHANGED <<row, socket, after, backlog>>
    PROVE  LiveInOrder' /\ FramesWhole' /\ \A d \in Durable : Owes(d) => Owes(d)' \/ d \in seen'
<1>1. Durable' = Durable
  BY DEF Durable
<1>2. \A i \in DOMAIN wire' : /\ i \in Nat /\ i + by \in DOMAIN wire /\
                                 wire'[i].type = wire[i + by].type
                              /\ wire'[i].seqs \subseteq wire[i + by].seqs /\
                                 wire[i + by].seqs \subseteq wire'[i].seqs \cup E
  BY DEF Moved
<1>3. \A j \in DOMAIN wire : j \in Nat /\
      (wire[j].seqs \subseteq E \/ (j - by \in DOMAIN wire' /\ (j - by) + by = j))
  BY DEF Moved
<1>4. ASSUME NEW j \in DOMAIN wire, NEW d \in wire[j].seqs
      PROVE d \in E \/
        (j - by \in DOMAIN wire' /\ d \in wire'[j - by].seqs /\ wire'[j - by].type = wire[j].type)
  BY <1>2, <1>3, <1>4
<1>5. \A d \in Durable : Owes(d) => Owes(d)' \/ d \in seen'
  BY <1>4 DEF Owes
<1>6. LiveInOrder'
  <2> SUFFICES ASSUME NEW i \in DOMAIN wire', NEW x \in Events, NEW d \in Durable,
                      wire'[i].type = "live", x \in wire'[i].seqs, d < x, d > after
               PROVE  \/ d \in seen' \/ (\E j \in DOMAIN wire' : j < i /\ d \in wire'[j].seqs)
                      \/ Owes(d)' \/ row[d] = "silent"
    BY <1>1 DEF LiveInOrder
  <2>1. \/ d \in seen \/ (\E j \in DOMAIN wire : j < i + by /\ d \in wire[j].seqs)
        \/ Owes(d) \/ row[d] = "silent"
    BY <1>2 DEF LiveInOrder
  <2>2. ASSUME NEW j \in DOMAIN wire, j < i + by, d \in wire[j].seqs
        PROVE d \in E \/ \E k \in DOMAIN wire' : k < i /\ d \in wire'[k].seqs
    <3>1. j - by < i
      BY <1>2, <1>3, <2>2
    <3> QED BY <1>4, <2>2, <3>1
  <2> QED BY <1>5, <2>1, <2>2
<1>7. FramesWhole'
  <2> SUFFICES ASSUME NEW i \in DOMAIN wire', NEW x \in Events, NEW d \in Durable,
                      wire'[i].type = "replay", x \in wire'[i].seqs, d < x, d > after
               PROVE  d \in seen' \cup wire'[i].seqs
    BY <1>1 DEF FramesWhole
  <2>1. d \in seen \cup wire[i + by].seqs
    BY <1>2 DEF FramesWhole
  <2> QED BY <1>2, <2>1
<1> QED BY <1>5, <1>6, <1>7

\* So the order is kept.
LEMMA WholeStep ==
    ASSUME Known, [Next]_vars, ~overtaken' PROVE Whole'
<1>1. ~overtaken /\ Whole /\ ReadInHand /\ MeterInv /\ DeliveryInv
  BY RecordStays DEF Known, GapInv
<1>2. BacklogWhole' /\ WindowWhole'
  BY <1>1, BacklogStep, WindowStep DEF Whole
<1> DEFINE Ordered == LiveInOrder' /\ FramesWhole'
<1> USE DEF Whole
<1> SUFFICES Ordered
  BY <1>2
<1>3. ASSUME NEW e \in Events, Insert(e) \/ Commit(e) \/ Abort(e) \/ Withhold(e) PROVE Ordered
  BY <1>1, <1>3, OrderKept DEF Insert, Commit, Abort, Withhold, Owes, server, client
<1>4. ASSUME NEW e \in Events, Publish(e) \/ Republish(e) PROVE Ordered
  BY <1>1, <1>4, FanInOrder
<1>5. CASE ConsumeTicket \/ RoomAccess \/ ReadLastSeq \/ OpenFails
  BY <1>1, <1>5, OrderKept DEF ConsumeTicket, RoomAccess, ReadLastSeq, OpenFails, SocketStep, Owes,
     client
<1>6. CASE QueryBacklog
  BY <1>1, <1>6, OrderKept DEF QueryBacklog, SocketStep, Owes, client
<1>7. CASE SendBacklog
  BY <1>1, <1>7, AnswerInOrder
<1>8. CASE ReadSpend
  <2>1. Hello(helloSeq, Durable \cap Costly) \in Frames
    BY <1>1, FrameTypes DEF MeterInv, TypeOK
  <2> QED BY <1>1, <1>8, <2>1, NothingSent DEF ReadSpend, SocketStep, Send, Hello, client
<1>9. CASE RefuseTicket
  BY <1>1, <1>9, FrameTypes, NothingSent DEF RefuseTicket, SocketStep, Send, Error, client
<1>10. CASE FetchWindow \/ FetchFails \/ FetchTicket \/ LoadOlder \/ UNCHANGED vars
  BY <1>1, <1>10, OrderKept DEF FetchWindow, FetchFails, FetchTicket, LoadOlder, vars, server,
     client, Owes
<1>11. CASE ShowWindow \/ Dial \/ Break \/ Restart
  <2>1. wire' = <<>>
    BY <1>1, <1>11 DEF ShowWindow, Dial, Break, Restart, Close, MeterInv, WireOK
  <2> QED BY <2>1, NothingLeft
<1>12. CASE ReceiveEvent
  <2>1. UNCHANGED <<row, socket, after, backlog>>
    BY <1>12 DEF ReceiveEvent, server
  <2>2. PICK by \in {0, 1}, e \in Events : Moved(by, {e}) /\ seen' = seen \cup {e}
    BY <1>1, <1>12, EventMoves DEF MeterInv
  <2> QED BY <1>1, <2>1, <2>2, ReceiptInOrder
<1>13. CASE ReceiveHello \/ ReceiveError
  <2>1. UNCHANGED <<row, socket, after, backlog>> /\ seen' = seen \cup {}
    BY <1>13 DEF ReceiveHello, ReceiveError, server
  <2>2. Moved(1, {})
    BY <1>1, <1>13, NothingMoves DEF MeterInv
  <2> QED BY <1>1, <2>1, <2>2, ReceiptInOrder
<1> QED BY <1>3, <1>4, <1>5, <1>6, <1>7, <1>8, <1>9, <1>10, <1>11, <1>12, <1>13
    DEF Next, Handler, Follow, Receive

-----------------------------------------------------------------------------
(* What the page can still come by. *)

\* The rows of an older page are the highest below the oldest shown, so what it leaves out is below
\* them all.
LEMMA OlderPageIsHighest ==
    ASSUME TypeOK, NEW d \in Durable, d < oldest, d \notin OlderPage
    PROVE  OlderPage # {} /\ \A e \in OlderPage : d < e
<1> DEFINE Between(e) == {c \in Durable : e < c /\ c < oldest}
           Below == {c \in Durable : c < oldest}
<1>1. Durable \subseteq Events /\ Events \subseteq Nat /\ IsFiniteSet(Events) /\
      PageSize \in Nat \ {0} /\ oldest \in Nat
  BY BoundsAssumption, FS_Interval DEF TypeOK, Events, Durable
<1>2. \A e : IsFiniteSet(Between(e)) /\ Cardinality(Between(e)) \in Nat
  <2>1. \A e : Between(e) \subseteq Events
    BY <1>1
  <2> QED BY <1>1, <2>1, FS_Subset, FS_CardinalityType
<1>3. \A e : e \in OlderPage <=> e \in Durable /\ e < oldest /\ Cardinality(Between(e)) < PageSize
  BY DEF OlderPage
<1>4. OlderPage # {}
  <2>1. Below \in SUBSET Events /\ Below # {}
    BY <1>1
  <2> DEFINE n == Newest(Below)
  <2>2. n \in Below /\ \A c \in Below : c <= n
    BY <2>1, NewestIsGreatest
  <2> HIDE DEF n
  <2>3. Between(n) = {}
    <3> SUFFICES ASSUME NEW c \in Between(n) PROVE FALSE
      OBVIOUS
    <3>1. c \in Below /\ n < c /\ c \in Nat /\ n \in Nat
      BY <1>1, <2>2
    <3> QED BY <2>2, <3>1
  <2>4. Cardinality(Between(n)) = 0
    BY <2>3, FS_EmptySet
  <2>5. n \in OlderPage
    BY <1>1, <1>3, <2>2, <2>4
  <2> QED BY <2>5
<1>5. ASSUME NEW e \in OlderPage, ~(d < e) PROVE FALSE
  <2>1. e \in Durable /\ Cardinality(Between(e)) < PageSize
    BY <1>3
  <2> SUFFICES ASSUME e <= d PROVE FALSE
    <3>1. e \in Nat /\ d \in Nat
      BY <1>1, <2>1
    <3> QED BY <1>5, <3>1
  <2>2. Between(d) \subseteq Between(e)
    <3>1. \A c \in Durable : c \in Nat /\ (d < c => e < c)
      BY <1>1, <2>1
    <3> QED BY <3>1
  <2>3. Cardinality(Between(d)) <= Cardinality(Between(e))
    BY <1>2, <2>2, FS_Subset
  <2>4. ~(Cardinality(Between(d)) < PageSize)
    BY <1>3
  <2> HIDE DEF Between
  <2> QED BY <1>1, <1>2, <2>1, <2>3, <2>4
<1> QED BY <1>4, <1>5

\* A step after which the page has no less, and is owed no less.
LEMMA StillAccounted ==
    ASSUME MeterInv, CursorInv, [Next]_vars, ~overtaken, AllAccounted,
           UNCHANGED <<cursor, oldest, hasOlder>>, seen \subseteq seen',
           page # "up" \/ (/\ UNCHANGED <<page, after, ahead>>
                           /\ \A d \in Durable : d > after /\ Owes(d) => Owes(d)' \/ d \in seen')
    PROVE  AllAccounted'
<1> SUFFICES ASSUME NEW d \in Durable', d <= cursor PROVE Accounted(d)'
  BY DEF AllAccounted
<1>1. d \in Durable
  BY RowsAboveCursor
<1>2. Accounted(d) /\ (row[d] = "silent" => row'[d] = "silent")
  <2>1. Accounted(d) /\ d \in Events /\ TypeOK
    BY <1>1 DEF AllAccounted, MeterInv, Durable
  <2> QED BY <2>1, SilenceStays
<1> QED BY <1>1, <1>2 DEF Accounted

\* A connection ends, and was not ahead of its replay.
LEMMA EndAccounted ==
    ASSUME MeterInv, CursorInv, [Next]_vars, ~overtaken, AllAccounted,
           UNCHANGED <<seen, cursor, oldest, hasOlder>>,
           page = "up" /\ ahead => ~ReplayPending
    PROVE  AllAccounted'
<1> SUFFICES ASSUME NEW d \in Durable', d <= cursor PROVE Accounted(d)'
  BY DEF AllAccounted
<1>1. d \in Durable
  BY RowsAboveCursor
<1>2. Accounted(d) /\ (row[d] = "silent" => row'[d] = "silent")
  <2>1. Accounted(d) /\ d \in Events /\ TypeOK
    BY <1>1 DEF AllAccounted, MeterInv, Durable
  <2> QED BY <2>1, SilenceStays
<1>3. page = "up" /\ Owes(d) => ReplayPending
  BY DEF Owes, ReplayPending
<1> QED BY <1>2, <1>3 DEF Accounted

\* The page shows its window: what is durable and not in it is older.
LEMMA WindowAccounted ==
    ASSUME MeterInv, WindowWhole, ShowWindow PROVE AllAccounted'
<1>1. /\ seen' = window /\ cursor' = Newest(window) /\ oldest' = Lowest(window) /\ row' = row
      /\ hasOlder' = (window # {} /\ \E d \in Durable : d < Lowest(window))
  BY DEF ShowWindow
<1>2. Durable' = Durable /\ Durable \subseteq Events /\ Events \subseteq Nat /\
      window \subseteq Durable /\ Floor \in Nat
      /\ \A e \in Events : ~(e <= 0)
  BY <1>1, BoundsAssumption, FloorAssumption DEF Durable, Events, MeterInv, LogFirst
<1> SUFFICES ASSUME NEW d \in Durable, d <= Newest(window)
             PROVE d \in window \/ (d < oldest' /\ hasOlder')
  BY <1>1, <1>2 DEF AllAccounted, Accounted
<1>3. window # {}
  BY <1>2 DEF Newest
<1>4. Newest(window) \in window /\ Lowest(window) \in window
  BY <1>2, <1>3, NewestIsGreatest, LowestIsLeast
<1> DEFINE n == Newest(window)
           m == Lowest(window)
<1> HIDE DEF n, m
<1>5. n \in window /\ m \in window /\ n \in Nat /\ m \in Nat /\ d \in Nat /\ d <= n /\ m > Floor
  BY <1>2, <1>4 DEF n, m, WindowWhole
<1>6. CASE d > Floor
  <2>1. d = n \/ d < n
    BY <1>5
  <2> QED BY <1>5, <1>6, <2>1 DEF WindowWhole
<1>7. CASE ~(d > Floor)
  <2>1. d < m
    BY <1>2, <1>5, <1>7
  <2> QED BY <1>1, <1>3, <2>1 DEF m
<1> QED BY <1>6, <1>7

\* An older page moves the oldest shown over what it shows.
LEMMA OlderAccounted ==
    ASSUME MeterInv, AllAccounted, LoadOlder PROVE AllAccounted'
<1> DEFINE fresh == OlderPage \ seen
<1>1. /\ seen' = seen \cup fresh /\ oldest' = (IF fresh = {} THEN oldest ELSE Lowest(fresh)) /\ hasOlder
      /\ hasOlder' = (OlderPage # {} /\ \E d \in Durable : d < Lowest(OlderPage))
      /\ UNCHANGED <<row, server, wire, page, cursor, ahead>>
  BY DEF LoadOlder
<1>2. Durable' = Durable /\ Durable \subseteq Events /\ OlderPage \subseteq Durable
  BY <1>1 DEF Durable, OlderPage
<1> SUFFICES ASSUME NEW d \in Durable, Accounted(d) PROVE Accounted(d)'
  BY <1>1, <1>2 DEF AllAccounted
<1>3. Owes(d)' <=> Owes(d)
  BY <1>1 DEF Owes, server
<1>4. CASE d \in seen
  BY <1>1, <1>4 DEF Accounted
<1>5. CASE page = "up" /\ ahead /\ d > after /\ Owes(d)
  BY <1>1, <1>3, <1>5 DEF Accounted, server
<1>6. CASE d < oldest /\ d \in OlderPage
  BY <1>1, <1>6 DEF Accounted
<1>7. CASE d < oldest /\ d \notin OlderPage
  <2>1. OlderPage # {} /\ \A e \in OlderPage : d < e
    BY <1>7, OlderPageIsHighest DEF MeterInv
  <2>2. Lowest(OlderPage) \in OlderPage /\ (fresh # {} => Lowest(fresh) \in fresh)
    BY <1>2, <2>1, LowestIsLeast
  <2> QED BY <1>1, <1>7, <2>1, <2>2 DEF Accounted
<1>8. CASE row[d] = "silent"
  BY <1>1, <1>8 DEF Accounted
<1> QED BY <1>4, <1>5, <1>6, <1>7, <1>8 DEF Accounted

\* The cursor goes on to an event: those it passes are shown, or still owed by a connection that is
\* now ahead.
LEMMA EventAccounted ==
    ASSUME Known, CursorInv, [Next]_vars, ~overtaken, ~skipped, ReceiveEvent PROVE AllAccounted'
<1>1. MeterInv /\ Whole /\ AllAccounted /\ after <= cursor /\ TypeOK /\ WireOK
  BY DEF Known, GapInv, MeterInv, OpenedBelow, ReceiveEvent
<1>2. /\ UNCHANGED <<row, socket, after, backlog, page, oldest, hasOlder>> /\ page = "up"
      /\ (ahead => ahead') /\ (Head(wire).type = "live" /\ ReplayPending => ahead')
  BY DEF ReceiveEvent, server
<1>3. PICK by \in {0, 1}, e \in Events :
         /\ Moved(by, {e}) /\ seen' = seen \cup {e} /\ e = Lowest(Head(wire).seqs)
         /\ 1 \in DOMAIN wire /\ Head(wire) = wire[1] /\ e \in wire[1].seqs /\
            \A d \in wire[1].seqs : e <= d
  BY <1>1, EventMoves
<1>4. cursor' = cursor \/ cursor' = e
  BY <1>3 DEF ReceiveEvent
<1>5. \A d \in Durable : Owes(d) => Owes(d)' \/ d \in seen'
  BY <1>1, <1>2, <1>3, ReceiptInOrder DEF Whole
<1>6. Durable' = Durable /\ Durable \subseteq Events /\ Events \subseteq Nat /\ cursor \in Nat /\
      after \in Nat /\ DOMAIN wire \subseteq Nat \ {0}
  BY <1>1, <1>2, BoundsAssumption DEF Durable, Events, TypeOK
<1> SUFFICES ASSUME NEW d \in Durable, d <= cursor' PROVE Accounted(d)'
  BY <1>6 DEF AllAccounted
<1>7. CASE d <= cursor
  <2>1. Accounted(d)
    BY <1>1, <1>7 DEF AllAccounted
  <2> QED BY <1>2, <1>3, <1>5, <2>1 DEF Accounted
<1>8. CASE ~(d <= cursor) /\ d = e
  BY <1>3, <1>8 DEF Accounted
<1>9. CASE ~(d <= cursor) /\ d # e
  <2>1. d < e /\ d > after
    BY <1>1, <1>4, <1>6, <1>9
  <2>2. wire[1].type \in {"live", "replay"}
    <3>1. wire[1].type \in {"hello", "live", "replay", "error"}
      <4>1. wire[1] \in Frames
        BY <1>1, <1>3 DEF TypeOK
      <4> QED BY <4>1 DEF Frames
    <3> QED BY <1>1, <1>3, <3>1 DEF WireOK
  <2>3. CASE wire[1].type = "replay"
    <3>1. d \in seen \cup wire[1].seqs
      BY <1>1, <1>3, <2>1, <2>3 DEF Whole, FramesWhole
    <3>2. d \notin wire[1].seqs
      BY <1>3, <1>6, <2>1
    <3> QED BY <1>3, <3>1, <3>2 DEF Accounted
  <2>4. CASE wire[1].type = "live"
    <3>1. \/ d \in seen \/ (\E j \in DOMAIN wire : j < 1 /\ d \in wire[j].seqs)
          \/ Owes(d) \/ row[d] = "silent"
      BY <1>1, <1>3, <2>1, <2>4 DEF Whole, LiveInOrder
    <3>2. d \in seen \/ Owes(d) \/ row[d] = "silent"
      BY <1>6, <3>1
    <3>3. Owes(d) => ReplayPending
      BY <1>2 DEF Owes, ReplayPending
    <3> QED BY <1>2, <1>3, <1>5, <2>1, <2>4, <3>2, <3>3 DEF Accounted
  <2> QED BY <2>2, <2>3, <2>4
<1> QED BY <1>7, <1>8, <1>9

\* Every step leaves all of it accounted for.
LEMMA AccountedStep ==
    ASSUME Known, CursorInv, [Next]_vars, ~overtaken', ~skipped' PROVE AllAccounted'
<1>1. ~overtaken /\ ~skipped /\ Whole /\ AllAccounted /\ ReadInHand /\ MeterInv /\ DeliveryInv
  BY RecordStays DEF Known, GapInv
<1>2. ASSUME NEW e \in Events, Insert(e) \/ Commit(e) \/ Abort(e) \/ Withhold(e)
      PROVE AllAccounted'
  BY <1>1, <1>2, StillAccounted DEF Insert, Commit, Abort, Withhold, Owes, server, client
<1>3. ASSUME NEW e \in Events, Publish(e) \/ Republish(e) PROVE AllAccounted'
  <2>1. \A d \in Durable : Owes(d) => Owes(d)'
    BY <1>1, <1>3, FanInOrder DEF Whole
  <2>2. UNCHANGED <<page, after, ahead, cursor, oldest, hasOlder, seen>>
    BY <1>3 DEF Publish, Republish, server, client
  <2> QED BY <1>1, <2>1, <2>2, StillAccounted
<1>4. CASE ConsumeTicket \/ RoomAccess \/ ReadLastSeq \/ OpenFails
  BY <1>1, <1>4, StillAccounted DEF ConsumeTicket, RoomAccess, ReadLastSeq, OpenFails, SocketStep,
     Owes, Opening, client
<1>5. CASE ReadSpend \/ RefuseTicket
  BY <1>1, <1>5, StillAccounted DEF ReadSpend, RefuseTicket, SocketStep, Owes, client
<1>6. CASE QueryBacklog
  BY <1>1, <1>6, StillAccounted DEF QueryBacklog, SocketStep, Owes, client
<1>7. CASE SendBacklog
  <2>1. \A d \in Durable : Owes(d) => Owes(d)'
    BY <1>1, <1>7, AnswerInOrder DEF Whole
  <2>2. UNCHANGED <<page, after, ahead, cursor, oldest, hasOlder, seen>>
    BY <1>7 DEF SendBacklog, client
  <2> QED BY <1>1, <2>1, <2>2, StillAccounted
<1>8. CASE FetchWindow \/ FetchFails \/ FetchTicket \/ UNCHANGED vars
  BY <1>1, <1>8, StillAccounted DEF FetchWindow, FetchFails, FetchTicket, vars, server, client, Owes
<1>9. CASE ShowWindow
  BY <1>1, <1>9, WindowAccounted DEF Whole
<1>10. CASE LoadOlder
  BY <1>1, <1>10, OlderAccounted
<1>11. CASE Dial
  BY <1>1, <1>11, StillAccounted DEF Dial
<1>12. CASE ReceiveEvent
  BY <1>1, <1>12, EventAccounted
<1>13. CASE ReceiveHello
  <2>1. UNCHANGED <<row, socket, after, backlog, page, ahead, cursor, oldest, hasOlder, seen>> /\
        seen' = seen \cup {}
    BY <1>13 DEF ReceiveHello, server
  <2>2. Moved(1, {})
    BY <1>1, <1>13, NothingMoves DEF MeterInv
  <2>3. \A d \in Durable : Owes(d) => Owes(d)' \/ d \in seen'
    BY <1>1, <2>1, <2>2, ReceiptInOrder DEF Whole
  <2> QED BY <1>1, <2>1, <2>3, StillAccounted
<1>14. CASE ReceiveError \/ Break \/ Restart
  <2>1. UNCHANGED <<seen, cursor, oldest, hasOlder>> /\ (page = "up" /\ ahead => ~ReplayPending)
    BY <1>1, <1>14 DEF ReceiveError, Break, Restart, Close, server
  <2> QED BY <1>1, <2>1, EndAccounted
<1> QED BY <1>2, <1>3, <1>4, <1>5, <1>6, <1>7, <1>8, <1>9, <1>10, <1>11, <1>12, <1>13, <1>14
    DEF Next, Handler, Follow, Receive

\* It starts with no cursor and nothing sent.
LEMMA GapInit == Init => GapInv
<1> SUFFICES ASSUME Init PROVE GapInv
  OBVIOUS
<1>1. OpenedBelow /\ ReadInHand /\ LiveInOrder /\ FramesWhole /\ BacklogWhole /\ WindowWhole
  BY DEF Init, OpenedBelow, ReadInHand, LiveInOrder, FramesWhole, BacklogWhole, WindowWhole
<1>2. \A d \in Durable : ~(d <= cursor)
  BY BoundsAssumption DEF Init, Durable, Events
<1> QED BY <1>1, <1>2 DEF GapInv, Whole, AllAccounted

\* And is kept.
LEMMA GapStep == Known /\ CursorInv /\ [Next]_vars => GapInv'
<1> SUFFICES ASSUME Known, CursorInv, [Next]_vars PROVE GapInv'
  OBVIOUS
<1>1. TypeOK /\ OpenedBelow /\ ReadInHand
  BY DEF Known, MeterInv, GapInv
<1>2. OpenedBelow' /\ ReadInHand'
  BY <1>1, OpenedBelowStep, ReadInHandStep
<1>3. ~overtaken' => Whole'
  BY WholeStep
<1>4. ~overtaken' /\ ~skipped' => AllAccounted'
  BY AccountedStep
<1> QED BY <1>2, <1>3, <1>4 DEF GapInv

\* The cursor passes no event that the page cannot show or page in, for any rows, lost connections,
\* restarts and older pages, unless rows overtook each other, a connection that was ahead of its
\* replay ended before it, or nobody published the event (server.ts:2065-2188, Room.tsx: lastSeqRef
\* and oldestSeqRef).
THEOREM GapsHaveACauseHolds == Spec => []GapsHaveACause
<1>1. Init => LogFirst /\ InOrder /\ CursorInv /\ GapInv /\ OpenSocketMissesNothing /\
      ReplayMissesNothing
  BY MeterInit, GapInit DEF Init, CursorInv, OpenSocketMissesNothing, ReplayMissesNothing
<1>2. TypeOK /\ WireOK /\ LogFirst /\ InOrder /\ CursorInv /\ GapInv /\ OpenSocketMissesNothing /\
      ReplayMissesNothing /\ [Next]_vars
         => LogFirst' /\ InOrder' /\ CursorInv' /\ GapInv' /\ OpenSocketMissesNothing' /\
           ReplayMissesNothing'
  <2> SUFFICES ASSUME TypeOK, WireOK, LogFirst, InOrder, CursorInv, GapInv, OpenSocketMissesNothing,
                      ReplayMissesNothing, [Next]_vars
               PROVE  LogFirst' /\ InOrder' /\ CursorInv' /\ GapInv' /\ OpenSocketMissesNothing' /\
                 ReplayMissesNothing'
    OBVIOUS
  <2>1. MeterInv /\ DeliveryInv
    BY DEF MeterInv, DeliveryInv
  <2>2. Known
    BY <2>1 DEF Known
  <2> QED BY <2>1, <2>2, LogFirstStep, InOrderStep, CursorStep, DeliveryStep, GapStep
<1>3. GapInv => GapsHaveACause
  <2> SUFFICES ASSUME GapInv, ~overtaken, ~skipped, NEW d \in Durable, d <= cursor
               PROVE  \/ d \in seen \/ (d < oldest /\ hasOlder)
                      \/ (ReplayPending /\ ahead /\ d > after) \/ row[d] = "silent"
    BY DEF GapsHaveACause
  <2>1. Accounted(d)
    BY DEF GapInv, AllAccounted
  <2>2. page = "up" /\ Owes(d) => ReplayPending
    BY DEF Owes, ReplayPending
  <2> QED BY <2>1, <2>2 DEF Accounted
<1>4. Spec => [](TypeOK /\ WireOK)
  BY Types
<1> QED BY <1>1, <1>2, <1>3, <1>4, PTL DEF Spec

-----------------------------------------------------------------------------
(* What a page makes of the events it holds. *)

\* Events that come once each, and events in order.
Once(E) == \A i, j \in DOMAIN E : E[i] = E[j] => i = j
Ascends(E) == \A i, j \in DOMAIN E : i < j => E[i] < E[j]
Held(E) == {E[i] : i \in DOMAIN E}

\* A sort keeps the events and puts them in order.
LEMMA SortedAscends ==
    ASSUME NEW E \in Seq(Nat), Once(E)
    PROVE  /\ DOMAIN Sorted(E) = DOMAIN E /\ Held(Sorted(E)) = Held(E)
           /\ Ascends(Sorted(E))
<1> DEFINE D == DOMAIN E
           Low(i) == {j \in D : Before(E, j, i)}
           F == [i \in D |-> Place(E, i)]
<1>1. /\ Len(E) \in Nat /\ D = 1..Len(E) /\ D \subseteq Nat /\ IsFiniteSet(D) /\ Cardinality(D) = Len(E)
      /\ \A i \in D : E[i] \in Nat
  <2>1. Len(E) \in Nat /\ D = 1..Len(E) /\ \A i \in D : E[i] \in Nat
    BY LenProperties
  <2>2. IsFiniteSet(1..Len(E)) /\ Cardinality(1..Len(E)) = Len(E)
    <3> DEFINE n == Len(E)
               c == Cardinality(1..n)
    <3>1. n \in Int /\ 1 \in Int /\ n \in Nat
      BY <2>1
    <3> HIDE DEF n
    <3>2. IsFiniteSet(1..n) /\ c = IF 1 > n THEN 0 ELSE n - 1 + 1
      BY <3>1, FS_Interval
    <3> HIDE DEF c
    <3>3. c = n
      BY <3>1, <3>2
    <3> QED BY <3>2, <3>3 DEF c, n
  <2> QED BY <2>1, <2>2
<1>2. \A i, j \in D : Before(E, j, i) <=> E[j] < E[i]
  BY <1>1 DEF Once, Before
<1>3. \A i \in D : Low(i) \subseteq D \ {i} /\ IsFiniteSet(Low(i)) /\ Cardinality(Low(i)) \in Nat /\
      Cardinality(Low(i)) <= Len(E) - 1
  <2> SUFFICES ASSUME NEW i \in D
               PROVE  Low(i) \subseteq D \ {i} /\ IsFiniteSet(Low(i)) /\
                 Cardinality(Low(i)) \in Nat /\ Cardinality(Low(i)) <= Len(E) - 1
    OBVIOUS
  <2>1. Low(i) \subseteq D \ {i}
    BY <1>1, <1>2
  <2>2. IsFiniteSet(D \ {i}) /\ Cardinality(D \ {i}) = Len(E) - 1
    BY <1>1, FS_RemoveElement
  <2> HIDE DEF Low
  <2> QED BY <2>1, <2>2, FS_Subset, FS_CardinalityType
<1>4. \A i \in D : F[i] = 1 + Cardinality(Low(i))
  BY DEF Place
<1>5. \A i, j \in D : E[i] < E[j] => F[i] < F[j]
  <2> SUFFICES ASSUME NEW i \in D, NEW j \in D, E[i] < E[j] PROVE F[i] < F[j]
    OBVIOUS
  <2>1. Low(i) \subseteq Low(j) /\ i \in Low(j) /\ i \notin Low(i)
    BY <1>1, <1>2
  <2>2. Cardinality(Low(i)) <= Cardinality(Low(j)) /\
        (Cardinality(Low(i)) = Cardinality(Low(j)) => Low(i) = Low(j))
    <3> HIDE DEF Low
    <3> QED BY <1>3, <2>1, FS_Subset
  <2> HIDE DEF Low, F
  <2> QED BY <1>3, <1>4, <2>1, <2>2
<1>6. \A i, j \in D : (F[i] = F[j] => i = j) /\ (F[i] < F[j] => E[i] < E[j])
  <2> SUFFICES ASSUME NEW i \in D, NEW j \in D
               PROVE (F[i] = F[j] => i = j) /\ (F[i] < F[j] => E[i] < E[j])
    OBVIOUS
  <2>1. E[i] < E[j] \/ E[j] < E[i] \/ i = j
    BY <1>1 DEF Once
  <2>2. F[i] \in Nat /\ F[j] \in Nat
    <3> HIDE DEF Low, F
    <3> QED BY <1>3, <1>4
  <2> HIDE DEF F
  <2> QED BY <1>5, <2>1, <2>2
<1>7. ASSUME NEW k \in D PROVE \E i \in D : F[i] = k
  <2> SUFFICES ASSUME \A i \in D : F[i] # k PROVE FALSE
    OBVIOUS
  <2> DEFINE T == D \ {k}
  <2>1. IsFiniteSet(T) /\ Cardinality(T) = Len(E) - 1
    BY <1>1, FS_RemoveElement
  <2>2. \A i \in D : F[i] \in T
    <3>1. ASSUME NEW i \in D PROVE F[i] \in 1..Len(E)
      <4> DEFINE c == Cardinality(Low(i))
      <4>1. c \in Nat /\ c <= Len(E) - 1 /\ F[i] = 1 + c
        BY <1>3, <1>4
      <4> HIDE DEF c, F
      <4> QED BY <1>1, <4>1
    <3> HIDE DEF F
    <3> QED BY <1>1, <3>1
  <2>3. F \in [D -> T] /\ Cardinality(T) < Cardinality(D)
    BY <1>1, <2>1, <2>2
  <2> HIDE DEF F, T, D
  <2>4. \E i, j \in D : i # j /\ F[i] = F[j]
    BY <1>1, <2>1, <2>3, FS_PigeonHole
  <2> QED BY <1>6, <2>4
<1> DEFINE at(k) == CHOOSE i \in D : Place(E, i) = k
<1>8. \A k \in D : at(k) \in D /\ F[at(k)] = k /\ Sorted(E)[k] = E[at(k)]
  BY <1>7 DEF Sorted
<1>9. DOMAIN Sorted(E) = D
  BY DEF Sorted
<1>10. \A i \in D : F[i] \in D
  <2> HIDE DEF Low, F
  <2> QED BY <1>1, <1>3, <1>4
<1> HIDE DEF F, Low, at
<1>11. Held(Sorted(E)) = Held(E)
  <2>1. \A i \in D : at(F[i]) = i
    BY <1>6, <1>8, <1>10
  <2> QED BY <1>8, <1>9, <1>10, <2>1 DEF Held
<1>12. Ascends(Sorted(E))
  BY <1>6, <1>8, <1>9 DEF Ascends
<1> QED BY <1>9, <1>11, <1>12

\* Some events in any order.
LEMMA SetInSome ==
    ASSUME NEW S \in SUBSET Nat, IsFiniteSet(S)
    PROVE  SetToSeq(S) \in Seq(S) /\ Once(SetToSeq(S))
<1> DEFINE n == Cardinality(S)
<1>1. n \in Nat /\ ExistsBijection(1..n, S)
  BY FS_CardinalityType
<1>2. \E f \in [1..n -> S] : IsInjective(f)
  BY <1>1 DEF ExistsBijection, Bijection, Injection, IsInjective
<1>3. SetToSeq(S) \in [1..n -> S] /\ IsInjective(SetToSeq(S))
  BY <1>2 DEF SetToSeq
<1> HIDE DEF n
<1>4. SetToSeq(S) \in Seq(S)
  BY <1>1, <1>3, SeqDef
<1> QED BY <1>3, <1>4 DEF Once, IsInjective

\* The fold of the first k events of E.
ItemsOf(E) == FoldLeft(LAMBDA items, n : FoldedIn(items, record[n]), <<>>, E)
Folds(g, E) == g[0] = <<>> /\ \A k \in 1..Len(E) : g[k] = FoldedIn(g[k - 1], record[E[k]])

\* A function that folds the sets of the first k places.
FoldsUpTo(f, E, k) ==
    /\ f = [s \in SUBSET (1..Len(E)) |-> f[s]]
    /\ \A s \in SUBSET (1..k) : f[s] = IF s = {} THEN <<>> ELSE FoldedIn(f[s \ {Max(s)}], record[E[Max(s)]])

\* The last of some places.
LEMMA MaxIsLast == ASSUME NEW k \in Nat, NEW s \in SUBSET (1..k), s # {}
    PROVE Max(s) \in s /\ \A i \in s : i <= Max(s)
<1> DEFINE T == {k - i : i \in s}
<1>1. T \in SUBSET Nat /\ T # {}
  <2>1. \A i \in s : k - i \in Nat
    OBVIOUS
  <2> QED BY <2>1
<1> HIDE DEF T
<1>2. PICK t \in T : \A u \in T : t <= u
  BY <1>1, LeastNumber
<1> USE DEF T
<1>3. PICK m \in s : t = k - m
  BY <1>2
<1>4. ASSUME NEW i \in s PROVE m >= i
  <2>1. t <= k - i
    BY <1>2
  <2> QED BY <1>3, <2>1
<1>5. Max(s) \in s /\ \A i \in s : Max(s) >= i
  BY <1>4 DEF Max
<1> QED BY <1>5

\* There is one for every k.
LEMMA FoldsUpToAny == ASSUME NEW E \in Seq(Nat), NEW k \in 0..Len(E) PROVE \E f : FoldsUpTo(f, E, k)
<1>0. Len(E) \in Nat
  BY LenProperties
<1> DEFINE Bad == {n \in 0..Len(E) : ~\E f : FoldsUpTo(f, E, n)}
<1> SUFFICES ASSUME Bad # {} PROVE FALSE
  OBVIOUS
<1>1. PICK n \in Bad : \A o \in Bad : n <= o
  <2>1. Bad \in SUBSET Nat
    BY <1>0
  <2> HIDE DEF Bad
  <2> QED BY <2>1, LeastNumber
<1>2. n \in 0..Len(E) /\ ~\E f : FoldsUpTo(f, E, n)
  BY <1>1
<1>3. CASE n = 0
  <2> DEFINE f == [s \in SUBSET (1..Len(E)) |-> <<>>]
  <2>1. f = [s \in SUBSET (1..Len(E)) |-> f[s]]
    OBVIOUS
  <2>2. \A s \in SUBSET (1..0) : s = {} /\ f[s] = <<>>
    BY <1>0
  <2> HIDE DEF f
  <2>3. FoldsUpTo(f, E, 0)
    BY <2>1, <2>2 DEF FoldsUpTo
  <2> QED BY <1>2, <1>3, <2>3
<1>4. CASE n # 0
  <2>1. n - 1 \in 0..Len(E) /\ ~(n <= n - 1)
    BY <1>0, <1>2, <1>4
  <2>2. n - 1 \notin Bad
    <3> HIDE DEF Bad
    <3> QED BY <1>1, <2>1
  <2>3. PICK g : FoldsUpTo(g, E, n - 1)
    BY <2>1, <2>2
  <2> DEFINE next(s) == IF s = {} THEN <<>> ELSE FoldedIn(g[s \ {Max(s)}], record[E[Max(s)]])
             h == [s \in SUBSET (1..Len(E)) |-> IF s \subseteq 1..(n - 1) THEN g[s] ELSE next(s)]
  <2>4. \A s \in SUBSET (1..(n - 1)) : g[s] = next(s)
    BY <2>3 DEF FoldsUpTo
  <2>5. \A s \in SUBSET (1..n) : h[s] = next(s)
    <3>1. SUBSET (1..n) \subseteq SUBSET (1..Len(E))
      BY <1>0, <1>2
    <3> HIDE DEF next
    <3> QED BY <2>4, <3>1
  <2>6. ASSUME NEW s \in SUBSET (1..n), s # {} PROVE g[s \ {Max(s)}] = h[s \ {Max(s)}]
    <3> DEFINE m == Max(s)
    <3>0. n \in Nat /\ n <= Len(E) /\ s \subseteq 1..n
      BY <1>0, <1>2
    <3>1. m \in s /\ \A i \in s : i <= m
      BY <2>6, <3>0, MaxIsLast
    <3> HIDE DEF m
    <3>2. ASSUME NEW i \in s \ {m} PROVE i \in 1..(n - 1) /\ i \in 1..Len(E)
      <4>1. i \in Nat /\ m \in Nat /\ 1 <= i /\ i <= n /\ m <= n /\ i <= m /\ i # m
        BY <3>0, <3>1
      <4> QED BY <1>0, <3>0, <4>1
    <3>3. s \ {m} \subseteq 1..(n - 1) /\ s \ {m} \in SUBSET (1..Len(E))
      BY <3>2
    <3> USE DEF m
    <3> HIDE DEF next
    <3> QED BY <3>3
  <2>7. h = [s \in SUBSET (1..Len(E)) |-> h[s]]
    OBVIOUS
  <2>8. FoldsUpTo(h, E, n)
    <3> HIDE DEF h
    <3> QED BY <2>5, <2>6, <2>7 DEF FoldsUpTo
  <2> QED BY <1>2, <2>8
<1> QED BY <1>3, <1>4

\* So what a page shows is folded event by event.
LEMMA ItemsFold == ASSUME NEW E \in Seq(Nat) PROVE \E g : Folds(g, E) /\ ItemsOf(E) = g[Len(E)]
<1>0. Len(E) \in Nat /\ DOMAIN E = 1..Len(E)
  BY LenProperties
<1> DEFINE P == SUBSET (1..Len(E))
           iter == CHOOSE f : f = [s \in P |-> IF s = {} THEN <<>> ELSE FoldedIn(f[s \ {Max(s)}], record[E[Max(s)]])]
<1>1. ItemsOf(E) = iter[1..Len(E)]
  BY <1>0, Zenon DEF ItemsOf, FoldLeft, MapThenFoldSet
<1>2. \E f : f = [s \in P |-> IF s = {} THEN <<>> ELSE FoldedIn(f[s \ {Max(s)}], record[E[Max(s)]])]
  <2>1. PICK f : FoldsUpTo(f, E, Len(E))
    BY <1>0, FoldsUpToAny
  <2> QED BY <2>1 DEF FoldsUpTo
<1>3. iter = [s \in P |-> IF s = {} THEN <<>> ELSE FoldedIn(iter[s \ {Max(s)}], record[E[Max(s)]])]
  BY <1>2
<1> HIDE DEF iter
<1> DEFINE g == [k \in 0..Len(E) |-> iter[1..k]]
<1>4. \A s \in P : iter[s] = IF s = {} THEN <<>> ELSE FoldedIn(iter[s \ {Max(s)}], record[E[Max(s)]])
  BY <1>3
<1>5. g[0] = <<>>
  <2>1. 1..0 = {} /\ {} \in P /\ 0 \in 0..Len(E)
    BY <1>0
  <2> QED BY <1>4, <2>1
<1>6. ASSUME NEW k \in 1..Len(E) PROVE g[k] = FoldedIn(g[k - 1], record[E[k]])
  <2> DEFINE s == 1..k
  <2>0. k \in Nat /\ 1 <= k /\ k <= Len(E)
    BY <1>0
  <2>1. s \in P /\ k \in s /\ s # {} /\ k \in Nat
    <3>1. k \in 1..k /\ \A i \in 1..k : i \in 1..Len(E)
      BY <1>0, <2>0
    <3> QED BY <2>0, <3>1
  <2>2. Max(s) \in s /\ \A i \in s : i <= Max(s)
    BY <2>1, MaxIsLast
  <2>3. Max(s) = k
    BY <2>1, <2>2
  <2>4. s \ {k} = 1..(k - 1) /\ k - 1 \in 0..Len(E) /\ k \in 0..Len(E)
    BY <1>0
  <2> QED BY <1>4, <2>1, <2>3, <2>4
<1>7. ItemsOf(E) = g[Len(E)]
  BY <1>0, <1>1
<1> HIDE DEF g
<1>8. Folds(g, E)
  BY <1>5, <1>6 DEF Folds
<1> QED BY <1>7, <1>8

-----------------------------------------------------------------------------
(* What the log of the room says. *)

\* What is said of each kind of thing.
OfCard(e) == e.of \in Cards /\ \/ e.type = "decision" /\ e.says = "pending"
                               \/ e.type = "decision.resolved" /\ e.says \in {"APPROVED", "DENIED"}
OfChip(e) == e.of \in Chips /\ \/ e.type = "interrupt.raised" /\ e.says = "BLOCKER"
                               \/ e.type = "interrupt.downgraded" /\ e.says \in {"DECISION", "FYI"}
OfReply(e) == e.of \in Replies /\ \/ e.type = "agent.turn.started" /\ e.says = <<>>
                                  \/ e.type = "agent.turn.delta" /\ e.says \in Nat
                                  \/ e.type = "agent.turn.completed" /\ e.says = "whole"
OfJob(e) == e.of \in Jobs /\ \/ e.type = "task.created" /\ e.says = "submitted"
                             \/ e.type = "task.state" /\ e.says \in {"working", "done"}
                             \/ e.type = "task.handoff" /\ e.says = "submitted"
OfRoutine(e) == e.of \in Routines /\ \/ e.type = "order.created" /\ e.says = "ACTIVE"
                                     \/ e.type = "order.status" /\
                                        e.says \in {"ACTIVE", "PAUSED", "LIMIT_REACHED", "REVOKED"}
OfLine(e) == e.of \in Lines /\ e.type = "line" /\ e.says = "said"
OfUnlisted(e) == e.of \in Unlisted /\ e.type = "unlisted" /\ e.says = "nothing"
Fits(e) == OfCard(e) \/ OfChip(e) \/ OfReply(e) \/ OfJob(e) \/ OfRoutine(e) \/ OfLine(e) \/
  OfUnlisted(e)

Said == {"pending", "APPROVED", "DENIED", "BLOCKER", "DECISION", "FYI", <<>>, "whole", "submitted", "working", "done",
         "ACTIVE", "PAUSED", "LIMIT_REACHED", "REVOKED", "said", "nothing"} \cup Nat
Entries == {e \in [of : Things, type : Begins \cup Changes \cup {"agent.turn.delta", "unlisted"}, says : Said] : Fits(e)}

Telling == Begins \cup Changes
Endings == {"decision.resolved", "agent.turn.completed"}

\* The first of a thing's events, and no other, is where it begins; a resolution and the end of a
\* turn are the last; the pieces of a turn are numbered in order.
BeginsFirst ==
   \A n \in DOMAIN record : record[n].type \in Begins \cup {"unlisted"} <=> \A m \in EventsOf(record[n].of) : n <= m
EndsLast == \A n \in DOMAIN record : record[n].type \in Endings =>
  \A m \in EventsOf(record[n].of) : m <= n
PiecesCount == \A n \in DOMAIN record : record[n].type = "agent.turn.delta" =>
    record[n].says = Cardinality({m \in EventsOf(record[n].of) : m < n /\ record[m].type = "agent.turn.delta"}) + 1
LogInv == record \in Seq(Entries) /\ BeginsFirst /\ EndsLast /\ PiecesCount

\* What can be said of one kind is said of no other.
LEMMA OneKind ==
    /\ \A x \in Things : "handoff" # x
    /\ \A x \in Cards : x \notin Chips \cup Replies \cup Jobs \cup Routines \cup Lines \cup Unlisted
    /\ \A x \in Chips : x \notin Replies \cup Jobs \cup Routines \cup Lines \cup Unlisted
    /\ \A x \in Replies : x \notin Jobs \cup Routines \cup Lines \cup Unlisted
    /\ \A x \in Jobs : x \notin Routines \cup Lines \cup Unlisted
    /\ \A x \in Routines : x \notin Lines \cup Unlisted
    /\ \A x \in Lines : x \notin Unlisted
<1>1. /\ DOMAIN Kinds = 1..7 /\ Kinds[1] = Cards /\ Kinds[2] = Chips /\ Kinds[3] = Replies /\
         Kinds[4] = Jobs
      /\ Kinds[5] = Routines /\ Kinds[6] = Lines /\ Kinds[7] = Unlisted
  BY DEF Kinds
<1>2. \A i, j \in 1..7 : i # j => Kinds[i] \cap Kinds[j] = {}
  BY <1>1, KindsAssumption
<1>3. /\ Kinds[1] \cap Kinds[2] = {} /\ Kinds[1] \cap Kinds[3] = {} /\ Kinds[1] \cap Kinds[4] = {}
      /\ Kinds[1] \cap Kinds[5] = {} /\ Kinds[1] \cap Kinds[6] = {} /\ Kinds[1] \cap Kinds[7] = {}
      /\ Kinds[2] \cap Kinds[3] = {} /\ Kinds[2] \cap Kinds[4] = {} /\ Kinds[2] \cap Kinds[5] = {}
      /\ Kinds[2] \cap Kinds[6] = {} /\ Kinds[2] \cap Kinds[7] = {} /\ Kinds[3] \cap Kinds[4] = {}
      /\ Kinds[3] \cap Kinds[5] = {} /\ Kinds[3] \cap Kinds[6] = {} /\ Kinds[3] \cap Kinds[7] = {}
      /\ Kinds[4] \cap Kinds[5] = {} /\ Kinds[4] \cap Kinds[6] = {} /\ Kinds[4] \cap Kinds[7] = {}
      /\ Kinds[5] \cap Kinds[6] = {} /\ Kinds[5] \cap Kinds[7] = {} /\ Kinds[6] \cap Kinds[7] = {}
  BY <1>2
<1> QED BY <1>1, <1>3, KindsAssumption

\* An event of the log fits what it is about.
LEMMA EntryFits ==
    ASSUME LogInv, NEW n \in DOMAIN record
    PROVE  /\ record[n] \in Entries /\ Fits(record[n]) /\ record[n].of \in Things
           /\ n \in EventsOf(record[n].of) /\ n \in Nat /\ n \in 1..Len(record) /\ Len(record) \in Nat
<1>1. record \in Seq(Entries)
  BY DEF LogInv
<1>2. Len(record) \in Nat /\ DOMAIN record = 1..Len(record) /\ record[n] \in Entries
  BY <1>1, LenProperties
<1> QED BY <1>2 DEF Entries, EventsOf

\* Of what is listed every event but the pieces of a text tells something, and begins, changes or
\* ends it.
LEMMA WhatIsSaid ==
    ASSUME LogInv, NEW n \in DOMAIN record
    PROVE  LET e == record[n] IN
           /\ e.of \in Unlisted <=> e.type = "unlisted"
           /\ e.of \in Replies <=> e.type \in {"agent.turn.started", "agent.turn.delta", "agent.turn.completed"}
           /\ e.of \notin Replies \cup Unlisted => e.type \in Telling
           /\ e.of \in Cards <=> e.type \in {"decision", "decision.resolved"}
           /\ e.of \in Cards => (e.type = "decision" <=> e.says = "pending")
           /\ e.of \in Chips => e.says \in {"BLOCKER", "DECISION", "FYI"} /\ e.type \in Telling
           /\ e.type = "agent.turn.completed" => e.says = "whole"
           /\ e.type = "agent.turn.started" => e.says = <<>>
<1> DEFINE e == record[n]
<1>1. Fits(e)
  BY EntryFits
<1> HIDE DEF e
<1>2. CASE OfCard(e)
  BY <1>2, OneKind DEF OfCard, e, Telling, Begins, Changes
<1>3. CASE OfChip(e)
  BY <1>3, OneKind DEF OfChip, e, Telling, Begins, Changes
<1>4. CASE OfReply(e)
  BY <1>4, OneKind DEF OfReply, e, Telling, Begins, Changes
<1>5. CASE OfJob(e)
  BY <1>5, OneKind DEF OfJob, e, Telling, Begins, Changes
<1>6. CASE OfRoutine(e)
  BY <1>6, OneKind DEF OfRoutine, e, Telling, Begins, Changes
<1>7. CASE OfLine(e)
  BY <1>7, OneKind DEF OfLine, e, Telling, Begins, Changes
<1>8. CASE OfUnlisted(e)
  BY <1>8, OneKind DEF OfUnlisted, e, Telling, Begins, Changes
<1> QED BY <1>1, <1>2, <1>3, <1>4, <1>5, <1>6, <1>7, <1>8 DEF Fits

\* The last of some of the log's events.
LEMMA LastOf ==
    ASSUME LogInv, NEW S \in SUBSET DOMAIN record, S # {}
    PROVE  \E n \in S : \A m \in S : m <= n
<1>1. Len(record) \in Nat /\ DOMAIN record = 1..Len(record)
  BY LenProperties DEF LogInv
<1>2. S \in SUBSET (1..Len(record))
  BY <1>1
<1>3. Max(S) \in S /\ \A m \in S : m <= Max(S)
  BY <1>1, <1>2, MaxIsLast
<1> QED BY <1>3

\* What is said of a thing is what the last of its telling events says.
LEMMA LastWord ==
    ASSUME LogInv, NEW x, NEW n \in EventsOf(x), record[n].type \in Telling,
           \A m \in EventsOf(x) : record[m].type \in Telling => m <= n
    PROVE  Is(x) = record[n].says
<1> DEFINE told == {m \in DOMAIN record : record[m].of = x /\ record[m].type \in Changes \cup Begins}
<1>1. n \in told /\ \A m \in told : m <= n
  BY DEF EventsOf, Telling
<1>2. \A m \in told : m \in Nat
  BY EntryFits
<1>3. (CHOOSE m \in told : \A k \in told : k <= m) = n
  BY <1>1, <1>2
<1> QED BY <1>3 DEF Is, StateIn

\* A thing that has begun has a first and a last event, and if it is listed a last word.
LEMMA HasLastWord ==
    ASSUME LogInv, NEW x, Begun(x), x \notin Unlisted
    PROVE  \E n \in EventsOf(x) : record[n].type \in Telling /\
      \A m \in EventsOf(x) : record[m].type \in Telling => m <= n
<1> DEFINE told == {m \in EventsOf(x) : record[m].type \in Telling}
<1>1. EventsOf(x) \in SUBSET DOMAIN record /\ EventsOf(x) # {}
  BY DEF EventsOf, Begun
<1>2. EventsOf(x) \in SUBSET Nat
  BY <1>1, EntryFits
<1>3. PICK k \in EventsOf(x) : \A m \in EventsOf(x) : k <= m
  BY <1>1, <1>2, LeastNumber
<1>4. record[k].of = x /\ k \in DOMAIN record
  BY <1>3 DEF EventsOf
<1>5. record[k].type \in Begins \cup {"unlisted"}
  BY <1>3, <1>4 DEF LogInv, BeginsFirst
<1>6. k \in told
  BY <1>3, <1>4, <1>5, WhatIsSaid DEF Telling
<1>7. PICK n \in told : \A m \in told : m <= n
  BY <1>1, <1>6, LastOf
<1> QED BY <1>7

\* The log grows by an event that fits: the first of what has not begun, or one more of what has
\* not ended.
LEMMA LogGrows ==
    ASSUME LogInv, NEW e \in Entries, record' = Append(record, e),
           e.type \in Begins \cup {"unlisted"} <=> ~Begun(e.of),
           \A n \in EventsOf(e.of) : record[n].type \notin Endings,
           e.type = "agent.turn.delta" => e.says = Pieces(e.of) + 1
    PROVE  LogInv'
<1> DEFINE N == Len(record) + 1
           Now(x) == {m \in DOMAIN record' : record'[m].of = x}
<1>1. record \in Seq(Entries) /\ Len(record) \in Nat /\ DOMAIN record = 1..Len(record)
  BY LenProperties DEF LogInv
<1>2. /\ record' \in Seq(Entries) /\ DOMAIN record' = 1..N /\ record'[N] = e
      /\ \A n \in 1..Len(record) : record'[n] = record[n]
  BY <1>1, AppendProperties, LenProperties
<1>3. \A n \in DOMAIN record : n \in Nat /\ n < N /\ n \in DOMAIN record' /\ record'[n] = record[n]
  BY <1>1, <1>2
<1>4. \A n \in DOMAIN record' : n = N \/ n \in DOMAIN record
  BY <1>1, <1>2
<1>5. N \in DOMAIN record' /\ N \in Nat /\ ~(N < N)
  BY <1>1, <1>2
<1> HIDE DEF N
<1>6. \A x : EventsOf(x) \subseteq Now(x)
  BY <1>3 DEF EventsOf
<1>7. \A x : \A n \in Now(x) : (n = N /\ e.of = x) \/ n \in EventsOf(x)
  BY <1>2, <1>3, <1>4 DEF EventsOf
<1>8. N \in Now(e.of)
  BY <1>2, <1>5
<1> HIDE DEF Now
<1>9. \A x : \A n \in EventsOf(x) : n \in DOMAIN record /\ n < N /\ n <= N /\ ~(N <= n) /\ ~(N < n)
  BY <1>3, <1>5 DEF EventsOf
<1>10. BeginsFirst'
  <2> SUFFICES ASSUME NEW n \in DOMAIN record'
               PROVE  record'[n].type \in Begins \cup {"unlisted"} <=> \A m \in Now(record'[n].of) : n <= m
    BY DEF BeginsFirst, EventsOf, Now
  <2>1. CASE n = N
    <3>1. record'[n] = e
      BY <1>2, <2>1
    <3>2. (\A m \in Now(e.of) : N <= m) <=> ~Begun(e.of)
      BY <1>5, <1>6, <1>7, <1>9 DEF Begun
    <3> QED BY <2>1, <3>1, <3>2
  <2>2. CASE n \in DOMAIN record
    <3>1. record'[n] = record[n] /\ n <= N
      BY <1>3, <1>5, <2>2
    <3> QED BY <1>6, <1>7, <2>2, <3>1 DEF LogInv, BeginsFirst
  <2> QED BY <1>4, <2>1, <2>2
<1>11. EndsLast'
  <2> SUFFICES ASSUME NEW n \in DOMAIN record', record'[n].type \in Endings,
                      NEW m \in Now(record'[n].of)
               PROVE  m <= n
    BY DEF EndsLast, EventsOf, Now
  <2>1. CASE n = N
    BY <1>5, <1>7, <1>9, <2>1
  <2>2. CASE n \in DOMAIN record
    <3>1. record'[n] = record[n] /\ n \in EventsOf(record[n].of)
      BY <1>3, <2>2 DEF EventsOf
    <3>2. m \in EventsOf(record[n].of)
      BY <1>7, <3>1
    <3> QED BY <2>2, <3>1, <3>2 DEF LogInv, EndsLast
  <2> QED BY <1>4, <2>1, <2>2
<1>12. PiecesCount'
  <2> SUFFICES ASSUME NEW n \in DOMAIN record', record'[n].type = "agent.turn.delta"
               PROVE  record'[n].says =
                         Cardinality({m \in Now(record'[n].of) : m < n /\ record'[m].type = "agent.turn.delta"}) + 1
    BY DEF PiecesCount, EventsOf, Now
  <2>1. CASE n = N
    <3>1. record'[n] = e
      BY <1>2, <2>1
    <3>2. {m \in Now(e.of) : m < N /\ record'[m].type = "agent.turn.delta"}
          = {m \in EventsOf(e.of) : record[m].type = "agent.turn.delta"}
      BY <1>3, <1>5, <1>6, <1>7, <1>9
    <3> QED BY <2>1, <3>1, <3>2 DEF Pieces
  <2>2. CASE n \in DOMAIN record
    <3>1. record'[n] = record[n] /\ n < N /\ n \in Nat /\ N \in Nat /\ ~(N < n)
      BY <1>3, <1>5, <2>2
    <3>2. {m \in Now(record[n].of) : m < n /\ record'[m].type = "agent.turn.delta"}
          = {m \in EventsOf(record[n].of) : m < n /\ record[m].type = "agent.turn.delta"}
      BY <1>3, <1>6, <1>7, <1>9, <3>1
    <3> QED BY <2>2, <3>1, <3>2 DEF LogInv, PiecesCount
  <2> QED BY <1>4, <2>1, <2>2
<1> QED BY <1>2, <1>10, <1>11, <1>12 DEF LogInv

\* What was said stays said.
LEMMA LogStays ==
    ASSUME LogInv, NEW e \in Entries, record' = Append(record, e)
    PROVE  /\ Len(record') = Len(record) + 1 /\ Len(record) \in Nat /\
              DOMAIN record \subseteq DOMAIN record'
           /\ \A n \in DOMAIN record : record'[n] = record[n]
           /\ \A n \in DOMAIN record' : n \in DOMAIN record \/ record'[n] = e
           /\ \A x : Begun(x) => Begun(x)'
           /\ \A x : Begun(x)' => Begun(x) \/ x = e.of
<1>1. record \in Seq(Entries) /\ Len(record) \in Nat /\ DOMAIN record = 1..Len(record)
  BY LenProperties DEF LogInv
<1>2. /\ Len(record') = Len(record) + 1 /\ DOMAIN record' = 1..(Len(record) + 1) /\
         record'[Len(record) + 1] = e
      /\ \A n \in 1..Len(record) : record'[n] = record[n]
  BY <1>1, AppendProperties, LenProperties
<1>3. /\ DOMAIN record \subseteq DOMAIN record' /\ \A n \in DOMAIN record : record'[n] = record[n]
      /\ \A n \in DOMAIN record' : n \in DOMAIN record \/ record'[n] = e
  BY <1>1, <1>2
<1> QED BY <1>1, <1>2, <1>3 DEF Begun, EventsOf

\* A decision that is pending has no resolution, and a turn whose text is not whole has not ended.
LEMMA StillOpen ==
    ASSUME LogInv, NEW x \in Things, x \in Cards => Is(x) = "pending", x \in Replies => Is(x) # "whole"
    PROVE  \A n \in EventsOf(x) : record[n].type \notin Endings
<1> SUFFICES ASSUME NEW n \in EventsOf(x), record[n].type \in Endings PROVE FALSE
  OBVIOUS
<1>1. n \in DOMAIN record /\ record[n].of = x
  BY DEF EventsOf
<1>2. record[n].type \in Telling /\ \A m \in EventsOf(x) : m <= n
  BY <1>1 DEF LogInv, EndsLast, Endings, Telling, Changes
<1>3. Is(x) = record[n].says
  BY <1>2, LastWord
<1>4. CASE record[n].type = "decision.resolved"
  BY <1>1, <1>3, <1>4, WhatIsSaid
<1>5. CASE record[n].type = "agent.turn.completed"
  BY <1>1, <1>3, <1>5, WhatIsSaid
<1> QED BY <1>4, <1>5 DEF Endings

\* What the event of a command is.
LEMMA EffectGrows ==
    ASSUME LogInv, NEW c, Effect(c), ~MovedOn(c), c.of \in Things,
           \/ c.does \in {"APPROVED", "DENIED"} /\ c.of \in Cards /\ Begun(c.of)
           \/ c.does = "lower" /\ c.of \in Chips /\ Begun(c.of)
           \/ c.does \in {"pause", "resume", "revoke", "edit"} /\ c.of \in Routines /\ Begun(c.of)
           \/ c.does = "create" /\ c.of \in Routines /\ ~Begun(c.of)
    PROVE  LogInv' /\
      (record' = record \/ \E e \in Entries : record' = Append(record, e) /\ e.of = c.of)
<1> DEFINE Grown(e) == e \in Entries /\ record' = Append(record, e) /\ e.of = c.of
<1>1. CASE record' = record
  BY <1>1 DEF LogInv, BeginsFirst, EndsLast, PiecesCount, EventsOf
<1>2. CASE c.does \in {"APPROVED", "DENIED"}
  <2> DEFINE e == Event(c.of, "decision.resolved", c.does)
  <2>1. record' = Append(record, e) /\ c.of \in Cards /\ Begun(c.of) /\ Is(c.of) = "pending"
    BY <1>2 DEF Effect, Append1, MovedOn
  <2>2. e.of = c.of /\ e.type = "decision.resolved" /\ e.says = c.does /\ e \in Entries
    BY <1>2, <2>1 DEF Event, Entries, Said, Changes, Fits, OfCard
  <2> HIDE DEF e
  <2>3. \A n \in EventsOf(e.of) : record[n].type \notin Endings
    BY <2>1, <2>2, StillOpen, OneKind
  <2>4. LogInv'
    BY <2>1, <2>2, <2>3, LogGrows DEF Begins
  <2> QED BY <2>1, <2>2, <2>4
<1>3. CASE c.does = "lower"
  <2> DEFINE e == Event(c.of, "interrupt.downgraded", Lower[Is(c.of)])
  <2>1. record' = Append(record, e) /\ c.of \in Chips /\ Begun(c.of) /\ Is(c.of) # "FYI"
    BY <1>3 DEF Effect, Append1, MovedOn
  <2>2. Is(c.of) \in {"BLOCKER", "DECISION"}
    <3>1. PICK n \in EventsOf(c.of) : record[n].type \in Telling /\
          \A m \in EventsOf(c.of) : record[m].type \in Telling => m <= n
      BY <2>1, HasLastWord, OneKind
    <3>2. n \in DOMAIN record /\ record[n].of = c.of
      BY DEF EventsOf
    <3> QED BY <2>1, <3>1, <3>2, LastWord, WhatIsSaid
  <2>3. e.of = c.of /\ e.type = "interrupt.downgraded" /\ e.says \in {"DECISION", "FYI"} /\
        e \in Entries
    BY <2>1, <2>2 DEF Event, Entries, Said, Changes, Fits, OfChip, Lower
  <2> HIDE DEF e
  <2>4. \A n \in EventsOf(e.of) : record[n].type \notin Endings
    BY <2>1, <2>3, StillOpen, OneKind
  <2>5. LogInv'
    BY <2>1, <2>3, <2>4, LogGrows DEF Begins
  <2> QED BY <2>1, <2>3, <2>5
<1>4. CASE c.does \in {"pause", "resume", "revoke", "create"}
  <2> DEFINE t == IF c.does = "create" THEN "order.created" ELSE "order.status"
             s == CASE c.does = "pause" -> "PAUSED" [] c.does = "revoke" -> "REVOKED" [] OTHER -> "ACTIVE"
             e == Event(c.of, t, s)
  <2>1. record' = Append(record, e) /\ c.of \in Routines /\ (Begun(c.of) <=> c.does # "create")
    BY <1>4 DEF Effect, Append1
  <2>2. e.of = c.of /\ e.type = t /\ e.says = s
    BY DEF Event
  <2>3. e \in Entries
    BY <1>4, <2>1 DEF Event, Entries, Said, Changes, Begins, Fits, OfRoutine
  <2> HIDE DEF e
  <2>4. \A n \in EventsOf(e.of) : record[n].type \notin Endings
    BY <2>1, <2>2, StillOpen, OneKind
  <2>5. LogInv'
    BY <2>1, <2>2, <2>3, <2>4, LogGrows DEF Begins
  <2> QED BY <2>1, <2>2, <2>3, <2>5
<1>5. CASE c.does = "edit"
  BY <1>1, <1>5 DEF Effect
<1> QED BY <1>2, <1>3, <1>4, <1>5

\* A thing begins.
LEMMA BeginGrows ==
    ASSUME LogInv, story \subseteq Things, NEW x \in Things, Begin(x)
    PROVE  LogInv' /\ \E e \in Entries : record' = Append(record, e) /\ e.of = x /\ x \in story
<1> DEFINE e == CASE x \in Cards -> Event(x, "decision", "pending")
                 [] x \in Chips -> Event(x, "interrupt.raised", "BLOCKER")
                 [] x \in Replies -> Event(x, "agent.turn.started", <<>>)
                 [] x \in Jobs -> Event(x, "task.created", "submitted")
                 [] x \in Lines -> Event(x, "line", "said")
                 [] OTHER -> Event(x, "unlisted", "nothing")
<1>1. x \in story /\ x \notin Routines /\ ~Begun(x) /\ record' = Append(record, e)
  BY DEF Begin, Append1
<1>2. e.of = x /\ e.type \in Begins \cup {"unlisted"} /\ e \in Entries
  <2>1. CASE x \in Cards
    BY <2>1, OneKind DEF Event, Entries, Said, Begins, Fits, OfCard
  <2>2. CASE x \in Chips
    BY <2>2, OneKind DEF Event, Entries, Said, Begins, Fits, OfChip
  <2>3. CASE x \in Replies
    BY <2>3, OneKind DEF Event, Entries, Said, Begins, Fits, OfReply
  <2>4. CASE x \in Jobs
    BY <2>4, OneKind DEF Event, Entries, Said, Begins, Fits, OfJob
  <2>5. CASE x \in Lines
    BY <2>5, OneKind DEF Event, Entries, Said, Begins, Fits, OfLine
  <2>6. CASE x \in Unlisted
    BY <2>6, OneKind DEF Event, Entries, Said, Begins, Fits, OfUnlisted
  <2> QED BY <1>1, <2>1, <2>2, <2>3, <2>4, <2>5, <2>6 DEF Things
<1> HIDE DEF e
<1>3. EventsOf(x) = {}
  BY <1>1 DEF Begun
<1>4. e.type # "agent.turn.delta"
  BY <1>2 DEF Begins
<1>5. LogInv'
  BY <1>1, <1>2, <1>3, <1>4, LogGrows
<1> QED BY <1>1, <1>2, <1>5

\* Or goes on.
LEMMA ProceedGrows ==
    ASSUME LogInv, NEW x \in Things, Proceeds(x)
    PROVE  LogInv' /\ \E e \in Entries : record' = Append(record, e) /\ e.of = x
<1>1. Begun(x)
  BY DEF Proceeds
<1>2. ASSUME NEW e \in Entries, record' = Append(record, e), e.of = x,
             e.type \notin Begins \cup {"unlisted"}, x \notin Cards,
             x \in Replies => Is(x) # "whole", e.type = "agent.turn.delta" => e.says = Pieces(x) + 1
      PROVE  LogInv'
  BY <1>1, <1>2, StillOpen, LogGrows
<1>3. CASE x \in Replies
  <2>1. Pieces(x) + 1 \in Nat
    <3>1. IsFiniteSet(DOMAIN record)
      <4>1. DOMAIN record = 1..Len(record) /\ Len(record) \in Int /\ 1 \in Int
        BY LenProperties DEF LogInv
      <4> QED BY <4>1, FS_Interval
    <3>2. {n \in EventsOf(x) : record[n].type = "agent.turn.delta"} \subseteq DOMAIN record
      BY DEF EventsOf
    <3>3. Pieces(x) \in Nat
      BY <3>1, <3>2, FS_Subset, FS_CardinalityType DEF Pieces
    <3> QED BY <3>3
  <2>2. x \notin Cards /\ x \notin Jobs /\ x \notin Routines
    BY <1>3, OneKind
  <2>3. PICK e \in {Event(x, "agent.turn.delta", Pieces(x) + 1), Event(x, "agent.turn.completed", "whole")} :
           record' = Append(record, e) /\ Is(x) # "whole"
    BY <2>2 DEF Proceeds, Append1
  <2>4. /\ e.of = x /\ e.type \in {"agent.turn.delta", "agent.turn.completed"}
        /\ (e.type = "agent.turn.delta" => e.says = Pieces(x) + 1) /\ e \in Entries
    BY <1>3, <2>1, <2>3 DEF Event, Entries, Said, Changes, Fits, OfReply
  <2> QED BY <1>2, <2>2, <2>3, <2>4 DEF Begins
<1>4. CASE x \in Jobs
  <2>1. x \notin Cards /\ x \notin Replies /\ x \notin Routines
    BY <1>4, OneKind
  <2>2. PICK e \in {Event(x, "task.state", "working"), Event(x, "task.state", "done"),
                 Event(x, "task.handoff", "submitted")} :
           record' = Append(record, e)
    BY <2>1 DEF Proceeds, Append1
  <2>3. e.of = x /\ e.type \in {"task.state", "task.handoff"} /\ e \in Entries
    BY <1>4, <2>2 DEF Event, Entries, Said, Changes, Fits, OfJob
  <2> QED BY <1>2, <2>1, <2>2, <2>3 DEF Begins
<1>5. CASE x \in Routines
  <2>1. x \notin Cards /\ x \notin Replies /\ x \notin Jobs
    BY <1>5, OneKind
  <2>2. PICK e \in {Event(x, "order.status", "PAUSED"), Event(x, "order.status", "LIMIT_REACHED")} :
                 record' = Append(record, e)
    BY <2>1 DEF Proceeds, Append1
  <2>3. e.of = x /\ e.type = "order.status" /\ e \in Entries
    BY <1>5, <2>2 DEF Event, Entries, Said, Changes, Fits, OfRoutine
  <2> QED BY <1>2, <2>1, <2>2, <2>3 DEF Begins
<1> QED BY <1>3, <1>4, <1>5 DEF Proceeds

-----------------------------------------------------------------------------
(* What a page shows of the events in hand. *)

\* All of a thing's events up to those in hand are in hand.
NoneMissing(x, H) == \A n \in H, m \in EventsOf(x) : m < n => m \in H
EndIn(x, H) == \E n \in H : record[n].of = x /\ record[n].type = "agent.turn.completed"
PiecesIn(x, H) == {n \in H : record[n].of = x /\ record[n].type = "agent.turn.delta"}

\* A row is of a transfer or of a thing whose first event or end is in hand; it says the last that
\* is in hand of its thing, the text of a turn with its end in hand, or its pieces in order if none
\* is missing.
SaysLast(r, H) == \E n \in H : record[n].of = r.of /\ record[n].says = r.is /\
  \A m \in H : record[m].of = r.of => m <= n
SaysText(r, H) ==
    /\ EndIn(r.of, H) => r.is = "whole"
    /\ ~EndIn(r.of, H) /\ NoneMissing(r.of, H) => r.is = [j \in 1..Cardinality(PiecesIn(r.of, H)) |-> j]
RowIsTrue(r, H) ==
    /\ r = Item(r.of, r.is)
    /\ r.of \in Things => /\ \E n \in H : record[n].of = r.of /\
                             record[n].type \in Begins \cup {"agent.turn.completed"}
                          /\ r.of \notin Replies => SaysLast(r, H)
                          /\ r.of \in Replies => SaysText(r, H)
    /\ r.of \notin Things => r.of = "handoff"

Shown(items, H) ==
    /\ Len(items) \in Nat /\ DOMAIN items = 1..Len(items)
    /\ \A i \in DOMAIN items : RowIsTrue(items[i], H)
    /\ \A i, j \in DOMAIN items : items[i].of = items[j].of /\ items[i].of \in Things => i = j
    /\ \A n \in H : record[n].type \in Begins \cup {"agent.turn.completed"} =>
       \E i \in DOMAIN items : items[i].of = record[n].of

\* The events of the log that are in hand are finitely many.
LEMMA InHandFinite == ASSUME LogInv, NEW H \in SUBSET DOMAIN record
    PROVE IsFiniteSet(H) /\ H \subseteq Nat
<1>1. DOMAIN record = 1..Len(record) /\ Len(record) \in Int /\ 1 \in Int /\ DOMAIN record \subseteq Nat
  BY LenProperties DEF LogInv
<1>2. IsFiniteSet(DOMAIN record)
  BY <1>1, FS_Interval
<1> QED BY <1>1, <1>2, FS_Subset

\* The next event in hand keeps a row true.
LEMMA RowStaysTrue ==
    ASSUME LogInv, NEW H \in SUBSET DOMAIN record, NEW n \in DOMAIN record, \A m \in H : m < n,
           NEW r, RowIsTrue(r, H)
    PROVE  /\ RowIsTrue(Changed(r, record[n]), H \cup {n})
           /\ Changed(r, record[n]).of = r.of
<1> DEFINE e == record[n]
           G == H \cup {n}
           new == Changed(r, e)
<1>1. /\ e \in Entries /\ e.of \in Things /\ n \in Nat /\ n \in EventsOf(e.of)
      /\ \A m \in H : m \in DOMAIN record /\ m \in Nat /\ m < n /\ m <= n /\ ~(n <= m) /\ m # n
  BY EntryFits
<1>2. /\ e.of \in Unlisted <=> e.type = "unlisted"
      /\ e.of \in Replies <=> e.type \in {"agent.turn.started", "agent.turn.delta", "agent.turn.completed"}
      /\ e.of \notin Replies \cup Unlisted => e.type \in Telling
      /\ e.type = "agent.turn.completed" => e.says = "whole"
  BY WhatIsSaid
<1>3. r = Item(r.of, r.is)
  BY DEF RowIsTrue
<1>4. CASE e.of # r.of
  <2>1. new = r
    BY <1>4 DEF Changed
  <2>2. SaysLast(r, H) => SaysLast(r, G)
    BY <1>4 DEF SaysLast
  <2>3. EndIn(r.of, G) <=> EndIn(r.of, H)
    BY <1>4 DEF EndIn
  <2>4. PiecesIn(r.of, G) = PiecesIn(r.of, H)
    BY <1>4 DEF PiecesIn
  <2>5. NoneMissing(r.of, G) => NoneMissing(r.of, H)
    <3> SUFFICES ASSUME NoneMissing(r.of, G), NEW k \in H, NEW m \in EventsOf(r.of), m < k PROVE m \in H
      BY DEF NoneMissing
    <3>1. m \in G /\ m # n
      BY <1>4 DEF NoneMissing, EventsOf
    <3> QED BY <3>1
  <2>6. SaysText(r, H) => SaysText(r, G)
    BY <2>3, <2>4, <2>5 DEF SaysText
  <2> QED BY <2>1, <2>2, <2>6 DEF RowIsTrue
<1>5. CASE e.of = r.of
  <2>1. PICK b \in H : record[b].of = r.of /\ record[b].type \in Begins \cup {"agent.turn.completed"}
    BY <1>1, <1>5 DEF RowIsTrue
  <2>2. b \in EventsOf(r.of) /\ b \in DOMAIN record /\ ~(n <= b) /\ b <= n
    BY <1>1, <2>1 DEF EventsOf
  <2>3. e.type \notin Begins \cup {"unlisted"}
    <3>1. e.type \in Begins \cup {"unlisted"} => \A m \in EventsOf(e.of) : n <= m
      BY DEF LogInv, BeginsFirst
    <3> QED BY <1>5, <2>2, <3>1
  <2>4. \A m \in H : record[m].of = r.of => record[m].type \notin Endings
    <3> SUFFICES ASSUME NEW m \in H, record[m].of = r.of, record[m].type \in Endings PROVE FALSE
      OBVIOUS
    <3>1. \A k \in EventsOf(record[m].of) : k <= m
      BY <1>1 DEF LogInv, EndsLast
    <3> QED BY <1>1, <1>5, <3>1
  <2>5. ~EndIn(r.of, H)
    BY <2>4 DEF EndIn, Endings
  <2>6. r.of \in Things
    BY <1>1, <1>5
  <2>7. CASE r.of \notin Replies
    <3>1. e.type \in Changes /\ e.type # "agent.turn.delta"
      BY <1>2, <1>5, <2>3, <2>7 DEF Telling, Begins
    <3>2. new = [r EXCEPT !.is = e.says]
      BY <1>5, <3>1 DEF Changed
    <3>3. new = Item(r.of, e.says) /\ new.of = r.of /\ new.is = e.says
      BY <1>3, <3>2 DEF Item
    <3>4. SaysLast(new, G)
      BY <1>1, <1>5, <3>3 DEF SaysLast
    <3> HIDE DEF new
    <3>9. RowIsTrue(new, G)
      BY <2>1, <2>6, <2>7, <3>3, <3>4 DEF RowIsTrue
    <3> QED BY <3>3, <3>9 DEF new
  <2>8. CASE r.of \in Replies /\ e.type = "agent.turn.completed"
    <3>1. new = [r EXCEPT !.is = e.says]
      BY <1>5, <2>8 DEF Changed, Changes
    <3>2. new = Item(r.of, "whole") /\ new.of = r.of /\ new.is = "whole"
      BY <1>2, <1>3, <2>8, <3>1 DEF Item
    <3>3. EndIn(r.of, G)
      BY <1>5, <2>8 DEF EndIn
    <3>4. SaysText(new, G)
      BY <3>2, <3>3 DEF SaysText
    <3> HIDE DEF new
    <3>9. RowIsTrue(new, G)
      BY <2>1, <2>6, <2>8, <3>2, <3>4 DEF RowIsTrue
    <3> QED BY <3>2, <3>9 DEF new
  <2>9. CASE r.of \in Replies /\ e.type # "agent.turn.completed"
    <3>1. e.type = "agent.turn.delta"
      BY <1>2, <1>5, <2>3, <2>9 DEF Begins
    <3>2. new = [r EXCEPT !.is = Append(@, e.says)]
      BY <1>5, <3>1 DEF Changed, Changes
    <3>3. new = Item(r.of, Append(r.is, e.says)) /\ new.of = r.of /\ new.is = Append(r.is, e.says)
      BY <1>3, <3>2 DEF Item
    <3> HIDE DEF new
    <3>4. ~EndIn(r.of, G)
      BY <2>5, <2>9 DEF EndIn
    <3>5. ASSUME NoneMissing(r.of, G)
          PROVE  new.is = [j \in 1..Cardinality(PiecesIn(r.of, G)) |-> j]
      <4>1. NoneMissing(r.of, H)
        <5> SUFFICES ASSUME NEW k \in H, NEW m \in EventsOf(r.of), m < k PROVE m \in H
          BY DEF NoneMissing
        <5>1. m \in G /\ m # n
          BY <1>1, <3>5 DEF NoneMissing, EventsOf
        <5> QED BY <5>1
      <4> DEFINE P == Cardinality(PiecesIn(r.of, H))
      <4>2. r.is = [j \in 1..P |-> j]
        BY <2>5, <2>6, <2>9, <4>1 DEF RowIsTrue, SaysText
      <4>3. e.says = Cardinality({m \in EventsOf(e.of) : m < n /\ record[m].type = "agent.turn.delta"}) + 1
        BY <3>1 DEF LogInv, PiecesCount
      <4>4. {m \in EventsOf(e.of) : m < n /\ record[m].type = "agent.turn.delta"} = PiecesIn(r.of, H)
        <5>1. \A m \in EventsOf(r.of) : m < n => m \in G
          BY <3>5 DEF NoneMissing
        <5>2. ~(n < n)
          BY <1>1
        <5> QED BY <1>1, <1>5, <5>1, <5>2 DEF PiecesIn, EventsOf
      <4>5. PiecesIn(r.of, G) = PiecesIn(r.of, H) \cup {n} /\ n \notin PiecesIn(r.of, H)
        BY <1>1, <1>5, <3>1 DEF PiecesIn
      <4>6. IsFiniteSet(PiecesIn(r.of, H))
        <5>1. PiecesIn(r.of, H) \in SUBSET DOMAIN record
          BY DEF PiecesIn
        <5> QED BY <5>1, InHandFinite
      <4>7. P \in Nat /\ Cardinality(PiecesIn(r.of, G)) = P + 1
        BY <4>5, <4>6, FS_AddElement, FS_CardinalityType
      <4>8. e.says = P + 1
        BY <4>3, <4>4
      <4> HIDE DEF P
      <4>9. Append([j \in 1..P |-> j], P + 1) = [j \in 1..(P + 1) |-> j]
        <5>1. [j \in 1..P |-> j] \in Seq(Nat) /\ Len([j \in 1..P |-> j]) = P
          BY <4>7
        <5> QED BY <4>7, <5>1
      <4> QED BY <3>3, <4>2, <4>7, <4>8, <4>9
    <3>6. SaysText(new, G)
      BY <3>3, <3>4, <3>5 DEF SaysText
    <3>9. RowIsTrue(new, G)
      BY <2>1, <2>6, <2>9, <3>3, <3>6 DEF RowIsTrue
    <3> QED BY <3>3, <3>9 DEF new
  <2> QED BY <2>7, <2>8, <2>9
<1> QED BY <1>4, <1>5

\* A new row is true: that of a beginning, of the end of a turn, or of a transfer.
LEMMA NewRowIsTrue ==
    ASSUME LogInv, NEW H \in SUBSET DOMAIN record, NEW n \in DOMAIN record, \A m \in H : m < n,
           record[n].type \in Begins \cup {"agent.turn.completed"}
    PROVE  RowIsTrue(Item(record[n].of, record[n].says), H \cup {n})
<1> DEFINE e == record[n]
           G == H \cup {n}
           r == Item(e.of, e.says)
<1>1. /\ e \in Entries /\ e.of \in Things /\ n \in Nat /\ n \in EventsOf(e.of)
      /\ \A m \in H : m \in DOMAIN record /\ m \in Nat /\ m < n /\ m <= n /\ ~(n <= m) /\ m # n
  BY EntryFits
<1>2. /\ e.of \in Replies <=> e.type \in {"agent.turn.started", "agent.turn.delta", "agent.turn.completed"}
      /\ e.type = "agent.turn.completed" => e.says = "whole"
      /\ e.type = "agent.turn.started" => e.says = <<>>
  BY WhatIsSaid
<1>3. r = Item(r.of, r.is) /\ r.of = e.of /\ r.is = e.says
  BY DEF Item
<1> HIDE DEF r
<1>4. n \in G /\ e.of = r.of
  BY <1>3
<1>5. SaysLast(r, G)
  BY <1>1, <1>3 DEF SaysLast
<1>6. CASE e.of \notin Replies
  <2>1. RowIsTrue(r, G)
    BY <1>1, <1>3, <1>4, <1>5, <1>6 DEF RowIsTrue
  <2> QED BY <2>1 DEF r
<1>7. CASE e.type = "agent.turn.completed"
  <2>1. EndIn(r.of, G)
    BY <1>3, <1>7 DEF EndIn
  <2>2. SaysText(r, G)
    BY <1>2, <1>3, <1>7, <2>1 DEF SaysText
  <2>3. RowIsTrue(r, G)
    BY <1>1, <1>2, <1>3, <1>4, <1>7, <2>2 DEF RowIsTrue
  <2> QED BY <2>3 DEF r
<1>8. CASE e.type = "agent.turn.started"
  <2>1. \A m \in EventsOf(e.of) : n <= m
    BY <1>8 DEF LogInv, BeginsFirst, Begins
  <2>2. \A m \in H : record[m].of # e.of
    <3> SUFFICES ASSUME NEW m \in H, record[m].of = e.of PROVE FALSE
      OBVIOUS
    <3>1. m \in EventsOf(e.of)
      BY <1>1 DEF EventsOf
    <3> QED BY <1>1, <2>1, <3>1
  <2>3. ~EndIn(r.of, G)
    BY <1>3, <1>8, <2>2 DEF EndIn
  <2>4. PiecesIn(r.of, G) = {}
    BY <1>3, <1>8, <2>2 DEF PiecesIn
  <2>5. r.is = [j \in 1..Cardinality(PiecesIn(r.of, G)) |-> j]
    <3>1. Cardinality(PiecesIn(r.of, G)) = 0
      BY <2>4, FS_EmptySet
    <3>2. r.is = <<>>
      BY <1>2, <1>3, <1>8
    <3>3. [j \in 1..0 |-> j] \in Seq(Nat) /\ Len([j \in 1..0 |-> j]) = 0
      OBVIOUS
    <3>4. [j \in 1..0 |-> j] = <<>>
      BY <3>3, EmptySeq
    <3> QED BY <3>1, <3>2, <3>4
  <2>6. SaysText(r, G)
    BY <2>3, <2>5 DEF SaysText
  <2>7. RowIsTrue(r, G)
    BY <1>1, <1>2, <1>3, <1>4, <1>8, <2>6 DEF RowIsTrue
  <2> QED BY <2>7 DEF r
<1> QED BY <1>2, <1>6, <1>7, <1>8 DEF Begins

\* The row of a transfer is about no thing.
LEMMA TransferIsTrue == ASSUME NEW s, NEW H PROVE RowIsTrue(Item("handoff", s), H)
<1>1. "handoff" \notin Things
  BY OneKind
<1> QED BY <1>1 DEF RowIsTrue, Item

\* One more event keeps what is shown true.
LEMMA ShownGrows ==
    ASSUME LogInv, NEW H \in SUBSET DOMAIN record, NEW n \in DOMAIN record, \A m \in H : m < n,
           NEW items, Shown(items, H)
    PROVE  Shown(FoldedIn(items, record[n]), H \cup {n})
<1> DEFINE e == record[n]
           G == H \cup {n}
           old == [i \in DOMAIN items |-> Changed(items[i], e)]
           added == Added(items, e)
           new == FoldedIn(items, e)
           L == Len(items)
           Opens == e.type \in Begins \/
             (e.type = "agent.turn.completed" /\ \A i \in DOMAIN items : items[i].of # e.of)
<1>1. L \in Nat /\ DOMAIN items = 1..L /\
      old \in Seq({Changed(items[i], e) : i \in DOMAIN items}) /\ Len(old) = L
  <2>1. L \in Nat /\ DOMAIN items = 1..L
    BY DEF Shown
  <2> DEFINE S == {Changed(items[i], e) : i \in DOMAIN items}
  <2>2. old \in [1..L -> S]
    BY <2>1
  <2>3. DOMAIN old = 1..L
    BY <2>1
  <2> HIDE DEF old, S
  <2>4. old \in Seq(S)
    BY <2>1, <2>2, SeqDef
  <2>5. Len(old) = L
    BY <2>1, <2>3, <2>4, LenProperties
  <2> QED BY <2>1, <2>4, <2>5 DEF S
<1>2. /\ Opens => added = <<Item(e.of, e.says)>>
      /\ ~Opens /\ e.type = "task.handoff" => added = <<Item("handoff", e.says)>>
      /\ ~Opens /\ e.type # "task.handoff" => added = <<>>
  BY DEF Added
<1>3. e.of \in Things /\ \A m \in H : m \in DOMAIN record /\ m \in Nat /\ n \in Nat /\ m < n /\
      m # n /\ ~(n <= m)
  BY EntryFits
<1>4. \A i \in 1..L : old[i] = Changed(items[i], e) /\ RowIsTrue(Changed(items[i], e), G) /\
      Changed(items[i], e).of = items[i].of
  BY <1>1, RowStaysTrue DEF Shown
<1>5. Opens => \A i \in 1..L : items[i].of # e.of
  <2> SUFFICES ASSUME e.type \in Begins, NEW i \in 1..L, items[i].of = e.of PROVE FALSE
    BY <1>1
  <2>1. PICK m \in H : record[m].of = e.of
    BY <1>1, <1>3 DEF Shown, RowIsTrue
  <2>2. m \in EventsOf(e.of)
    BY <1>3, <2>1 DEF EventsOf
  <2> QED BY <1>3, <2>2 DEF LogInv, BeginsFirst
<1>6. CASE added = <<>>
  <2>1. Len(new) = L /\ DOMAIN new = 1..L /\ \A i \in 1..L : new[i] = old[i]
    <3> HIDE DEF old, L, added
    <3>1. new = old \o <<>>
      BY <1>6 DEF FoldedIn, old, added
    <3>2. new = old
      BY <1>1, <3>1
    <3> QED BY <1>1, <3>2
  <2>2. \A i \in DOMAIN new : RowIsTrue(new[i], G) /\ new[i].of = items[i].of
    BY <1>4, <2>1
  <2> HIDE DEF new, old, added
  <2>3. ASSUME NEW m \in G, record[m].type \in Begins \cup {"agent.turn.completed"}
        PROVE  \E i \in DOMAIN new : new[i].of = record[m].of
    <3>1. CASE m \in H
      BY <1>1, <2>1, <2>2, <2>3, <3>1 DEF Shown
    <3>2. CASE m = n
      <4>1. ~Opens
        BY <1>2, <1>6
      <4> QED BY <1>1, <2>1, <2>2, <2>3, <3>2, <4>1
    <3> QED BY <3>1, <3>2
  <2>4. Shown(new, G)
    BY <1>1, <2>1, <2>2, <2>3 DEF Shown
  <2> QED BY <2>4 DEF new
<1>7. ASSUME NEW r, added = <<r>>, RowIsTrue(r, G), r.of \in Things =>
             \A i \in 1..L : items[i].of # r.of,
             e.type \in Begins \cup {"agent.turn.completed"} =>
               \E i \in DOMAIN items \cup {0} : (i = 0 /\ r.of = e.of) \/ (i # 0 /\ items[i].of = e.of)
      PROVE  Shown(FoldedIn(items, record[n]), H \cup {n})
  <2>1. Len(new) = L + 1 /\ DOMAIN new = 1..(L + 1) /\ (\A i \in 1..L : new[i] = old[i]) /\
        new[L + 1] = r
    <3> HIDE DEF old, L, added
    <3>1. new = old \o <<r>>
      BY <1>7 DEF FoldedIn, old, added
    <3> QED BY <1>1, <3>1
  <2>2. L + 1 \in DOMAIN new /\ \A i \in DOMAIN new : i \in 1..L \/ i = L + 1
    BY <1>1, <2>1
  <2> HIDE DEF new, old, added
  <2>3. \A i \in 1..L : RowIsTrue(new[i], G) /\ new[i].of = items[i].of /\ i \in DOMAIN new
    <3>1. \A i \in 1..L : i \in DOMAIN new /\ new[i] = Changed(items[i], e)
      BY <1>1, <1>4, <2>1
    <3> QED BY <1>4, <3>1
  <2>4. \A i \in DOMAIN new : RowIsTrue(new[i], G)
    BY <1>7, <2>1, <2>2, <2>3
  <2>5. ASSUME NEW i \in DOMAIN new, NEW j \in DOMAIN new, new[i].of = new[j].of,
               new[i].of \in Things
        PROVE  i = j
    <3>1. CASE i \in 1..L /\ j \in 1..L
      <4>1. new[i].of = items[i].of /\ new[j].of = items[j].of /\ i \in DOMAIN items /\ j \in DOMAIN items
        BY <1>1, <2>3, <3>1
      <4> QED BY <2>5, <4>1 DEF Shown
    <3>2. CASE i \in 1..L /\ j = L + 1
      <4>1. new[i].of = items[i].of /\ new[j].of = r.of
        BY <2>1, <2>3, <3>2
      <4> QED BY <1>7, <2>5, <3>2, <4>1
    <3>3. CASE i = L + 1 /\ j \in 1..L
      <4>1. new[j].of = items[j].of /\ new[i].of = r.of
        BY <2>1, <2>3, <3>3
      <4> QED BY <1>7, <2>5, <3>3, <4>1
    <3>4. CASE i = L + 1 /\ j = L + 1
      BY <3>4
    <3> QED BY <2>2, <3>1, <3>2, <3>3, <3>4
  <2>6. ASSUME NEW m \in G, record[m].type \in Begins \cup {"agent.turn.completed"}
        PROVE  \E i \in DOMAIN new : new[i].of = record[m].of
    <3>1. CASE m \in H
      BY <1>1, <2>3, <2>6, <3>1 DEF Shown
    <3>2. CASE m = n
      BY <1>1, <1>7, <2>1, <2>2, <2>3, <2>6, <3>2
    <3> QED BY <3>1, <3>2
  <2>7. Len(new) \in Nat /\ DOMAIN new = 1..Len(new)
    <3> HIDE DEF L
    <3> QED BY <1>1, <2>1
  <2>8. Shown(new, G)
    BY <2>4, <2>5, <2>6, <2>7 DEF Shown
  <2> QED BY <2>8 DEF new
<1>8. CASE Opens
  <2> DEFINE r == Item(e.of, e.says)
  <2>1. RowIsTrue(r, G)
    BY <1>8, NewRowIsTrue
  <2>2. added = <<r>> /\ r.of = e.of
    BY <1>2, <1>8 DEF Item
  <2> HIDE DEF r, added, L
  <2> QED BY <1>5, <1>7, <1>8, <2>1, <2>2
<1>9. CASE ~Opens /\ e.type = "task.handoff"
  <2> DEFINE r == Item("handoff", e.says)
  <2>1. RowIsTrue(r, G)
    BY TransferIsTrue
  <2>2. added = <<r>> /\ r.of = "handoff" /\ r.of \notin Things
    BY <1>2, <1>9, OneKind DEF Item
  <2>3. e.type \notin Begins \cup {"agent.turn.completed"}
    BY <1>9 DEF Begins
  <2> HIDE DEF r, added, L
  <2> QED BY <1>7, <2>1, <2>2, <2>3
<1>10. CASE ~Opens /\ e.type # "task.handoff"
  BY <1>2, <1>6, <1>10
<1> QED BY <1>8, <1>9, <1>10

\* So a page shows what it holds.
LEMMA PageIsTrue ==
    ASSUME LogInv, NEW E \in Seq(DOMAIN record), Ascends(E)
    PROVE  Shown(ItemsOf(E), Held(E))
<1> DEFINE H(k) == {E[i] : i \in 1..k}
<1>1. Len(E) \in Nat /\ DOMAIN E = 1..Len(E) /\ \A i \in 1..Len(E) : E[i] \in DOMAIN record
  BY LenProperties
<1>2. E \in Seq(Nat)
  <2>1. DOMAIN record \subseteq Nat
    BY InHandFinite
  <2>2. E \in [1..Len(E) -> Nat]
    BY <1>1, <2>1
  <2> QED BY <1>1, <2>2, SeqDef
<1>3. PICK g : Folds(g, E) /\ ItemsOf(E) = g[Len(E)]
  BY <1>2, ItemsFold
<1> DEFINE Bad == {k \in 0..Len(E) : ~Shown(g[k], H(k))}
<1>4. Bad = {}
  <2> SUFFICES ASSUME Bad # {} PROVE FALSE
    OBVIOUS
  <2>1. PICK k \in Bad : \A o \in Bad : k <= o
    <3>1. Bad \in SUBSET Nat
      BY <1>1
    <3> HIDE DEF Bad
    <3> QED BY <3>1, LeastNumber
  <2>2. k \in 0..Len(E) /\ ~Shown(g[k], H(k))
    BY <2>1
  <2>3. CASE k = 0
    <3>1. g[0] = <<>> /\ H(0) = {}
      BY <1>3 DEF Folds
    <3>2. Shown(<<>>, {})
      BY DEF Shown
    <3> QED BY <2>2, <2>3, <3>1, <3>2
  <2>4. CASE k # 0
    <3>1. k \in Nat /\ k - 1 \in 0..Len(E) /\ k \in 1..Len(E) /\ ~(k <= k - 1)
      BY <1>1, <2>2, <2>4
    <3>2. k - 1 \notin Bad
      <4> HIDE DEF Bad
      <4> QED BY <2>1, <3>1
    <3>3. Shown(g[k - 1], H(k - 1))
      BY <3>1, <3>2
    <3>4. H(k) = H(k - 1) \cup {E[k]}
      <4>1. \A i : i \in 1..k <=> (i \in 1..(k - 1) \/ i = k)
        BY <3>1
      <4> QED BY <4>1
    <3>5. \A m \in H(k - 1) : m \in DOMAIN record /\ m < E[k]
      <4> SUFFICES ASSUME NEW i \in 1..(k - 1) PROVE E[i] \in DOMAIN record /\ E[i] < E[k]
        OBVIOUS
      <4>1. i \in 1..Len(E) /\ i < k
        BY <1>1, <3>1
      <4> QED BY <1>1, <3>1, <4>1 DEF Ascends
    <3>6. E[k] \in DOMAIN record /\ g[k] = FoldedIn(g[k - 1], record[E[k]])
      BY <1>1, <1>3, <3>1 DEF Folds
    <3> HIDE DEF H, Bad
    <3>7. H(k - 1) \in SUBSET DOMAIN record
      BY <3>5
    <3>8. Shown(FoldedIn(g[k - 1], record[E[k]]), H(k - 1) \cup {E[k]})
      BY <3>3, <3>5, <3>6, <3>7, ShownGrows
    <3> QED BY <2>2, <3>4, <3>6, <3>8
  <2> QED BY <2>3, <2>4
<1>5. Len(E) \in 0..Len(E)
  BY <1>1
<1>6. Shown(g[Len(E)], H(Len(E)))
  <2> HIDE DEF H
  <2> QED BY <1>4, <1>5
<1>7. H(Len(E)) = Held(E)
  BY <1>1 DEF Held
<1> QED BY <1>3, <1>6, <1>7

\* What a true row tells: of what has begun and is listed; when none of its events is missing, what
\* the log says; and of an answered decision whose answer is in hand, never that it is pending.
LEMMA RowTells ==
    ASSUME LogInv, NEW H \in SUBSET DOMAIN record, NEW r, RowIsTrue(r, H), r.of \in Things
    PROVE  /\ r.of \notin Unlisted /\ Begun(r.of)
           /\ EventsOf(r.of) \subseteq H => r.is = Truth(r.of)
           /\ r.of \in Cards /\ Cardinality(EventsOf(r.of) \cap H) > 1 => r.is # "pending"
           /\ EndIn(r.of, H) => r.is = "whole"
<1> DEFINE x == r.of
<1>1. PICK b \in H : record[b].of = x /\ record[b].type \in Begins \cup {"agent.turn.completed"}
  BY DEF RowIsTrue
<1>2. b \in EventsOf(x) /\ x \notin Unlisted /\ Begun(x)
  <2>1. b \in EventsOf(x) /\ b \in DOMAIN record
    BY <1>1 DEF EventsOf
  <2> QED BY <1>1, <2>1, WhatIsSaid DEF Begun, Begins
<1>3. x \notin Replies => SaysLast(r, H)
  BY DEF RowIsTrue
<1>4. x \in Replies => SaysText(r, H)
  BY DEF RowIsTrue
<1>5. \A m \in EventsOf(x) : m \in DOMAIN record /\ record[m].of = x
  BY DEF EventsOf
<1>6. ASSUME EventsOf(x) \subseteq H PROVE r.is = Truth(x)
  <2>1. CASE x \notin Replies
    <3>1. PICK n \in H : record[n].of = x /\ record[n].says = r.is /\
          \A m \in H : record[m].of = x => m <= n
      BY <1>3, <2>1 DEF SaysLast
    <3>2. n \in EventsOf(x) /\ record[n].type \in Telling
      <4>1. n \in EventsOf(x) /\ n \in DOMAIN record
        BY <3>1 DEF EventsOf
      <4> QED BY <1>2, <2>1, <3>1, <4>1, WhatIsSaid
    <3>3. \A m \in EventsOf(x) : m <= n
      BY <1>5, <1>6, <3>1
    <3>4. Is(x) = r.is
      BY <3>1, <3>2, <3>3, LastWord
    <3> QED BY <2>1, <3>4 DEF Truth
  <2>2. CASE x \in Replies /\ Ended(x)
    <3>1. PICK n \in EventsOf(x) : record[n].type = "agent.turn.completed"
      BY <2>2 DEF Ended
    <3>2. record[n].says = "whole" /\ record[n].of = x /\ n \in DOMAIN record
      BY <1>5, <3>1, WhatIsSaid
    <3>3. \A m \in EventsOf(x) : m <= n
      BY <3>1, <3>2 DEF LogInv, EndsLast, Endings
    <3>4. Is(x) = "whole"
      BY <3>1, <3>2, <3>3, LastWord DEF Telling, Changes
    <3>5. EndIn(x, H)
      BY <1>6, <3>1, <3>2 DEF EndIn
    <3> QED BY <1>4, <2>2, <3>4, <3>5 DEF SaysText, Truth
  <2>3. CASE x \in Replies /\ ~Ended(x)
    <3>1. ~EndIn(x, H)
      BY <2>3 DEF EndIn, Ended, EventsOf
    <3>2. NoneMissing(x, H)
      BY <1>6 DEF NoneMissing
    <3>3. PiecesIn(x, H) = {n \in EventsOf(x) : record[n].type = "agent.turn.delta"}
      BY <1>5, <1>6 DEF PiecesIn, EventsOf
    <3> QED BY <1>4, <2>3, <3>1, <3>2, <3>3 DEF SaysText, Truth, Pieces
  <2> QED BY <2>1, <2>2, <2>3
<1>7. ASSUME x \in Cards, Cardinality(EventsOf(x) \cap H) > 1, r.is = "pending" PROVE FALSE
  <2>1. x \notin Replies
    BY <1>7, OneKind
  <2>2. PICK n \in H : record[n].of = x /\ record[n].says = "pending" /\
        \A m \in H : record[m].of = x => m <= n
    BY <1>3, <1>7, <2>1 DEF SaysLast
  <2>3. n \in DOMAIN record /\ record[n].type = "decision"
    BY <1>7, <2>2, WhatIsSaid
  <2>4. \A m \in EventsOf(x) : n <= m
    BY <2>2, <2>3 DEF LogInv, BeginsFirst, Begins
  <2>5. \A m \in EventsOf(x) \cap H : m = n
    <3>1. \A m \in EventsOf(x) \cap H : m \in Nat /\ n \in Nat /\ n <= m /\ m <= n
      BY <1>5, <2>2, <2>3, <2>4, EntryFits
    <3> QED BY <3>1
  <2>6. EventsOf(x) \cap H = {n}
    BY <2>2, <2>3, <2>5 DEF EventsOf
  <2>7. Cardinality({n}) = 1
    BY FS_Singleton
  <2> QED BY <1>7, <2>6, <2>7
<1>8. EndIn(x, H) => r.is = "whole"
  <2> SUFFICES ASSUME EndIn(x, H) PROVE x \in Replies
    BY <1>4 DEF SaysText
  <2> QED BY WhatIsSaid DEF EndIn
<1> QED BY <1>2, <1>6, <1>7, <1>8

\* What a page of the room shows.
LEMMA PageShows ==
    ASSUME LogInv, NEW v, screen[v].events \in Seq(DOMAIN record), Ascends(screen[v].events)
    PROVE  /\ Shown(Items(v), InHand(v)) /\ InHand(v) \in SUBSET DOMAIN record
           /\ \A i \in DOMAIN Items(v) : Items(v)[i].of \in Things =>
                LET r == Items(v)[i] IN
                /\ RowIsTrue(r, InHand(v)) /\ r.of \notin Unlisted /\ Begun(r.of)
                /\ EventsOf(r.of) \subseteq InHand(v) => r.is = Truth(r.of)
                /\ r.of \in Cards /\ Cardinality(EventsOf(r.of) \cap InHand(v)) > 1 => r.is # "pending"
                /\ EndIn(r.of, InHand(v)) => r.is = "whole"
<1>1. Items(v) = ItemsOf(screen[v].events) /\ InHand(v) = Held(screen[v].events)
  BY DEF Items, ItemsOf, InHand, Held
<1>2. InHand(v) \in SUBSET DOMAIN record
  BY LenProperties DEF InHand
<1>3. Shown(Items(v), InHand(v))
  BY <1>1, PageIsTrue
<1> QED BY <1>2, <1>3, RowTells DEF Shown

-----------------------------------------------------------------------------
(* What holds in every state of the screens. *)

PageType == [open : BOOLEAN, events : Seq(Nat), oldest : Nat, up : {"no", "opening", "yes"},
             stopped : BOOLEAN, refused : BOOLEAN, banner : BOOLEAN]

\* A control that was pressed is the room's or of what has begun, and of the page of standing
\* orders it is of an order, or of one still to come that its maker makes.
OfRoom(c) == \/ c.does = "set"
             \/ c.does \in {"APPROVED", "DENIED"} /\ c.of \in Cards /\ Begun(c.of)
             \/ c.does = "lower" /\ c.of \in Chips /\ Begun(c.of)
OfLoops(v, c) == \/ c.does \in {"pause", "resume", "revoke", "edit"} /\ c.of \in Routines /\ Begun(c.of)
                 \/ c.does = "create" /\ c.of \in Routines \cap story /\ MakerOf[c.of] = v /\
                    ~Begun(c.of)

StoryKept == story \in Stories /\ lapsed \in SUBSET Cards /\ clicks \in 0..MaxClicks /\
  \A n \in DOMAIN record : record[n].of \in story
PagesKept == /\ screen \in [Viewers -> PageType]
             /\ \A v \in Viewers : /\ Ascends(screen[v].events) /\ InHand(v) \subseteq DOMAIN record
                                   /\ screen[v].oldest <= Len(record)
FramesKept == frames \in [Viewers -> Seq(Controls)] /\
  \A v \in Viewers : \A i \in DOMAIN frames[v] : OfRoom(frames[v][i])
LoopsKept == /\ loopsPage = [v \in Viewers |-> loopsPage[v]]
             /\ \A v \in Viewers : /\ DOMAIN loopsPage[v] = {"given", "asked", "error"}
                                   /\ loopsPage[v].asked \in Controls \cup {NoPress}
                                   /\ loopsPage[v].asked # NoPress => OfLoops(v, loopsPage[v].asked)
                                   /\ \A o \in DOMAIN loopsPage[v].given : o \in Routines /\ Begun(o)
CauseKept == \A v \in Viewers : screen[v].stopped =>
    screen[v].refused \/ \E n \in DOMAIN record : record[n].of \in Cards \cup Chips
ScreensInv == StoryKept /\ LogInv /\ PagesKept /\ FramesKept /\ LoopsKept /\ CauseKept

\* The log only grows.
Grown == record' = record \/ \E e \in Entries : record' = Append(record, e)

\* What has begun has begun for good.
LEMMA GrownKeeps ==
    ASSUME LogInv, Grown
    PROVE  /\ Len(record) \in Nat /\ Len(record') \in Nat /\ Len(record) <= Len(record')
           /\ \A n \in DOMAIN record : n \in DOMAIN record' /\ record'[n] = record[n]
           /\ \A x : Begun(x) => Begun(x)'
           /\ record' = record => \A x : Begun(x)' <=> Begun(x)
<1>1. Len(record) \in Nat
  BY LenProperties DEF LogInv
<1>2. CASE record' = record
  BY <1>1, <1>2 DEF Begun, EventsOf
<1>3. CASE \E e \in Entries : record' = Append(record, e)
  <2>1. PICK e \in Entries : record' = Append(record, e)
    BY <1>3
  <2>2. /\ Len(record') = Len(record) + 1 /\ DOMAIN record \subseteq DOMAIN record'
        /\ \A n \in DOMAIN record : record'[n] = record[n]
        /\ \A x : Begun(x) => Begun(x)'
    BY <2>1, LogStays
  <2>3. record' # record
    BY <1>1, <2>2
  <2> QED BY <1>1, <2>2, <2>3
<1> QED BY <1>2, <1>3 DEF Grown

\* What stays as it is while the log grows stays right.
LEMMA LogUnmoved == ASSUME LogInv, record' = record PROVE LogInv' /\ Grown
  BY DEF LogInv, BeginsFirst, EndsLast, PiecesCount, EventsOf, Grown

\* The pages of the room stay right while the log grows.
LEMMA PagesStay == ASSUME LogInv, PagesKept, Grown, screen' = screen PROVE PagesKept'
<1>1. Len(record) <= Len(record') /\ Len(record) \in Nat /\ Len(record') \in Nat /\
      DOMAIN record \subseteq DOMAIN record'
  BY GrownKeeps
<1>2. \A v \in Viewers : screen[v].oldest \in Nat /\ InHand(v)' = InHand(v)
  BY DEF PagesKept, PageType, InHand
<1> QED BY <1>1, <1>2 DEF PagesKept, Ascends

\* So does what is sent and not yet handled.
LEMMA FramesStay == ASSUME LogInv, FramesKept, Grown, frames' = frames PROVE FramesKept'
<1>1. \A x : Begun(x) => Begun(x)'
  BY GrownKeeps
<1> QED BY <1>1 DEF FramesKept, OfRoom

\* So do the pages of standing orders, when no order is new.
LEMMA LoopsStay ==
    ASSUME LogInv, LoopsKept, Grown, loopsPage' = loopsPage, story' = story,
           \A o \in Routines : Begun(o)' => Begun(o)
    PROVE  LoopsKept'
<1>1. \A x : Begun(x) => Begun(x)'
  BY GrownKeeps
<1> QED BY <1>1 DEF LoopsKept, OfLoops

\* A page that stops in this step does so for a cause.
LEMMA CauseStays ==
    ASSUME LogInv, CauseKept, Grown,
           \A w \in Viewers : \/ screen'[w].stopped = screen[w].stopped /\
                                 screen'[w].refused = screen[w].refused
                              \/ screen'[w].refused
                              \/ \E n \in DOMAIN record : record[n].of \in Cards \cup Chips
    PROVE  CauseKept'
<1>1. \A n \in DOMAIN record : n \in DOMAIN record' /\ record'[n] = record[n]
  BY GrownKeeps
<1> QED BY <1>1 DEF CauseKept

\* A step of one page.
LEMMA OnePageMoves ==
    ASSUME PagesKept, record' = record, NEW v \in Viewers, screen' \in [Viewers -> PageType],
           \A w \in Viewers \ {v} : screen'[w] = screen[w],
           Ascends(screen'[v].events), Held(screen'[v].events) \subseteq DOMAIN record,
             screen'[v].oldest <= Len(record)
    PROVE  PagesKept'
<1> SUFFICES ASSUME NEW w \in Viewers
             PROVE  Ascends(screen'[w].events) /\ Held(screen'[w].events) \subseteq DOMAIN record /\
               screen'[w].oldest <= Len(record)
  BY DEF PagesKept, InHand, Held, Ascends
<1>1. CASE w = v
  BY <1>1
<1>2. CASE w # v
  BY <1>2 DEF PagesKept, InHand, Held, Ascends
<1> QED BY <1>1, <1>2

\* Who watches is a member, and who acts on what.
LEMMA WatchersAreMembers == ASSUME StoryKept
    PROVE story \subseteq Things /\ WatchedBy[story] \subseteq Viewers /\ RunBy[story] \subseteq Viewers
  BY ScreensAssumption DEF StoryKept

\* It holds at the start.
LEMMA ScreensStart == ScreensInit => ScreensInv
<1> SUFFICES ASSUME ScreensInit PROVE ScreensInv
  OBVIOUS
<1> USE DEF ScreensInit
<1>1. record = <<>> /\ DOMAIN record = {} /\ Len(record) = 0
  OBVIOUS
<1>2. StoryKept
  BY <1>1, ScreensAssumption DEF StoryKept
<1>3. LogInv
  BY <1>1 DEF LogInv, BeginsFirst, EndsLast, PiecesCount
<1>4. PagesKept
  <2>1. screen \in [Viewers -> PageType]
    BY DEF PageType
  <2>2. \A v \in Viewers : screen[v].events = <<>> /\ screen[v].oldest = 0
    OBVIOUS
  <2> QED BY <1>1, <2>1, <2>2 DEF PagesKept, Ascends, InHand
<1>5. FramesKept
  BY DEF FramesKept
<1>6. LoopsKept
  BY DEF LoopsKept
<1>7. CauseKept
  BY DEF CauseKept
<1> QED BY <1>2, <1>3, <1>4, <1>5, <1>6, <1>7 DEF ScreensInv

\* The room appends an event of what is not an order, or of one that has begun.
LEMMA RoomAppends ==
    ASSUME ScreensInv, LogInv', NEW e \in Entries, record' = Append(record, e), e.of \in story,
           e.of \notin Routines \/ Begun(e.of),
           UNCHANGED <<story, lapsed, screen, loopsPage, frames, clicks>>
    PROVE  ScreensInv'
<1>1. LogInv /\ Grown
  BY DEF ScreensInv, Grown
<1>2. /\ \A n \in DOMAIN record : record'[n] = record[n]
      /\ \A n \in DOMAIN record' : n \in DOMAIN record \/ record'[n] = e
      /\ \A x : Begun(x)' => Begun(x) \/ x = e.of
  BY <1>1, LogStays
<1>3. StoryKept'
  BY <1>2 DEF ScreensInv, StoryKept
<1>4. PagesKept' /\ FramesKept'
  BY <1>1, PagesStay, FramesStay DEF ScreensInv
<1>5. LoopsKept'
  BY <1>1, <1>2, LoopsStay DEF ScreensInv
<1>6. CauseKept'
  BY <1>1, CauseStays DEF ScreensInv
<1> QED BY <1>3, <1>4, <1>5, <1>6 DEF ScreensInv

\* A thing begins, of what the behaviour is about.
LEMMA BeginKeeps == ASSUME ScreensInv, NEW x \in Things, Begin(x) PROVE ScreensInv'
<1>1. LogInv /\ story \subseteq Things
  BY WatchersAreMembers DEF ScreensInv
<1>2. LogInv' /\ \E e \in Entries : record' = Append(record, e) /\ e.of = x /\ x \in story
  BY <1>1, BeginGrows
<1>3. x \notin Routines /\ UNCHANGED <<story, lapsed, screen, loopsPage, frames, clicks>>
  BY DEF Begin
<1> QED BY <1>2, <1>3, RoomAppends

\* A thing goes on.
LEMMA ProceedsKeeps == ASSUME ScreensInv, NEW x \in Things, Proceeds(x) PROVE ScreensInv'
<1>1. LogInv
  BY DEF ScreensInv
<1>2. LogInv' /\ \E e \in Entries : record' = Append(record, e) /\ e.of = x
  BY <1>1, ProceedGrows
<1>3. Begun(x) /\ UNCHANGED <<story, lapsed, screen, loopsPage, frames, clicks>>
  BY DEF Proceeds
<1>4. x \in story
  BY <1>3 DEF ScreensInv, StoryKept, Begun, EventsOf
<1> QED BY <1>2, <1>3, <1>4, RoomAppends

\* The window of a decision passes.
LEMMA LapseKeeps == ASSUME ScreensInv, NEW d \in Cards, Lapse(d) PROVE ScreensInv'
<1>1. LogInv /\ record' = record
  BY DEF ScreensInv, Lapse
<1>2. LogInv' /\ Grown /\ \A x : Begun(x)' <=> Begun(x)
  BY <1>1, LogUnmoved, GrownKeeps
<1>3. StoryKept'
  BY DEF Lapse, ScreensInv, StoryKept
<1>4. PagesKept' /\ FramesKept' /\ LoopsKept' /\ CauseKept'
  BY <1>1, <1>2, PagesStay, FramesStay, LoopsStay, CauseStays DEF ScreensInv, Lapse
<1> QED BY <1>2, <1>3, <1>4 DEF ScreensInv

-----------------------------------------------------------------------------
(* A step of a page of the room. *)

\* What is sorted into a page is in hand and in order.
LEMMA SortedIn ==
    ASSUME NEW E \in Seq(Nat), Once(E)
    PROVE  Sorted(E) \in Seq(Nat) /\ Ascends(Sorted(E)) /\ Held(Sorted(E)) = Held(E)
<1>1. /\ DOMAIN Sorted(E) = DOMAIN E /\ Held(Sorted(E)) = Held(E) /\ Ascends(Sorted(E))
  BY SortedAscends
<1>2. Len(E) \in Nat /\ DOMAIN E = 1..Len(E) /\ Held(E) \subseteq Nat
  BY LenProperties DEF Held
<1>3. \A i \in 1..Len(E) : Sorted(E)[i] \in Nat
  BY <1>1, <1>2 DEF Held
<1>4. Sorted(E) = [i \in 1..Len(E) |-> Sorted(E)[i]]
  BY <1>2 DEF Sorted
<1> DEFINE s == Sorted(E)
<1> HIDE DEF s
<1>5. s \in [1..Len(E) -> Nat]
  BY <1>3, <1>4 DEF s
<1>6. s \in Seq(Nat)
  BY <1>2, <1>5, SeqDef
<1> QED BY <1>1, <1>6 DEF s

\* The events of a step that changes none but its page's, and not its end.
LEMMA PageStepKeeps ==
    ASSUME ScreensInv, NEW v \in Viewers, PagesKept', FramesKept',
           UNCHANGED <<story, record, lapsed, loopsPage>>, clicks' \in 0..MaxClicks,
           \A w \in Viewers : \/ screen'[w].stopped = screen[w].stopped /\
                                 screen'[w].refused = screen[w].refused
                              \/ screen'[w].refused
    PROVE  ScreensInv'
<1>1. LogInv
  BY DEF ScreensInv
<1>2. LogInv' /\ Grown /\ \A x : Begun(x)' <=> Begun(x)
  BY <1>1, LogUnmoved, GrownKeeps
<1>3. StoryKept'
  BY DEF ScreensInv, StoryKept
<1>4. LoopsKept' /\ CauseKept'
  BY <1>1, <1>2, LoopsStay, CauseStays DEF ScreensInv
<1> QED BY <1>2, <1>3, <1>4 DEF ScreensInv

\* A page of the log in hand.
LEMMA InHandIsOnce ==
    ASSUME PagesKept, NEW v \in Viewers
    PROVE  /\ screen[v] \in PageType /\ screen[v].events \in Seq(Nat) /\ Once(screen[v].events)
           /\ Held(screen[v].events) = InHand(v) /\ InHand(v) \subseteq DOMAIN record
<1>1. screen[v] \in PageType /\ screen[v].events \in Seq(Nat) /\
      InHand(v) \subseteq DOMAIN record /\ Ascends(screen[v].events)
  BY DEF PagesKept, PageType
<1> DEFINE E == screen[v].events
<1>2. \A i, j \in DOMAIN E : i \in Nat /\ j \in Nat /\ E[i] \in Nat
  BY <1>1, LenProperties
<1>3. Once(E)
  <2> SUFFICES ASSUME NEW i \in DOMAIN E, NEW j \in DOMAIN E, E[i] = E[j] PROVE i = j
    BY DEF Once
  <2>1. (i < j => E[i] < E[j]) /\ (j < i => E[j] < E[i])
    BY <1>1 DEF Ascends
  <2> HIDE DEF E
  <2> QED BY <1>2, <2>1
<1> QED BY <1>1, <1>3 DEF Held, InHand

\* A page is given other events, sorted.
LEMMA EventsGiven ==
    ASSUME ScreensInv, NEW v \in Viewers, NEW E \in Seq(Nat), Once(E), Held(E) \subseteq DOMAIN record,
           NEW p \in PageType, p.events = Sorted(E), p.oldest <= Len(record),
             p.stopped = screen[v].stopped, p.refused = screen[v].refused,
           screen' = [screen EXCEPT ![v] = p],
             UNCHANGED <<story, record, lapsed, loopsPage, frames, clicks>>
    PROVE  ScreensInv'
<1>1. Ascends(p.events) /\ Held(p.events) \subseteq DOMAIN record
  BY SortedIn
<1>2. PagesKept /\ screen \in [Viewers -> PageType]
  BY DEF ScreensInv, PagesKept
<1>3. screen' \in [Viewers -> PageType] /\ screen'[v] = p /\
      \A w \in Viewers \ {v} : screen'[w] = screen[w]
  BY <1>2
<1>4. PagesKept'
  BY <1>1, <1>2, <1>3, OnePageMoves
<1>5. FramesKept'
  BY LogUnmoved, FramesStay DEF ScreensInv
<1>6. clicks' \in 0..MaxClicks
  BY DEF ScreensInv, StoryKept
<1>7. \A w \in Viewers : screen'[w].stopped = screen[w].stopped /\
      screen'[w].refused = screen[w].refused
  BY <1>3
<1> QED BY <1>4, <1>5, <1>6, <1>7, PageStepKeeps

\* A page opens on the window above some floor.
LEMMA OpenPageKeeps == ASSUME ScreensInv, NEW v \in Viewers, OpenPage(v) PROVE ScreensInv'
<1>1. PICK floor \in 0..Len(record) :
         screen' = [screen EXCEPT ![v].open = TRUE, ![v].events = Sorted(SetToSeq(floor + 1..Len(record))),
                                  ![v].oldest = IF floor = Len(record) THEN 0 ELSE floor + 1]
  BY Zenon DEF OpenPage
<1> DEFINE S == floor + 1..Len(record)
           E == SetToSeq(S)
           o == IF floor = Len(record) THEN 0 ELSE floor + 1
           p == [screen[v] EXCEPT !.open = TRUE, !.events = Sorted(E), !.oldest = o]
<1>2. Len(record) \in Nat /\ DOMAIN record = 1..Len(record) /\ S \in SUBSET Nat /\
      S \subseteq DOMAIN record /\ o \in Nat /\ o <= Len(record)
  <2>1. Len(record) \in Nat /\ DOMAIN record = 1..Len(record)
    BY LenProperties DEF ScreensInv, LogInv
  <2>2. floor \in Nat /\ floor <= Len(record)
    BY <2>1
  <2>3. o \in Nat /\ o <= Len(record)
    <3> DEFINE L == Len(record)
    <3>1. L \in Nat /\ floor \in Nat /\ floor <= L
      BY <2>1, <2>2
    <3> HIDE DEF L
    <3>2. (IF floor = L THEN 0 ELSE floor + 1) \in Nat /\ (IF floor = L THEN 0 ELSE floor + 1) <= L
      BY <3>1
    <3> QED BY <3>2 DEF L
  <2>4. \A k \in S : k \in Nat /\ k \in 1..Len(record)
    BY <2>1, <2>2
  <2> HIDE DEF S, o
  <2> QED BY <2>1, <2>3, <2>4
<1> HIDE DEF S, E, o
<1>3. IsFiniteSet(S)
  BY <1>2, InHandFinite DEF ScreensInv
<1>4. E \in Seq(S) /\ Once(E)
  BY <1>2, <1>3, SetInSome DEF E
<1>5. E \in Seq(Nat) /\ Held(E) \subseteq DOMAIN record
  <2>1. Len(E) \in Nat /\ DOMAIN E = 1..Len(E) /\ \A i \in 1..Len(E) : E[i] \in S
    BY <1>4, LenProperties
  <2>2. E \in [1..Len(E) -> Nat]
    <3>1. E \in [1..Len(E) -> S]
      BY <1>4, LenProperties
    <3> QED BY <1>2, <3>1
  <2> QED BY <1>2, <2>1, <2>2, SeqDef DEF Held
<1>6. screen[v] \in PageType /\ screen \in [Viewers -> PageType]
  BY DEF ScreensInv, PagesKept
<1>7. screen' = [screen EXCEPT ![v] = p]
  BY <1>1, <1>6 DEF S, E, o
<1>8. Sorted(E) \in Seq(Nat)
  BY <1>4, <1>5, SortedIn
<1>9. p \in PageType /\ p.events = Sorted(E) /\ p.oldest = o /\ p.stopped = screen[v].stopped /\
      p.refused = screen[v].refused
  BY <1>2, <1>6, <1>8 DEF PageType
<1>20. UNCHANGED <<story, record, lapsed, loopsPage, frames, clicks>>
  BY DEF OpenPage
<1> HIDE DEF p
<1> QED BY <1>2, <1>4, <1>5, <1>7, <1>9, <1>20, EventsGiven

\* An event arrives that is not in hand.
LEMMA ArriveKeeps == ASSUME ScreensInv, NEW v \in Viewers, NEW n \in DOMAIN record, Arrive(v, n)
    PROVE ScreensInv'
<1> DEFINE old == screen[v].events
           E == Append(old, n)
           p == [screen[v] EXCEPT !.events = Sorted(E)]
<1>1. screen' = [screen EXCEPT ![v].events = Sorted(Append(@, n))] /\ n \notin InHand(v)
  BY DEF Arrive, New
<1>2. screen[v] \in PageType /\ old \in Seq(Nat) /\ Once(old) /\ Held(old) = InHand(v) /\
      InHand(v) \subseteq DOMAIN record
  BY InHandIsOnce DEF ScreensInv
<1>3. n \in Nat
  BY EntryFits DEF ScreensInv
<1>4. screen \in [Viewers -> PageType] /\ screen[v].oldest <= Len(record)
  BY DEF ScreensInv, PagesKept
<1>5. screen' = [screen EXCEPT ![v] = p]
  BY <1>1, <1>4
<1> HIDE DEF old
<1>6. Len(old) \in Nat /\ DOMAIN old = 1..Len(old)
  BY <1>2, LenProperties
<1>7. E \in Seq(Nat) /\ DOMAIN E = 1..(Len(old) + 1) /\ E[Len(old) + 1] = n /\
      \A i \in 1..Len(old) : E[i] = old[i]
  BY <1>2, <1>3, <1>6, AppendProperties, LenProperties
<1> HIDE DEF E
<1>8. Held(E) = Held(old) \cup {n}
  <2>1. \A i \in DOMAIN E : i \in DOMAIN old \/ i = Len(old) + 1
    BY <1>6, <1>7
  <2>2. Len(old) + 1 \in DOMAIN E /\ DOMAIN old \subseteq DOMAIN E
    BY <1>6, <1>7
  <2> QED BY <1>6, <1>7, <2>1, <2>2 DEF Held
<1>9. Once(E)
  <2> SUFFICES ASSUME NEW i \in DOMAIN E, NEW j \in DOMAIN E, E[i] = E[j] PROVE i = j
    BY DEF Once
  <2>1. (i \in DOMAIN old \/ i = Len(old) + 1) /\ (j \in DOMAIN old \/ j = Len(old) + 1)
    BY <1>6, <1>7
  <2>2. \A k \in DOMAIN old : E[k] = old[k] /\ old[k] # n
    BY <1>1, <1>2, <1>6, <1>7 DEF Held
  <2> QED BY <1>2, <1>7, <2>1, <2>2 DEF Once
<1>10. Sorted(E) \in Seq(Nat)
  BY <1>7, <1>9, SortedIn
<1>11. p \in PageType /\ p.events = Sorted(E) /\ p.oldest = screen[v].oldest /\
       p.stopped = screen[v].stopped /\ p.refused = screen[v].refused
  BY <1>2, <1>10 DEF PageType
<1>20. UNCHANGED <<story, record, lapsed, loopsPage, frames, clicks>>
  BY DEF Arrive
<1> HIDE DEF p
<1> QED BY <1>2, <1>4, <1>5, <1>7, <1>8, <1>9, <1>11, <1>3, <1>20, EventsGiven

\* A page of older events is put before those in hand.
LEMMA LoadEarlierKeeps == ASSUME ScreensInv, NEW v \in Viewers, LoadEarlier(v) PROVE ScreensInv'
<1> DEFINE old == screen[v].events
           top == screen[v].oldest
<1>1. PICK from \in 1..top - 1 :
         screen' = [screen EXCEPT ![v].events = Sorted(SetToSeq((from..top - 1) \ InHand(v)) \o @),
                                  ![v].oldest = IF (from..top - 1) \ InHand(v) = {} THEN @ ELSE Min((from..top - 1) \ InHand(v))]
  BY DEF LoadEarlier
<1> DEFINE S == (from..top - 1) \ InHand(v)
           front == SetToSeq(S)
           E == front \o old
           o == IF S = {} THEN top ELSE Min(S)
           p == [screen[v] EXCEPT !.events = Sorted(E), !.oldest = o]
<1>2. screen[v] \in PageType /\ old \in Seq(Nat) /\ Once(old) /\ Held(old) = InHand(v) /\
      InHand(v) \subseteq DOMAIN record
  BY InHandIsOnce DEF ScreensInv
<1>3. screen \in [Viewers -> PageType] /\ top <= Len(record) /\ top \in Nat
  BY DEF ScreensInv, PagesKept, PageType
<1>4. Len(record) \in Nat /\ DOMAIN record = 1..Len(record)
  BY LenProperties DEF ScreensInv, LogInv
<1>5. S \in SUBSET Nat /\ S \subseteq DOMAIN record /\ S \cap InHand(v) = {}
  BY <1>3, <1>4
<1>6. screen' = [screen EXCEPT ![v] = p]
  BY <1>1, <1>3
<1> HIDE DEF S, old, top
<1>7. IsFiniteSet(S)
  BY <1>5, InHandFinite DEF ScreensInv
<1>8. front \in Seq(S) /\ Once(front)
  BY <1>5, <1>7, SetInSome
<1>9. o \in Nat /\ o <= Len(record)
  <2>1. CASE S = {}
    BY <1>3, <2>1
  <2>2. CASE S # {}
    <3>1. PICK m \in S : \A k \in S : m <= k
      BY <1>5, <2>2, LeastNumber
    <3>2. Min(S) \in S
      BY <3>1 DEF Min
    <3>3. \A k \in S : k \in Nat /\ k <= Len(record)
      BY <1>4, <1>5
    <3> QED BY <2>2, <3>2, <3>3
  <2> QED BY <2>1, <2>2
<1> HIDE DEF front, o
<1>10. /\ Len(front) \in Nat /\ DOMAIN front = 1..Len(front) /\ Held(front) \subseteq S /\
          front \in Seq(Nat)
       /\ Len(old) \in Nat /\ DOMAIN old = 1..Len(old)
  <2>1. Len(front) \in Nat /\ DOMAIN front = 1..Len(front) /\ \A i \in 1..Len(front) : front[i] \in S
    BY <1>8, LenProperties
  <2>2. front \in [1..Len(front) -> Nat]
    <3>1. front \in [1..Len(front) -> S]
      BY <1>8, LenProperties
    <3> QED BY <1>5, <3>1
  <2>3. Held(front) \subseteq S
    BY <2>1 DEF Held
  <2>4. front \in Seq(Nat)
    BY <2>1, <2>2, SeqDef
  <2>5. Len(old) \in Nat /\ DOMAIN old = 1..Len(old)
    BY <1>2, LenProperties
  <2> QED BY <2>1, <2>3, <2>4, <2>5
<1>11. /\ E \in Seq(Nat) /\ DOMAIN E = 1..(Len(front) + Len(old))
       /\ \A i \in DOMAIN front : E[i] = front[i]
       /\ \A i \in 1..(Len(front) + Len(old)) : i \in DOMAIN front \/
          (i - Len(front) \in DOMAIN old /\ E[i] = old[i - Len(front)] /\ i \notin DOMAIN front)
  BY <1>2, <1>10, ConcatProperties, LenProperties
<1> HIDE DEF E
<1>12. \A i \in DOMAIN E : (i \in DOMAIN front /\ E[i] = front[i]) \/
       (i - Len(front) \in DOMAIN old /\ E[i] = old[i - Len(front)])
  BY <1>11
<1>13. Held(E) \subseteq S \cup Held(old)
  BY <1>10, <1>12 DEF Held
<1>14. Once(E)
  <2> SUFFICES ASSUME NEW i \in DOMAIN E, NEW j \in DOMAIN E, E[i] = E[j] PROVE i = j
    BY DEF Once
  <2>0. i \in Nat /\ j \in Nat
    BY <1>10, <1>11
  <2>1. CASE i \in DOMAIN front /\ j \in DOMAIN front
    BY <1>8, <1>11, <2>1 DEF Once
  <2>2. CASE i \notin DOMAIN front /\ j \notin DOMAIN front
    <3>1. i - Len(front) = j - Len(front)
      BY <1>2, <1>12, <2>2 DEF Once
    <3> QED BY <1>10, <2>0, <3>1
  <2>3. \A k \in DOMAIN E : (k \in DOMAIN front => E[k] \in S) /\
        (k \notin DOMAIN front => E[k] \in InHand(v))
    BY <1>2, <1>10, <1>11, <1>12 DEF Held
  <2>4. (i \in DOMAIN front) <=> (j \in DOMAIN front)
    BY <1>5, <2>3
  <2> QED BY <2>1, <2>2, <2>4
<1>15. Sorted(E) \in Seq(Nat)
  BY <1>11, <1>14, SortedIn
<1>16. p \in PageType /\ p.events = Sorted(E) /\ p.oldest = o /\ p.stopped = screen[v].stopped /\
       p.refused = screen[v].refused
  BY <1>2, <1>9, <1>15 DEF PageType
<1>20. UNCHANGED <<story, record, lapsed, loopsPage, frames, clicks>>
  BY DEF LoadEarlier
<1> HIDE DEF p
<1> QED BY <1>2, <1>5, <1>6, <1>9, <1>11, <1>13, <1>14, <1>16, <1>20, EventsGiven

\* What a page of the room shows, in every state.
LEMMA PagesShow ==
    ASSUME ScreensInv, NEW v \in Viewers
    PROVE  /\ Shown(Items(v), InHand(v)) /\ InHand(v) \in SUBSET DOMAIN record
           /\ screen[v].events \in Seq(DOMAIN record)
           /\ \A i \in DOMAIN Items(v) : Items(v)[i].of \in Things =>
                LET r == Items(v)[i] IN
                /\ RowIsTrue(r, InHand(v)) /\ r.of \notin Unlisted /\ Begun(r.of)
                /\ EventsOf(r.of) \subseteq InHand(v) => r.is = Truth(r.of)
                /\ r.of \in Cards /\ Cardinality(EventsOf(r.of) \cap InHand(v)) > 1 => r.is # "pending"
                /\ EndIn(r.of, InHand(v)) => r.is = "whole"
<1>1. screen[v].events \in Seq(Nat) /\ InHand(v) \subseteq DOMAIN record
  BY InHandIsOnce DEF ScreensInv
<1>2. screen[v].events \in Seq(DOMAIN record)
  <2> DEFINE E == screen[v].events
             D == DOMAIN record
  <2>1. Len(E) \in Nat /\ DOMAIN E = 1..Len(E) /\ E \in [1..Len(E) -> Nat]
    BY <1>1, LenProperties
  <2>2. \A i \in 1..Len(E) : E[i] \in D
    BY <1>1, <2>1 DEF InHand
  <2> HIDE DEF E, D
  <2>3. E \in [1..Len(E) -> D]
    BY <2>1, <2>2
  <2>4. E \in Seq(D)
    BY <2>1, <2>3, SeqDef
  <2> QED BY <2>4 DEF E, D
<1>3. Ascends(screen[v].events) /\ LogInv
  BY DEF ScreensInv, PagesKept
<1> QED BY <1>2, <1>3, PageShows

\* What a page of the room offers is the room's, or of what has begun.
LEMMA OfferedIsOfRoom ==
    ASSUME ScreensInv, NEW v \in Viewers, NEW c \in Offered(v)
    PROVE  c \in Controls /\ OfRoom(c)
<1>1. CASE c \in OnCards(v)
  <2>1. PICK how \in {"APPROVED", "DENIED"},
        i \in DOMAIN Items(v) : c = [does |-> how, of |-> Items(v)[i].of] /\ Items(v)[i].of \in Cards
    BY <1>1 DEF OnCards
  <2>2. Begun(Items(v)[i].of)
    BY <2>1, PagesShow DEF Things
  <2> QED BY <2>1, <2>2 DEF Controls, OfRoom
<1>2. CASE c \in OnChips(v)
  <2>1. PICK i \in DOMAIN Items(v) : c = [does |-> "lower", of |-> Items(v)[i].of] /\
        Items(v)[i].of \in Chips
    BY <1>2 DEF OnChips
  <2>2. Begun(Items(v)[i].of)
    BY <2>1, PagesShow DEF Things
  <2> QED BY <2>1, <2>2 DEF Controls, OfRoom
<1>3. CASE c \in OnTools(v)
  BY <1>3 DEF OnTools, Controls, OfRoom
<1> QED BY <1>1, <1>2, <1>3 DEF Offered

\* A step of the socket: the page keeps its events.
LEMMA SocketKeeps ==
    ASSUME ScreensInv, NEW v \in Viewers, NEW p \in PageType, p.events = screen[v].events,
           p.oldest = screen[v].oldest,
           screen' = [screen EXCEPT ![v] = p], FramesKept',
             UNCHANGED <<story, record, lapsed, loopsPage>>, clicks' \in 0..MaxClicks,
           (p.stopped = screen[v].stopped /\ p.refused = screen[v].refused) \/ p.refused
    PROVE  ScreensInv'
<1>1. PagesKept /\ screen \in [Viewers -> PageType]
  BY DEF ScreensInv, PagesKept
<1>2. screen' \in [Viewers -> PageType] /\ screen'[v] = p /\
      \A w \in Viewers \ {v} : screen'[w] = screen[w]
  BY <1>1
<1>3. Ascends(p.events) /\ Held(p.events) \subseteq DOMAIN record /\ p.oldest <= Len(record)
  BY <1>1, InHandIsOnce DEF PagesKept
<1>4. PagesKept'
  BY <1>1, <1>2, <1>3, OnePageMoves
<1>5. \A w \in Viewers : \/ screen'[w].stopped = screen[w].stopped /\
                            screen'[w].refused = screen[w].refused
                         \/ screen'[w].refused
  BY <1>2
<1> QED BY <1>4, <1>5, PageStepKeeps

\* Nothing is sent.
LEMMA FramesSame == ASSUME ScreensInv, record' = record, UNCHANGED frames PROVE FramesKept'
  BY LogUnmoved, FramesStay DEF ScreensInv

\* What is sent is of the room.
LEMMA FramesMove ==
    ASSUME LogInv, Grown, frames' \in [Viewers -> Seq(Controls)],
           \A w \in Viewers : \A i \in DOMAIN frames'[w] : OfRoom(frames'[w][i])
    PROVE  FramesKept'
<1>1. \A x : Begun(x) => Begun(x)'
  BY GrownKeeps
<1> QED BY <1>1 DEF FramesKept, OfRoom

\* What is on a socket is lost.
LEMMA FramesLost ==
    ASSUME ScreensInv, record' = record, NEW v \in Viewers, frames' = [frames EXCEPT ![v] = <<>>]
    PROVE  FramesKept'
<1>1. frames \in [Viewers -> Seq(Controls)] /\
      \A w \in Viewers : \A i \in DOMAIN frames[w] : OfRoom(frames[w][i])
  BY DEF ScreensInv, FramesKept
<1>2. LogInv /\ Grown
  BY LogUnmoved DEF ScreensInv
<1>3. <<>> \in Seq(Controls) /\ DOMAIN <<>> = {}
  OBVIOUS
<1>4. frames' \in [Viewers -> Seq(Controls)] /\ frames'[v] = <<>> /\
      \A w \in Viewers \ {v} : frames'[w] = frames[w]
  BY <1>1, <1>3
<1>5. ASSUME NEW w \in Viewers, NEW i \in DOMAIN frames'[w] PROVE OfRoom(frames'[w][i])
  <2>1. CASE w = v
    BY <1>3, <1>4, <1>5, <2>1
  <2>2. CASE w # v
    BY <1>1, <1>4, <1>5, <2>2
  <2> QED BY <2>1, <2>2
<1> QED BY <1>2, <1>4, <1>5, FramesMove

\* A page connects.
LEMMA GoUpKeeps == ASSUME ScreensInv, NEW v \in Viewers, GoUp(v) PROVE ScreensInv'
<1> DEFINE p == [screen[v] EXCEPT !.up = "opening"]
<1>1. screen \in [Viewers -> PageType] /\ screen' = [screen EXCEPT ![v].up = "opening"]
  BY DEF GoUp, ScreensInv, PagesKept
<1>2. screen' = [screen EXCEPT ![v] = p] /\ screen[v] \in PageType
  BY <1>1
<1>3. p \in PageType /\ p.events = screen[v].events /\ p.oldest = screen[v].oldest /\
      p.stopped = screen[v].stopped /\ p.refused = screen[v].refused
  BY <1>2 DEF PageType
<1>4. UNCHANGED <<story, record, lapsed, loopsPage, frames, clicks>> /\ clicks \in 0..MaxClicks
  BY DEF GoUp, ScreensInv, StoryKept
<1> HIDE DEF p
<1> QED BY <1>2, <1>3, <1>4, FramesSame, SocketKeeps

\* Its handshake is accepted.
LEMMA AcceptKeeps == ASSUME ScreensInv, NEW v \in Viewers, Accept(v) PROVE ScreensInv'
<1> DEFINE p == [screen[v] EXCEPT !.up = "yes"]
<1>1. screen \in [Viewers -> PageType] /\ screen' = [screen EXCEPT ![v].up = "yes"]
  BY DEF Accept, ScreensInv, PagesKept
<1>2. screen' = [screen EXCEPT ![v] = p] /\ screen[v] \in PageType
  BY <1>1
<1>3. p \in PageType /\ p.events = screen[v].events /\ p.oldest = screen[v].oldest /\
      p.stopped = screen[v].stopped /\ p.refused = screen[v].refused
  BY <1>2 DEF PageType
<1>4. UNCHANGED <<story, record, lapsed, loopsPage, frames, clicks>> /\ clicks \in 0..MaxClicks
  BY DEF Accept, ScreensInv, StoryKept
<1> HIDE DEF p
<1> QED BY <1>2, <1>3, <1>4, FramesSame, SocketKeeps

\* Its handshake is refused: it stops, and has its cause.
LEMMA RefuseKeeps == ASSUME ScreensInv, NEW v \in Viewers, Refuse(v) PROVE ScreensInv'
<1> DEFINE p == [screen[v] EXCEPT !.up = "no", !.stopped = TRUE, !.refused = TRUE]
<1>1. screen \in [Viewers -> PageType] /\
      screen' = [screen EXCEPT ![v].up = "no", ![v].stopped = TRUE, ![v].refused = TRUE]
  BY DEF Refuse, ScreensInv, PagesKept
<1>2. screen' = [screen EXCEPT ![v] = p] /\ screen[v] \in PageType
  BY <1>1
<1>3. p \in PageType /\ p.events = screen[v].events /\ p.oldest = screen[v].oldest /\ p.refused
  BY <1>2 DEF PageType
<1>4. UNCHANGED <<story, record, lapsed, loopsPage, clicks>> /\ clicks \in 0..MaxClicks /\
      frames' = [frames EXCEPT ![v] = <<>>]
  BY DEF Refuse, ScreensInv, StoryKept
<1> HIDE DEF p
<1> QED BY <1>2, <1>3, <1>4, FramesLost, SocketKeeps

\* Its connection is lost.
LEMMA GoDownKeeps == ASSUME ScreensInv, NEW v \in Viewers, GoDown(v) PROVE ScreensInv'
<1> DEFINE p == [screen[v] EXCEPT !.up = "no"]
<1>1. screen \in [Viewers -> PageType] /\ screen' = [screen EXCEPT ![v].up = "no"]
  BY DEF GoDown, ScreensInv, PagesKept
<1>2. screen' = [screen EXCEPT ![v] = p] /\ screen[v] \in PageType
  BY <1>1
<1>3. p \in PageType /\ p.events = screen[v].events /\ p.oldest = screen[v].oldest /\
      p.stopped = screen[v].stopped /\ p.refused = screen[v].refused
  BY <1>2 DEF PageType
<1>4. UNCHANGED <<story, record, lapsed, loopsPage, clicks>> /\ clicks \in 0..MaxClicks /\
      frames' = [frames EXCEPT ![v] = <<>>]
  BY DEF GoDown, ScreensInv, StoryKept
<1> HIDE DEF p
<1> QED BY <1>2, <1>3, <1>4, FramesLost, SocketKeeps

\* A control is pressed: what is offered is of the room or of what has begun.
LEMMA ClickKeeps == ASSUME ScreensInv, NEW v \in Viewers, NEW c \in Offered(v), Click(v, c)
    PROVE ScreensInv'
<1> DEFINE b == screen[v].banner /\ c.does # "set"
           p == [screen[v] EXCEPT !.banner = b]
<1>1. screen \in [Viewers -> PageType] /\ screen' = [screen EXCEPT ![v].banner = @ /\ c.does # "set"]
  BY DEF Click, ScreensInv, PagesKept
<1>2. screen' = [screen EXCEPT ![v] = p] /\ screen[v] \in PageType
  BY <1>1
<1>3. p \in PageType /\ p.events = screen[v].events /\ p.oldest = screen[v].oldest /\
      p.stopped = screen[v].stopped /\ p.refused = screen[v].refused
  <2>1. b \in BOOLEAN
    BY <1>2 DEF PageType
  <2> HIDE DEF b
  <2> QED BY <1>2, <2>1 DEF PageType
<1>4. UNCHANGED <<story, record, lapsed, loopsPage>> /\ clicks' \in 0..MaxClicks
  <2>1. clicks \in 0..MaxClicks /\ clicks < MaxClicks /\ clicks' = clicks + 1 /\ MaxClicks \in Nat
    BY ScreensAssumption DEF Click, ScreensInv, StoryKept
  <2> QED BY <2>1 DEF Click
<1>5. FramesKept'
  <2>1. frames \in [Viewers -> Seq(Controls)] /\
        \A w \in Viewers : \A i \in DOMAIN frames[w] : OfRoom(frames[w][i])
    BY DEF ScreensInv, FramesKept
  <2>2. LogInv /\ Grown
    BY <1>4, LogUnmoved DEF ScreensInv
  <2>3. c \in Controls /\ OfRoom(c)
    BY OfferedIsOfRoom
  <2> DEFINE q == Append(frames[v], c)
             old == frames[v]
  <2>4. frames' = [frames EXCEPT ![v] = q]
    BY DEF Click
  <2>5. old \in Seq(Controls) /\ \A i \in DOMAIN old : OfRoom(old[i])
    BY <2>1
  <2>6. q \in Seq(Controls) /\ \A i \in DOMAIN q : OfRoom(q[i])
    <3> HIDE DEF old
    <3>1. Len(old) \in Nat /\ DOMAIN old = 1..Len(old)
      BY <2>5, LenProperties
    <3>2. q \in Seq(Controls) /\ DOMAIN q = 1..(Len(old) + 1) /\ q[Len(old) + 1] = c /\
          \A i \in 1..Len(old) : q[i] = old[i]
      BY <2>3, <2>5, <3>1, AppendProperties, LenProperties DEF old
    <3> HIDE DEF q
    <3>3. \A i \in DOMAIN q : i = Len(old) + 1 \/ i \in DOMAIN old
      BY <3>1, <3>2
    <3> QED BY <2>3, <2>5, <3>1, <3>2, <3>3
  <2> HIDE DEF q, old
  <2>7. frames' \in [Viewers -> Seq(Controls)] /\ frames'[v] = q /\
        \A w \in Viewers \ {v} : frames'[w] = frames[w]
    BY <2>1, <2>4, <2>6
  <2>8. ASSUME NEW w \in Viewers, NEW i \in DOMAIN frames'[w] PROVE OfRoom(frames'[w][i])
    <3>1. CASE w = v
      BY <2>6, <2>7, <2>8, <3>1
    <3>2. CASE w # v
      BY <2>1, <2>7, <2>8, <3>2
    <3> QED BY <3>1, <3>2
  <2> QED BY <2>2, <2>7, <2>8, FramesMove
<1> HIDE DEF p
<1> QED BY <1>2, <1>3, <1>4, <1>5, SocketKeeps

-----------------------------------------------------------------------------
(* A step of the server. *)

\* What is done was not refused.
LEMMA DoneIsTheirs == ASSUME NEW v, NEW c, "done" \in Verdicts(v, c)
    PROVE ~NotTheirs(v, c) /\ ~MovedOn(c)
  BY DEF Verdicts

\* What a done command appends is of what it was pressed for.
LEMMA EffectIsOwn ==
    ASSUME LogInv, NEW c, Effect(c), ~MovedOn(c), c.of \in Things,
           \/ c.does \in {"APPROVED", "DENIED"} /\ c.of \in Cards /\ Begun(c.of)
           \/ c.does = "lower" /\ c.of \in Chips /\ Begun(c.of)
           \/ c.does \in {"pause", "resume", "revoke", "edit"} /\ c.of \in Routines /\ Begun(c.of)
           \/ c.does = "create" /\ c.of \in Routines /\ ~Begun(c.of)
    PROVE  /\ LogInv' /\ Grown
           /\ \A n \in DOMAIN record' : n \in DOMAIN record \/ record'[n].of = c.of
           /\ \A x : Begun(x)' => Begun(x) \/ x = c.of
<1>1. LogInv' /\ (record' = record \/ \E e \in Entries : record' = Append(record, e) /\ e.of = c.of)
  BY EffectGrows
<1>2. CASE record' = record
  BY <1>1, <1>2, LogUnmoved, GrownKeeps
<1>3. CASE \E e \in Entries : record' = Append(record, e) /\ e.of = c.of
  <2>1. PICK e \in Entries : record' = Append(record, e) /\ e.of = c.of
    BY <1>3
  <2>2. /\ \A n \in DOMAIN record' : n \in DOMAIN record \/ record'[n] = e
        /\ \A x : Begun(x)' => Begun(x) \/ x = e.of
    BY <2>1, LogStays
  <2> QED BY <1>1, <2>1, <2>2 DEF Grown
<1> QED BY <1>1, <1>2, <1>3

\* Of a frame that is done, and of a tool's that leaves the room's log alone.
LEMMA FrameIsDone ==
    ASSUME ScreensInv, NEW c, OfRoom(c), Effect(c), ~MovedOn(c)
    PROVE  /\ LogInv' /\ Grown
           /\ \A n \in DOMAIN record' : n \in DOMAIN record \/ record'[n].of \in story
           /\ \A o \in Routines : Begun(o)' => Begun(o)
<1>0. LogInv
  BY DEF ScreensInv
<1>1. CASE c.does = "set"
  <2>1. record' = record
    BY <1>1 DEF Effect
  <2> QED BY <1>0, <2>1, LogUnmoved, GrownKeeps
<1>2. CASE c.does # "set"
  <2>1. /\ c.of \in Things /\ c.of \notin Routines /\ Begun(c.of)
        /\ \/ c.does \in {"APPROVED", "DENIED"} /\ c.of \in Cards /\ Begun(c.of)
           \/ c.does = "lower" /\ c.of \in Chips /\ Begun(c.of)
    BY <1>2, OneKind DEF OfRoom, Things
  <2>2. c.of \in story
    BY <2>1 DEF ScreensInv, StoryKept, Begun, EventsOf
  <2> QED BY <1>0, <2>1, <2>2, EffectIsOwn
<1> QED BY <1>1, <1>2

\* A frame is handled: refused, which may stop its page, or done.
LEMMA HandleKeeps == ASSUME ScreensInv, NEW v \in Viewers, Handle(v) PROVE ScreensInv'
<1> DEFINE c == Head(frames[v])
           q == Tail(frames[v])
<1>0. LogInv /\ UNCHANGED <<story, lapsed, loopsPage, clicks>>
  BY DEF ScreensInv, Handle
<1>1. /\ frames \in [Viewers -> Seq(Controls)] /\ frames[v] # <<>>
      /\ \A w \in Viewers : \A i \in DOMAIN frames[w] : OfRoom(frames[w][i])
  BY DEF ScreensInv, FramesKept, Handle
<1>2. OfRoom(c) /\ q \in Seq(Controls) /\ \A i \in DOMAIN q : OfRoom(q[i])
  <2> DEFINE s == frames[v]
  <2>1. s \in Seq(Controls) /\ s # <<>> /\ \A i \in DOMAIN s : OfRoom(s[i])
    BY <1>1
  <2> HIDE DEF s
  <2>2. Len(s) \in Nat /\ Len(s) # 0 /\ DOMAIN s = 1..Len(s)
    BY <2>1, EmptySeq, LenProperties
  <2>3. Head(s) = s[1] /\ Tail(s) \in Seq(Controls) /\ Len(Tail(s)) = Len(s) - 1 /\
        \A i \in 1..Len(Tail(s)) : Tail(s)[i] = s[i + 1]
    BY <2>1, <2>2, HeadTailProperties
  <2>4. DOMAIN Tail(s) = 1..Len(Tail(s))
    BY <2>3, LenProperties
  <2>5. \A i \in 1..Len(Tail(s)) : i + 1 \in DOMAIN s
    BY <2>2, <2>3
  <2> QED BY <2>1, <2>2, <2>3, <2>4, <2>5 DEF s
<1> HIDE DEF c, q
<1>3. /\ frames' \in [Viewers -> Seq(Controls)]
      /\ \A w \in Viewers : \A i \in DOMAIN frames'[w] : OfRoom(frames'[w][i])
  <2>1. frames' = [frames EXCEPT ![v] = q]
    BY DEF Handle, q
  <2>2. frames' \in [Viewers -> Seq(Controls)] /\ frames'[v] = q /\
        \A w \in Viewers \ {v} : frames'[w] = frames[w]
    BY <1>1, <1>2, <2>1
  <2> QED BY <1>1, <1>2, <2>2
<1>4. CASE screen' = ShowError(v, c) /\ record' = record
  <2>1. LogInv' /\ Grown /\ \A x : Begun(x)' <=> Begun(x)
    BY <1>0, <1>4, LogUnmoved, GrownKeeps
  <2>2. StoryKept'
    BY <1>0, <1>4 DEF ScreensInv, StoryKept
  <2>3. FramesKept' /\ LoopsKept'
    BY <1>0, <1>3, <2>1, FramesMove, LoopsStay DEF ScreensInv
  <2> DEFINE p == IF IsCommandRefusal(c) THEN [screen[v] EXCEPT !.banner = TRUE] ELSE [screen[v] EXCEPT !.stopped = TRUE]
  <2>4. screen \in [Viewers -> PageType] /\ screen[v] \in PageType /\ PagesKept
    BY DEF ScreensInv, PagesKept
  <2>5. screen' = [screen EXCEPT ![v] = p]
    BY <1>4, <2>4 DEF ShowError
  <2>6. /\ p \in PageType /\ p.events = screen[v].events /\ p.oldest = screen[v].oldest /\
           p.refused = screen[v].refused
        /\ c.does = "set" => p.stopped = screen[v].stopped
    BY <2>4 DEF PageType, IsCommandRefusal
  <2> HIDE DEF p
  <2>7. screen' \in [Viewers -> PageType] /\ screen'[v] = p /\
        \A w \in Viewers \ {v} : screen'[w] = screen[w]
    BY <2>4, <2>5, <2>6
  <2>8. PagesKept'
    <3>1. Ascends(p.events) /\ Held(p.events) \subseteq DOMAIN record /\ p.oldest <= Len(record)
      BY <2>4, <2>6, InHandIsOnce DEF PagesKept
    <3> QED BY <1>4, <2>4, <2>7, <3>1, OnePageMoves
  <2>9. CauseKept'
    <3>1. c.does = "set" \/ \E n \in DOMAIN record : record[n].of \in Cards \cup Chips
      BY <1>2 DEF OfRoom, Begun, EventsOf
    <3>2. \A w \in Viewers : \/ screen'[w].stopped = screen[w].stopped /\
                                screen'[w].refused = screen[w].refused
                             \/ \E n \in DOMAIN record : record[n].of \in Cards \cup Chips
      BY <2>6, <2>7, <3>1
    <3> QED BY <1>0, <2>1, <3>2, CauseStays DEF ScreensInv
  <2> QED BY <2>1, <2>2, <2>3, <2>8, <2>9 DEF ScreensInv
<1>5. CASE "done" \in Verdicts(v, c) /\ Effect(c) /\ screen' = screen
  <2>1. ~MovedOn(c)
    BY <1>5, DoneIsTheirs
  <2>2. /\ LogInv' /\ Grown
        /\ \A n \in DOMAIN record' : n \in DOMAIN record \/ record'[n].of \in story
        /\ \A o \in Routines : Begun(o)' => Begun(o)
    BY <1>2, <1>5, <2>1, FrameIsDone
  <2>3. StoryKept'
    <3>1. \A n \in DOMAIN record : record'[n] = record[n]
      BY <1>0, <2>2, GrownKeeps
    <3> QED BY <1>0, <2>2, <3>1 DEF ScreensInv, StoryKept
  <2>4. PagesKept' /\ FramesKept' /\ LoopsKept' /\ CauseKept'
    BY <1>0, <1>3, <1>5, <2>2, PagesStay, FramesMove, LoopsStay, CauseStays DEF ScreensInv
  <2> QED BY <2>2, <2>3, <2>4 DEF ScreensInv
<1> QED BY <1>4, <1>5 DEF Handle, c

-----------------------------------------------------------------------------
(* A step of the page of standing orders. *)

\* One page of standing orders changes: only its maker makes an order begin.
LEMMA LoopsMove ==
    ASSUME ScreensInv, Grown, story' = story, NEW v \in Viewers, NEW r,
           loopsPage' = [loopsPage EXCEPT ![v] = r],
           DOMAIN r = {"given", "asked", "error"}, r.asked \in Controls \cup {NoPress},
           r.asked = NoPress \/ (OfLoops(v, r.asked) /\ record' = record),
           \A o \in DOMAIN r.given : o \in Routines /\ Begun(o)',
           \A o \in Routines : Begun(o)' => Begun(o) \/ MakerOf[o] = v
    PROVE  LoopsKept'
<1>1. /\ loopsPage = [w \in Viewers |-> loopsPage[w]]
      /\ \A w \in Viewers : /\ DOMAIN loopsPage[w] = {"given", "asked", "error"}
                            /\ loopsPage[w].asked \in Controls \cup {NoPress}
                            /\ loopsPage[w].asked # NoPress => OfLoops(w, loopsPage[w].asked)
                            /\ \A o \in DOMAIN loopsPage[w].given : o \in Routines /\ Begun(o)
  BY DEF ScreensInv, LoopsKept
<1>2. (\A x : Begun(x) => Begun(x)') /\ (record' = record => \A x : Begun(x)' <=> Begun(x))
  BY GrownKeeps DEF ScreensInv
<1>3. DOMAIN loopsPage = Viewers
  BY <1>1
<1>4. /\ loopsPage' = [w \in Viewers |-> loopsPage'[w]]
      /\ loopsPage'[v] = r /\ \A w \in Viewers \ {v} : loopsPage'[w] = loopsPage[w]
  BY <1>3
<1>5. ASSUME NEW w \in Viewers
      PROVE  /\ DOMAIN loopsPage'[w] = {"given", "asked", "error"} /\
                loopsPage'[w].asked \in Controls \cup {NoPress}
             /\ \A o \in DOMAIN loopsPage'[w].given : o \in Routines /\ Begun(o)'
  BY <1>1, <1>2, <1>4
<1>6. ASSUME NEW w \in Viewers, NEW c, c = loopsPage'[w].asked, c # NoPress
      PROVE  \/ c.does \in {"pause", "resume", "revoke", "edit"} /\ c.of \in Routines /\ Begun(c.of)'
             \/ c.does = "create" /\ c.of \in Routines \cap story' /\ MakerOf[c.of] = w /\ ~Begun(c.of)'
  <2>1. CASE w = v
    BY <1>2, <1>4, <1>6, <2>1 DEF OfLoops
  <2>2. CASE w # v
    <3>1. c = loopsPage[w].asked /\ OfLoops(w, c)
      BY <1>1, <1>4, <1>6, <2>2
    <3> QED BY <1>2, <2>2, <3>1 DEF OfLoops
  <2> QED BY <2>1, <2>2
<1> QED BY <1>4, <1>5, <1>6 DEF LoopsKept, OfLoops

\* The page of standing orders moves, and nothing else but the log and the count of clicks.
LEMMA LoopsStepKeeps ==
    ASSUME ScreensInv, LogInv', Grown, LoopsKept', UNCHANGED <<story, lapsed, screen, frames>>,
           clicks' \in 0..MaxClicks,
           \A n \in DOMAIN record' : n \in DOMAIN record \/ record'[n].of \in story
    PROVE  ScreensInv'
<1>1. LogInv /\ \A n \in DOMAIN record : record'[n] = record[n]
  BY GrownKeeps DEF ScreensInv
<1>2. StoryKept'
  BY <1>1 DEF ScreensInv, StoryKept
<1>3. PagesKept' /\ FramesKept' /\ CauseKept'
  BY <1>1, PagesStay, FramesStay, CauseStays DEF ScreensInv
<1> QED BY <1>2, <1>3 DEF ScreensInv

\* What a page of standing orders was given, and what was pressed.
LEMMA LoopsRow ==
    ASSUME ScreensInv, NEW v \in Viewers
    PROVE  /\ DOMAIN loopsPage = Viewers /\ DOMAIN loopsPage[v] = {"given", "asked", "error"}
           /\ \A o \in DOMAIN loopsPage[v].given : o \in Routines /\ Begun(o)
           /\ loopsPage[v].asked # NoPress => OfLoops(v, loopsPage[v].asked)
<1>1. /\ loopsPage = [w \in Viewers |-> loopsPage[w]] /\
         DOMAIN loopsPage[v] = {"given", "asked", "error"}
      /\ \A o \in DOMAIN loopsPage[v].given : o \in Routines /\ Begun(o)
      /\ loopsPage[v].asked # NoPress => OfLoops(v, loopsPage[v].asked)
  BY DEF ScreensInv, LoopsKept
<1> QED BY <1>1

\* The page is rendered with the orders as they are.
LEMMA OpenLoopsKeeps == ASSUME ScreensInv, NEW v \in Viewers, OpenLoops(v) PROVE ScreensInv'
<1>1. /\ loopsPage' = [loopsPage EXCEPT ![v] = [given |-> StatusesIn(record), asked |-> NoPress, error |-> FALSE]]
      /\ UNCHANGED <<story, record, lapsed, screen, frames, clicks>>
  BY DEF OpenLoops
<1>2. LogInv' /\ Grown /\ \A x : Begun(x)' <=> Begun(x)
  BY <1>1, LogUnmoved, GrownKeeps DEF ScreensInv
<1> DEFINE g == StatusesIn(record)
<1>3. \A o \in DOMAIN g : o \in Routines /\ Begun(o)'
  BY <1>2 DEF StatusesIn, Begun, EventsOf
<1> HIDE DEF g
<1> DEFINE r == [given |-> g, asked |-> NoPress, error |-> FALSE]
<1>4. /\ loopsPage' = [loopsPage EXCEPT ![v] = r]
      /\ DOMAIN r = {"given", "asked", "error"} /\ r.given = g /\ r.asked = NoPress
  BY <1>1 DEF g
<1> HIDE DEF r
<1>5. LoopsKept'
  BY <1>1, <1>2, <1>3, <1>4, LoopsMove
<1>6. clicks' \in 0..MaxClicks
  BY <1>1 DEF ScreensInv, StoryKept
<1> QED BY <1>1, <1>2, <1>5, <1>6, LoopsStepKeeps

\* A control is pressed, and the page is busy.
LEMMA PressKeeps == ASSUME ScreensInv, NEW v \in Viewers, NEW c \in OnLoops(v), Press(v, c)
    PROVE ScreensInv'
<1>1. /\ loopsPage' = [loopsPage EXCEPT ![v].asked = c, ![v].error = FALSE] /\
         clicks' = clicks + 1 /\ clicks < MaxClicks
      /\ UNCHANGED <<story, record, lapsed, screen, frames>>
  BY DEF Press
<1>2. LogInv' /\ Grown /\ \A x : Begun(x)' <=> Begun(x)
  BY <1>1, LogUnmoved, GrownKeeps DEF ScreensInv
<1> DEFINE g == loopsPage[v].given
<1>3. DOMAIN loopsPage = Viewers /\ \A o \in DOMAIN g : o \in Routines /\ Begun(o)
  BY LoopsRow
<1>4. c \in Controls /\ OfLoops(v, c)
  <2>1. CASE c \in [does : {"pause", "resume", "revoke", "edit"}, of : DOMAIN g]
    BY <1>3, <2>1 DEF Controls, OfLoops
  <2>2. CASE c \in [does : {"create"}, of : {o \in Routines \cap story : MakerOf[o] = v /\ ~Begun(o)},
                        dial : {1, 2}, ends : BOOLEAN]
    BY <2>2 DEF Controls, OfLoops
  <2> QED BY <2>1, <2>2 DEF OnLoops
<1> DEFINE r == [loopsPage[v] EXCEPT !.asked = c, !.error = FALSE]
<1>5. /\ loopsPage' = [loopsPage EXCEPT ![v] = r]
      /\ DOMAIN r = {"given", "asked", "error"} /\ r.given = g /\ r.asked = c
  <2>1. DOMAIN loopsPage = Viewers /\ DOMAIN loopsPage[v] = {"given", "asked", "error"}
    BY LoopsRow
  <2> QED BY <1>1, <2>1
<1> HIDE DEF g, r
<1>6. LoopsKept'
  BY <1>1, <1>2, <1>3, <1>4, <1>5, LoopsMove
<1>7. clicks' \in 0..MaxClicks
  BY <1>1, ScreensAssumption DEF ScreensInv, StoryKept
<1> QED BY <1>1, <1>2, <1>6, <1>7, LoopsStepKeeps

\* A command of the page of standing orders that is done.
LEMMA PressIsDone ==
    ASSUME ScreensInv, NEW v \in Viewers, NEW c, OfLoops(v, c), "done" \in Verdicts(v, c), Effect(c)
    PROVE  /\ LogInv' /\ Grown
           /\ \A n \in DOMAIN record' : n \in DOMAIN record \/ record'[n].of \in story
           /\ \A o \in Routines : Begun(o)' => Begun(o) \/ MakerOf[o] = v
<1>1. LogInv /\ ~MovedOn(c)
  BY DoneIsTheirs DEF ScreensInv
<1>2. c.of \in Things /\ c.of \in story
  BY DEF OfLoops, Things, ScreensInv, StoryKept, Begun, EventsOf
<1> QED BY <1>1, <1>2, EffectIsOwn DEF OfLoops

\* The command is answered, or its answer is lost, before or after it was done.
LEMMA AnswerKeeps == ASSUME ScreensInv, NEW v \in Viewers, Answer(v) \/ LoseAnswer(v) PROVE ScreensInv'
<1> DEFINE c == loopsPage[v].asked
           g == loopsPage[v].given
<1>1. DOMAIN loopsPage = Viewers /\ DOMAIN loopsPage[v] = {"given", "asked", "error"} /\ OfLoops(v, c)
  BY LoopsRow DEF Answer, LoseAnswer
<1>2. \A o \in DOMAIN g : o \in Routines /\ Begun(o)
  BY LoopsRow
<1>3. UNCHANGED <<story, lapsed, screen, frames, clicks>>
  BY DEF Answer, LoseAnswer
<1>4. clicks' \in 0..MaxClicks
  BY <1>3 DEF ScreensInv, StoryKept
<1>5. record' = record \/ ("done" \in Verdicts(v, c) /\ Effect(c))
  BY DEF Answer, LoseAnswer
<1>6. /\ LogInv' /\ Grown
      /\ \A n \in DOMAIN record' : n \in DOMAIN record \/ record'[n].of \in story
      /\ \A o \in Routines : Begun(o)' => Begun(o) \/ MakerOf[o] = v
  <2>1. CASE record' = record
    BY <2>1, LogUnmoved, GrownKeeps DEF ScreensInv
  <2>2. CASE "done" \in Verdicts(v, c) /\ Effect(c)
    <3> HIDE DEF c
    <3> QED BY <1>1, <2>2, PressIsDone
  <2> QED BY <1>5, <2>1, <2>2
<1>7. \A o \in DOMAIN StatusesIn(record') : o \in Routines /\ Begun(o)'
  BY DEF StatusesIn, Begun, EventsOf
<1>8. \A o \in DOMAIN g : o \in Routines /\ Begun(o)'
  BY <1>2, <1>6, GrownKeeps DEF ScreensInv
<1> DEFINE t == StatusesIn(record')
           kept == [loopsPage[v] EXCEPT !.asked = NoPress, !.error = TRUE]
           anew == [loopsPage[v] EXCEPT !.asked = NoPress, !.given = t]
<1>9. loopsPage' = [loopsPage EXCEPT ![v] = kept] \/ loopsPage' = [loopsPage EXCEPT ![v] = anew]
  <2>1. \/ loopsPage' = [loopsPage EXCEPT ![v].asked = NoPress, ![v].error = TRUE]
        \/ loopsPage' = [loopsPage EXCEPT ![v].asked = NoPress, ![v].given = t]
    BY DEF Answer, LoseAnswer
  <2> HIDE DEF t
  <2> QED BY <1>1, <2>1
<1>10. \A o \in DOMAIN t : o \in Routines /\ Begun(o)'
  BY <1>7
<1> HIDE DEF t
<1>11. /\ DOMAIN kept = {"given", "asked", "error"} /\ kept.given = g /\ kept.asked = NoPress
       /\ DOMAIN anew = {"given", "asked", "error"} /\ anew.given = t /\ anew.asked = NoPress
  BY <1>1
<1> HIDE DEF g, c, kept, anew
<1>12. LoopsKept'
  <2>1. CASE loopsPage' = [loopsPage EXCEPT ![v] = kept]
    BY <1>3, <1>6, <1>8, <1>11, <2>1, LoopsMove
  <2>2. CASE loopsPage' = [loopsPage EXCEPT ![v] = anew]
    BY <1>3, <1>6, <1>10, <1>11, <2>2, LoopsMove
  <2> QED BY <1>9, <2>1, <2>2
<1> QED BY <1>3, <1>4, <1>6, <1>12, LoopsStepKeeps

-----------------------------------------------------------------------------
(* What the people of a room see, and can press. *)

\* Every step keeps it.
LEMMA ScreensStep == ScreensInv /\ [ScreensNext]_screenVars => ScreensInv'
<1> SUFFICES ASSUME ScreensInv, [ScreensNext]_screenVars PROVE ScreensInv'
  OBVIOUS
<1>1. WatchedBy[story] \subseteq Viewers /\ RunBy[story] \subseteq Viewers
  BY WatchersAreMembers DEF ScreensInv
<1>2. ASSUME NEW x \in Things, Begin(x) PROVE ScreensInv'
  BY <1>2, BeginKeeps
<1>3. ASSUME NEW x \in Things, Proceeds(x) PROVE ScreensInv'
  BY <1>3, ProceedsKeeps
<1>4. ASSUME NEW d \in Cards, Lapse(d) PROVE ScreensInv'
  BY <1>4, LapseKeeps
<1>5. ASSUME NEW v \in WatchedBy[story], OpenPage(v) PROVE ScreensInv'
  BY <1>1, <1>5, OpenPageKeeps
<1>6. ASSUME NEW v \in WatchedBy[story], NEW n \in DOMAIN record, Arrive(v, n) PROVE ScreensInv'
  BY <1>1, <1>6, ArriveKeeps
<1>7. ASSUME NEW v \in WatchedBy[story], LoadEarlier(v) PROVE ScreensInv'
  BY <1>1, <1>7, LoadEarlierKeeps
<1>8. ASSUME NEW v \in WatchedBy[story], GoUp(v) PROVE ScreensInv'
  BY <1>1, <1>8, GoUpKeeps
<1>9. ASSUME NEW v \in WatchedBy[story], Accept(v) PROVE ScreensInv'
  BY <1>1, <1>9, AcceptKeeps
<1>10. ASSUME NEW v \in WatchedBy[story], Refuse(v) PROVE ScreensInv'
  BY <1>1, <1>10, RefuseKeeps
<1>11. ASSUME NEW v \in WatchedBy[story], GoDown(v) PROVE ScreensInv'
  BY <1>1, <1>11, GoDownKeeps
<1>12. ASSUME NEW v \in WatchedBy[story], NEW c \in Offered(v), Click(v, c) PROVE ScreensInv'
  BY <1>1, <1>12, ClickKeeps
<1>13. ASSUME NEW v \in WatchedBy[story], Handle(v) PROVE ScreensInv'
  BY <1>1, <1>13, HandleKeeps
<1>14. ASSUME NEW v \in RunBy[story], OpenLoops(v) PROVE ScreensInv'
  BY <1>1, <1>14, OpenLoopsKeeps
<1>15. ASSUME NEW v \in RunBy[story], NEW c \in OnLoops(v), Press(v, c) PROVE ScreensInv'
  BY <1>1, <1>15, PressKeeps
<1>16. ASSUME NEW v \in RunBy[story], Answer(v) \/ LoseAnswer(v) PROVE ScreensInv'
  BY <1>1, <1>16, AnswerKeeps
<1>17. CASE UNCHANGED screenVars
  <2>1. UNCHANGED <<story, record, lapsed, screen, loopsPage, frames, clicks>>
    BY <1>17 DEF screenVars
  <2>2. LogInv' /\ Grown /\ \A x : Begun(x)' <=> Begun(x)
    BY <2>1, LogUnmoved, GrownKeeps DEF ScreensInv
  <2>3. StoryKept'
    BY <2>1 DEF ScreensInv, StoryKept
  <2>4. PagesKept' /\ FramesKept' /\ LoopsKept' /\ CauseKept'
    BY <2>1, <2>2, PagesStay, FramesStay, LoopsStay, CauseStays DEF ScreensInv
  <2> QED BY <2>2, <2>3, <2>4 DEF ScreensInv
<1>18. CASE ScreensNext
  BY <1>2, <1>3, <1>4, <1>5, <1>6, <1>7, <1>8, <1>9, <1>10, <1>11, <1>12, <1>13, <1>14, <1>15,
     <1>16, <1>18, Zenon DEF ScreensNext
<1> QED BY <1>17, <1>18

\* What is offered of a card is its viewer's to press, and refused only for the time once all of
\* its events are in hand.
LEMMA OfferedOfCards ==
    ASSUME ScreensInv, NEW v \in Viewers, NEW c \in OnCards(v)
    PROVE  ~NotTheirs(v, c) /\ (EventsOf(c.of) \subseteq InHand(v) /\ c.of \notin lapsed => ~MovedOn(c))
<1>1. PICK how \in {"APPROVED", "DENIED"}, i \in DOMAIN Items(v) :
         /\ c = [does |-> how, of |-> Items(v)[i].of] /\ Items(v)[i].of \in Cards /\
            Items(v)[i].is = "pending"
         /\ IsSigner(v, Items(v)[i].of)
  BY DEF OnCards
<1>2. c.does \in {"APPROVED", "DENIED"} /\ c.of = Items(v)[i].of /\ c.of \in Cards /\ c.of \in Things
  BY <1>1 DEF Things
<1>3. v \in Persons /\ SignerOf[c.of] = Side[v]
  BY <1>1, <1>2 DEF IsSigner
<1>4. EventsOf(c.of) \subseteq InHand(v) => Is(c.of) = "pending"
  BY <1>1, <1>2, PagesShow, OneKind DEF Truth
<1> QED BY <1>2, <1>3, <1>4 DEF NotTheirs, MovedOn

\* The same of an interrupt: its addressee may lower it until it is the lowest.
LEMMA OfferedOfChips ==
    ASSUME ScreensInv, NEW v \in Viewers, NEW c \in OnChips(v)
    PROVE  ~NotTheirs(v, c) /\ (EventsOf(c.of) \subseteq InHand(v) => ~MovedOn(c))
<1>1. PICK i \in DOMAIN Items(v) :
         /\ c = [does |-> "lower", of |-> Items(v)[i].of] /\ Items(v)[i].of \in Chips /\
            Items(v)[i].is # "FYI"
         /\ Addressee[Items(v)[i].of] = v
  BY DEF OnChips
<1>2. c.does = "lower" /\ c.of = Items(v)[i].of /\ c.of \in Chips /\ c.of \in Things /\
      Addressee[c.of] = v
  BY <1>1 DEF Things
<1>3. EventsOf(c.of) \subseteq InHand(v) => Is(c.of) # "FYI"
  BY <1>1, <1>2, PagesShow, OneKind DEF Truth
<1> QED BY <1>2, <1>3 DEF NotTheirs, MovedOn

\* The same of a standing order, and of the form for one to come.
LEMMA OfferedOfLoops ==
    ASSUME ScreensInv, NEW v \in Viewers, NEW c \in OnLoops(v)
    PROVE  ~NotTheirs(v, c) /\ ~Unbounded(c) /\ (loopsPage[v].given = StatusesIn(record) => ~MovedOn(c))
<1> DEFINE given == loopsPage[v].given
<1>1. v \in Persons
  BY DEF OnLoops
<1>2. CASE c \in [does : {"pause", "resume", "revoke", "edit"}, of : DOMAIN given] /\ OnRow(v, given, c)
  <2>1. c.does \in {"pause", "resume", "revoke", "edit"} /\ c.of \in DOMAIN given
    BY <1>2
  <2>2. given = StatusesIn(record) => given[c.of] = Is(c.of)
    BY <2>1 DEF StatusesIn, Is
  <2> HIDE DEF given
  <2>3. OnRow(v, given, c)
    BY <1>2
  <2>4. ~NotTheirs(v, c)
    BY <1>1, <2>1, <2>3 DEF NotTheirs, OnRow
  <2>5. ~Unbounded(c)
    BY <2>1 DEF Unbounded
  <2>6. given = StatusesIn(record) => ~MovedOn(c)
    BY <2>1, <2>2, <2>3 DEF MovedOn, OnRow
  <2> QED BY <2>4, <2>5, <2>6 DEF given
<1>3. CASE /\ c \in [does : {"create"}, of : {o \in Routines \cap story : MakerOf[o] = v /\ ~Begun(o)},
                        dial : {1, 2}, ends : BOOLEAN]
           /\ OnForm(c)
  BY <1>1, <1>3 DEF NotTheirs, Unbounded, MovedOn, OnForm
<1>4. \/ c \in [does : {"pause", "resume", "revoke", "edit"}, of : DOMAIN given] /\ OnRow(v, given, c)
      \/ /\ c \in [does : {"create"}, of : {o \in Routines \cap story : MakerOf[o] = v /\ ~Begun(o)},
                        dial : {1, 2}, ends : BOOLEAN]
         /\ OnForm(c)
  BY DEF OnLoops
<1> QED BY <1>2, <1>3, <1>4

\* What a room page shows and offers is true in every state of the invariant.
LEMMA InvHoldsScreens == ScreensInv => ScreensHold
<1> SUFFICES ASSUME ScreensInv PROVE ScreensHold
  OBVIOUS
<1>0. LogInv /\ WatchedBy[story] \subseteq Viewers /\ RunBy[story] \subseteq Viewers
  BY WatchersAreMembers DEF ScreensInv
<1>1. ScreensTypeOK
  <2>1. ASSUME NEW v \in Viewers
        PROVE  /\ screen[v].events \in Seq(DOMAIN record)
               /\ screen[v].up \in {"no", "opening", "yes"} /\ screen[v].stopped \in BOOLEAN
               /\ screen[v].refused \in BOOLEAN /\ screen[v].banner \in BOOLEAN
               /\ loopsPage[v].asked \in Controls \cup {NoPress}
               /\ frames[v] \in Seq(Controls)
    <3>1. screen[v] \in PageType /\ frames[v] \in Seq(Controls) /\
          loopsPage[v].asked \in Controls \cup {NoPress}
      BY DEF ScreensInv, PagesKept, FramesKept, LoopsKept
    <3> QED BY <3>1, PagesShow DEF PageType
  <2> QED BY <2>1 DEF ScreensTypeOK, ScreensInv, StoryKept
<1>2. ScreenIsTrue
  <2> SUFFICES ASSUME NEW v \in WatchedBy[story]
               PROVE  LET items == Items(v)
                          things == {i \in DOMAIN items : items[i].of \in Things}
                      IN  /\ \A i, j \in things : items[i].of = items[j].of => i = j
                          /\ \A n \in InHand(v) : record[n].type \in Begins \cup {"agent.turn.completed"} =>
                              \E i \in things : /\ items[i].of = record[n].of
                                                /\ record[n].type = "agent.turn.completed" =>
                                                   items[i].is = "whole"
                          /\ \A i \in things : EventsOf(items[i].of) \subseteq InHand(v) =>
                             items[i].is = Truth(items[i].of)
                          /\ \A i \in things : items[i].of \in Cards /\
                             Cardinality(EventsOf(items[i].of) \cap InHand(v)) > 1
                                              => items[i].is # "pending"
                          /\ \A i \in things : items[i].of \notin Unlisted
    BY DEF ScreenIsTrue
  <2> DEFINE items == Items(v)
             things == {i \in DOMAIN items : items[i].of \in Things}
  <2>1. /\ Shown(items, InHand(v)) /\ InHand(v) \in SUBSET DOMAIN record
        /\ \A i \in things : /\ items[i].of \notin Unlisted
                             /\ EventsOf(items[i].of) \subseteq InHand(v) =>
                                items[i].is = Truth(items[i].of)
                             /\ items[i].of \in Cards /\
                                Cardinality(EventsOf(items[i].of) \cap InHand(v)) > 1 =>
                                  items[i].is # "pending"
                             /\ EndIn(items[i].of, InHand(v)) => items[i].is = "whole"
    BY <1>0, PagesShow
  <2> HIDE DEF items
  <2>2. \A i, j \in things : items[i].of = items[j].of => i = j
    BY <2>1 DEF Shown
  <2>3. ASSUME NEW n \in InHand(v), record[n].type \in Begins \cup {"agent.turn.completed"}
        PROVE  \E i \in things : items[i].of = record[n].of /\
          (record[n].type = "agent.turn.completed" => items[i].is = "whole")
    <3>1. PICK i \in DOMAIN items : items[i].of = record[n].of
      BY <2>1, <2>3 DEF Shown
    <3>2. record[n].of \in Things
      BY <1>0, <2>1, EntryFits
    <3>3. record[n].type = "agent.turn.completed" => EndIn(items[i].of, InHand(v))
      BY <3>1 DEF EndIn
    <3> QED BY <2>1, <3>1, <3>2, <3>3
  <2> QED BY <2>1, <2>2, <2>3 DEF items
<1>3. OfferedIsTheirs
  <2>1. ASSUME NEW v \in WatchedBy[story], NEW c \in OnCards(v) \cup OnChips(v)
        PROVE  ~NotTheirs(v, c) /\
          (EventsOf(c.of) \subseteq InHand(v) /\ c.of \notin lapsed => ~MovedOn(c))
    BY <1>0, OfferedOfCards, OfferedOfChips
  <2>2. ASSUME NEW v \in RunBy[story], NEW c \in OnLoops(v)
        PROVE  ~NotTheirs(v, c) /\ ~Unbounded(c) /\
          (loopsPage[v].given = StatusesIn(record) => ~MovedOn(c))
    BY <1>0, OfferedOfLoops
  <2> QED BY <2>1, <2>2 DEF OfferedIsTheirs
<1>4. CalledWhenNeeded
  <2>1. ASSUME NEW v \in WatchedBy[story] PROVE CalledFor(v) <=> OnCards(v) # {}
    <3>1. Side[v] # NoSigner
      BY <1>0, KindsAssumption
    <3> DEFINE due == {j \in DOMAIN Items(v) : Items(v)[j].of \in Cards /\ Items(v)[j].is = "pending"
                            /\ IsSigner(v, Items(v)[j].of)}
    <3>2. CalledFor(v) <=> due # {}
      BY <3>1 DEF CalledFor, IsSigner
    <3>3. ASSUME NEW j \in due PROVE OnCards(v) # {}
      <4>1. [does |-> "APPROVED", of |-> Items(v)[j].of] \in OnCards(v)
        <5>1. "APPROVED" \in {"APPROVED", "DENIED"} /\ j \in due
          BY <3>3
        <5> QED BY <5>1 DEF OnCards
      <4> QED BY <4>1
    <3>4. ASSUME NEW c \in OnCards(v) PROVE due # {}
      <4>1. \E i \in due : TRUE
        BY DEF OnCards
      <4> QED BY <4>1
    <3> HIDE DEF due
    <3> QED BY <3>2, <3>3, <3>4
  <2>2. ASSUME NEW d \in Cards \cap story
        PROVE  Cardinality({n \in EventsOf(d) : record[n].type = "decision.resolved"}) <= 1
    <3> DEFINE S == {n \in EventsOf(d) : record[n].type = "decision.resolved"}
    <3>1. \A n, m \in S : n = m
      <4>1. \A n \in S : n \in DOMAIN record /\ record[n].of = d /\ record[n].type \in Endings /\
            n \in Nat
        BY <1>0, EntryFits DEF EventsOf, Endings
      <4>2. \A n, m \in S : n <= m /\ m <= n
        BY <1>0, <4>1 DEF LogInv, EndsLast, EventsOf
      <4> QED BY <4>1, <4>2
    <3>2. S = {} \/ \E n \in S : S = {n}
      <4> HIDE DEF S
      <4> QED BY <3>1
    <3> HIDE DEF S
    <3>3. Cardinality(S) = 0 \/ Cardinality(S) = 1
      BY <3>2, FS_EmptySet, FS_Singleton
    <3> QED BY <3>3 DEF S
  <2> QED BY <2>1, <2>2 DEF CalledWhenNeeded
<1>5. StopsForCause
  BY <1>0 DEF ScreensInv, CauseKept, StopsForCause
<1> QED BY <1>1, <1>2, <1>3, <1>4, <1>5 DEF ScreensHold

\* In whatever order events reach a page it shows what the log says of what it holds; what a page
\* offers its viewer is refused only because the room has moved on; its viewer is called when a
\* card can be signed; and it stops for a cause.
THEOREM ScreensHoldHolds == ScreensSpec => []ScreensHold
<1>1. ScreensInit => ScreensInv
  BY ScreensStart
<1>2. ScreensInv /\ [ScreensNext]_screenVars => ScreensInv'
  BY ScreensStep
<1>3. ScreensInv => ScreensHold
  BY InvHoldsScreens
<1> QED BY <1>1, <1>2, <1>3, PTL DEF ScreensSpec

-----------------------------------------------------------------------------
(* A page of the runs is one of the delivery and one of the screens. *)

\* They start together.
LEMMA PageStarts == PageInit => Init /\ ScreensInit
  BY DEF PageInit

\* A step is one of the delivery, or one of the screens.
LEMMA PageSteps == [PageNext]_pageVars => [Next]_vars /\ [ScreensNext]_screenVars
<1> SUFFICES ASSUME [PageNext]_pageVars PROVE [Next]_vars /\ [ScreensNext]_screenVars
  OBVIOUS
<1>1. CASE PageNext
  BY <1>1 DEF PageNext
<1>2. CASE UNCHANGED pageVars
  BY <1>2 DEF pageVars
<1> QED BY <1>1, <1>2

\* What the runs check of a page, from the log to what is seen, holds of every page.
THEOREM PageKeepsItsWord ==
    PageSpec => [](/\ OpenSocketMissesNothing /\ MeterNeverLow /\ CursorIsShown /\ GapsHaveACause
                   /\ ScreensHold)
<1>1. PageInit => Init /\ ScreensInit
  BY PageStarts
<1>2. [PageNext]_pageVars => [Next]_vars /\ [ScreensNext]_screenVars
  BY PageSteps
<1>3. Spec => /\ []OpenSocketMissesNothing /\ []MeterNeverLow /\ []CursorIsShown
              /\ []GapsHaveACause
  BY OpenSocketMissesNothingHolds, MeterNeverLowHolds, CursorIsShownHolds, GapsHaveACauseHolds
<1>4. ScreensSpec => []ScreensHold
  BY ScreensHoldHolds
<1> QED BY <1>1, <1>2, <1>3, <1>4, PTL DEF PageSpec, Spec, ScreensSpec
==============================================================================
