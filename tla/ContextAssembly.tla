--------------------------- MODULE ContextAssembly ---------------------------
(***************************************************************************)
(* What a turn is shown (assembly.ts): part after part is read from the    *)
(* room while the room goes on, then the member's own store, and the       *)
(* window is flattened only if no part is foreign. The private stores      *)
(* (principal-store.ts): a transaction takes a role that row security      *)
(* binds and names a principal, both for its own length, on a connection   *)
(* of the pool that others use next. And promotions.ts: a human carries an *)
(* item of the own store into the room.                                    *)
(*                                                                         *)
(* Messages are seen in the order of their seqs (RoomSummary has them      *)
(* commit in any order). Abstracted: texts; what a part says of itself is  *)
(* kept, its whose.                                                        *)
(***************************************************************************)
EXTENDS Naturals, Sequences, FiniteSets

CONSTANTS
    Turns,          \* the turns that assemble a window
    Promotes,       \* the calls of promoteContent
    PrincipalOf,    \* [Turns \cup Promotes -> principals]: of the member, of the approver
    Rooted,         \* the turns an order fired: they read the recent turns too
    ItemOf,         \* [Promotes -> places of `items`]: what is to be promoted
    ByHuman,        \* the promotions that a human approves
    Verbatim,       \* the promotions of the item itself, not of its summary
    Stores,         \* sequences of [of |-> principal, short |-> has a summary]: what may be stored
    Conns,          \* the connections of the pool
    Limit,          \* commonGroundLimit + SUMMARY_TRIGGER_BATCH
    RecentTurns,    \* RECENT_TURNS_IN_CONTEXT
    OwnItems,       \* the default of items(limit)
    PromoteItems,   \* the limit a promotion reads with, 200
    NoPrincipal,         \* no principal
    MaxChanges,     \* bound: what happens in the room meanwhile
    MaxWindowFaults

Users == Turns \cup Promotes

ASSUME WindowAssumption ==
    /\ Limit \in Nat \ {0} /\ RecentTurns \in Nat \ {0} /\ OwnItems \in Nat \ {0} /\ PromoteItems \in Nat
    /\ Rooted \subseteq Turns /\ NoPrincipal \notin {PrincipalOf[u] : u \in Users}
    /\ MaxChanges \in Nat /\ MaxWindowFaults \in Nat

\* A window and a promotion are two calls; "nobody" is a connection that is free.
ASSUME UsersAssumption == Turns \cap Promotes = {} /\ "nobody" \notin Users

\* What may be in a store.
Notables == UNION {{store[i] : i \in DOMAIN store} : store \in Stores}

ASSUME StoresAssumption == Stores \subseteq Seq(Notables)

VARIABLES
    room,        \* how much was said, folded, done; the active briefing and documents
    gone,        \* the documents that were taken back
    items,       \* principal_context, in the order of created_at
    conns,       \* the connections: who holds each, as which role, for which principal
    readers,        \* the assemblies and promotions: where each is, what it read
    promoted,    \* the promotion rows
    promotions,  \* the promotion events
    happened

windowVars == <<room, gone, items, conns, readers, promoted, promotions, happened>>

Clean == [user |-> "nobody", role |-> "owner", principal |-> NoPrincipal]
NoParts == [briefing |-> 0, documents |-> {}, covers |-> 0, messages |-> {}, turns |-> {},
            own |-> {}, whose |-> NoPrincipal]
NoReader == [at |-> "none", parts |-> NoParts, since |-> [said |-> 0, done |-> 0, documents |-> {}]]

WindowInit ==
    /\ room = [said |-> 2, folded |-> 0, done |-> 1, briefing |-> 0, briefings |-> 0,
               documents |-> {}, given |-> 0]
    /\ gone = {} /\ items \in Stores
    /\ conns = [c \in Conns |-> Clean]
    /\ readers = [u \in Users |-> NoReader]
    /\ promoted = {} /\ promotions = {} /\ happened = 0

-----------------------------------------------------------------------------
(* The connections. *)

Free == {c \in Conns : conns[c].user = "nobody"}
Held(u) == CHOOSE c \in Conns : conns[c].user = u

At(u, place) == readers[u].at = place
GoesTo(u, place) == readers' = [readers EXCEPT ![u].at = place]

\* pool.query takes a connection for the one statement.
Reads(u, place, next, parts) ==
    /\ At(u, place) /\ Free # {}
    /\ readers' = [readers EXCEPT ![u].at = next, ![u].parts = parts]
    /\ UNCHANGED <<room, gone, items, conns, promoted, promotions, happened>>

-----------------------------------------------------------------------------
(* withPrincipalStore. *)

Connect(u) ==
    /\ At(u, "connect") /\ Free # {}
    /\ \E c \in Free : conns' = [conns EXCEPT ![c].user = u]
    /\ GoesTo(u, "role")
    /\ UNCHANGED <<room, gone, items, promoted, promotions, happened>>

\* Mutant: the transaction stays the owner, whom row security does not bind.
AsOwner(conn) == conn

\* BEGIN; SET LOCAL ROLE playroom_context.
AsRestricted(conn) == [conn EXCEPT !.role = "restricted"]

TakeRole(u) ==
    /\ At(u, "role")
    /\ conns' = [conns EXCEPT ![Held(u)] = AsRestricted(@)]
    /\ GoesTo(u, "setting")
    /\ UNCHANGED <<room, gone, items, promoted, promotions, happened>>

\* set_config('playroom.principal_id', the principal, local).
NamePrincipal(u) ==
    /\ At(u, "setting")
    /\ conns' = [conns EXCEPT ![Held(u)].principal = PrincipalOf[u]]
    /\ GoesTo(u, "store")
    /\ UNCHANGED <<room, gone, items, promoted, promotions, happened>>

\* The policy own_principal_only of migration 015, which does not bind the owner.
Visible(conn) ==
    {i \in DOMAIN items : conn.role = "owner" \/ items[i].of = conn.principal}

\* items(limit): the newest.
Newest(S, n) == {i \in S : Cardinality({j \in S : j > i}) < n}

\* The store is labelled with the principal it was opened for.
ReadStore(u) ==
    /\ At(u, "store")
    /\ readers' = [readers EXCEPT
          ![u].at = "commit", ![u].parts.whose = PrincipalOf[u],
          ![u].parts.own = IF u \in Turns THEN Newest(Visible(conns[Held(u)]), OwnItems)
                                          ELSE Newest(Visible(conns[Held(u)]), PromoteItems) \cap {ItemOf[u]}]
    /\ UNCHANGED <<room, gone, items, conns, promoted, promotions, happened>>

\* Mutant: SET ROLE and set_config for the session, not for the transaction.
SessionStays(conn) == [conn EXCEPT !.user = "nobody"]

\* What is local to a transaction ends with it, committed or rolled back.
TransactionEnds(conn) == Clean

CommitStore(u) ==
    /\ At(u, "commit")
    /\ conns' = [conns EXCEPT ![Held(u)] = TransactionEnds(@)]
    /\ GoesTo(u, IF u \in Turns THEN "flatten" ELSE "item")
    /\ UNCHANGED <<room, gone, items, promoted, promotions, happened>>

\* A statement fails: rolled back, released, thrown.
ReadFails(u) ==
    /\ readers[u].at \notin {"none", "shown", "over", "failed"}
    /\ happened < MaxChanges + MaxWindowFaults /\ happened' = happened + 1
    /\ conns' = [c \in Conns |-> IF conns[c].user = u THEN TransactionEnds(conns[c]) ELSE conns[c]]
    /\ GoesTo(u, "failed")
    /\ UNCHANGED <<room, gone, items, promoted, promotions>>

-----------------------------------------------------------------------------
(* assembleContext, part by part. *)

StartWindow(u) ==
    /\ u \in Turns /\ At(u, "none")
    /\ readers' = [readers EXCEPT ![u] = [NoReader EXCEPT !.at = "briefing",
          !.since = [said |-> room.said, done |-> room.done, documents |-> room.documents]]]
    /\ UNCHANGED <<room, gone, items, conns, promoted, promotions, happened>>

ReadBriefing(u) == Reads(u, "briefing", "documents", [readers[u].parts EXCEPT !.briefing = room.briefing])
ReadDocuments(u) == Reads(u, "documents", "summary", [readers[u].parts EXCEPT !.documents = room.documents])
ReadSummary(u) == Reads(u, "summary", "messages", [readers[u].parts EXCEPT !.covers = room.folded])

\* Mutant: the floor is where the room's summary is by now.
FloorByNow(parts) == room.folded

FloorInHand(parts) == parts.covers

\* messagesAfterSeq: the newest after the floor.
ReadMessages(u) ==
    Reads(u, "messages", IF u \in Rooted THEN "turns" ELSE "connect",
          [readers[u].parts EXCEPT !.messages = Newest((FloorInHand(readers[u].parts) + 1)..room.said, Limit)])

\* recentCompletedTurns, for a turn that an order fired.
ReadTurns(u) ==
    Reads(u, "turns", "connect", [readers[u].parts EXCEPT !.turns = Newest(1..room.done, RecentTurns)])

\* windowFor: assertOwnPrincipalOnly throws on a part that is not the member's own.
Flatten(u) ==
    /\ u \in Turns /\ At(u, "flatten")
    /\ GoesTo(u, IF readers[u].parts.own = {} \/ readers[u].parts.whose = PrincipalOf[u]
                 THEN "shown" ELSE "failed")
    /\ UNCHANGED <<room, gone, items, conns, promoted, promotions, happened>>

-----------------------------------------------------------------------------
(* promoteContent. *)

StartPromote(u) ==
    /\ u \in Promotes /\ At(u, "none")
    /\ readers' = [readers EXCEPT ![u].at = IF u \in ByHuman THEN "connect" ELSE "failed"]
    /\ UNCHANGED <<room, gone, items, conns, promoted, promotions, happened>>

\* no_such_item, no_summary_available.
CheckItem(u) ==
    /\ At(u, "item")
    /\ GoesTo(u, IF readers[u].parts.own # {} /\ (u \in Verbatim \/ items[ItemOf[u]].short)
                 THEN "insert" ELSE "failed")
    /\ UNCHANGED <<room, gone, items, conns, promoted, promotions, happened>>

\* BEGIN, the row, on a second connection; nobody sees it before the commit.
InsertPromotion(u) ==
    /\ At(u, "insert") /\ Free # {}
    /\ \E c \in Free : conns' = [conns EXCEPT ![c].user = u]
    /\ GoesTo(u, "append")
    /\ UNCHANGED <<room, gone, items, promoted, promotions, happened>>

\* The row has an id and an approver of its own: those of the call.
Promotion(u) == [by |-> u, of |-> PrincipalOf[u], item |-> ItemOf[u], verbatim |-> u \in Verbatim]

\* Mutant: the event is appended through the pool, outside the transaction.
AppendAtOnce(u) == promotions' = promotions \cup {Promotion(u)}

\* appendPromotionEvent, inside the transaction.
AppendPromotionEvent(u) == UNCHANGED promotions

AppendPromotion(u) ==
    /\ At(u, "append")
    /\ GoesTo(u, "commitPromotion")
    /\ AppendPromotionEvent(u)
    /\ UNCHANGED <<room, gone, items, conns, promoted, happened>>

CommitPromotion(u) ==
    /\ At(u, "commitPromotion")
    /\ promoted' = promoted \cup {Promotion(u)}
    /\ promotions' = promotions \cup {Promotion(u)}
    /\ conns' = [conns EXCEPT ![Held(u)] = TransactionEnds(@)]
    /\ GoesTo(u, "over")
    /\ UNCHANGED <<room, gone, items, happened>>

-----------------------------------------------------------------------------
(* The room meanwhile. *)

Changes(r) ==
    /\ happened < MaxChanges /\ happened' = happened + 1
    /\ room' = r
    /\ UNCHANGED <<items, conns, readers, promoted, promotions>>

Said == Changes([room EXCEPT !.said = @ + 1]) /\ UNCHANGED gone
TurnDone == Changes([room EXCEPT !.done = @ + 1]) /\ UNCHANGED gone
Folded(n) == n \in (room.folded + 1)..room.said /\ Changes([room EXCEPT !.folded = n]) /\ UNCHANGED gone
BriefingSet == Changes([room EXCEPT !.briefing = room.briefings + 1, !.briefings = @ + 1]) /\ UNCHANGED gone
BriefingCleared == room.briefing # 0 /\ Changes([room EXCEPT !.briefing = 0]) /\ UNCHANGED gone
DocumentGiven ==
    /\ Changes([room EXCEPT !.documents = @ \cup {room.given + 1}, !.given = @ + 1])
    /\ UNCHANGED gone

\* Mutant: the room is told, the row stays active.
DocumentStays(d) == d \in room.documents /\ gone' = gone \cup {d} /\ Changes(room)

DocumentTakenBack(d) ==
    /\ d \in room.documents /\ gone' = gone \cup {d}
    /\ Changes([room EXCEPT !.documents = @ \ {d}])

\* Store.add, in a transaction of its own.
Noted(item) ==
    /\ happened < MaxChanges /\ happened' = happened + 1
    /\ items' = Append(items, item)
    /\ UNCHANGED <<room, gone, conns, readers, promoted, promotions>>

ReaderStep(u) ==
    \/ StartWindow(u) \/ ReadBriefing(u) \/ ReadDocuments(u) \/ ReadSummary(u) \/ ReadMessages(u)
    \/ ReadTurns(u) \/ Connect(u) \/ TakeRole(u) \/ NamePrincipal(u) \/ ReadStore(u)
    \/ CommitStore(u) \/ Flatten(u) \/ ReadFails(u)
    \/ StartPromote(u) \/ CheckItem(u) \/ InsertPromotion(u) \/ AppendPromotion(u) \/ CommitPromotion(u)

RoomStep ==
    \/ Said \/ TurnDone \/ BriefingSet \/ BriefingCleared \/ DocumentGiven
    \/ \E n \in 1..room.said : Folded(n)
    \/ \E d \in room.documents : DocumentTakenBack(d)
    \/ \E store \in Stores : \E i \in DOMAIN store : Noted(store[i])

WindowNext == RoomStep \/ \E u \in Users : ReaderStep(u)

WindowSpec == WindowInit /\ [][WindowNext]_windowVars

-----------------------------------------------------------------------------
(* Properties. *)

WindowTypeOK ==
    /\ \A c \in Conns : conns[c].user \in Users \cup {"nobody"} /\ conns[c].role \in {"owner", "restricted"}
    /\ \A u \in Users : readers[u].parts.own \subseteq DOMAIN items
    /\ room.folded <= room.said /\ room.documents \cap gone = {}
    /\ happened \in 0..(MaxChanges + MaxWindowFaults)

\* "Foreign private stores are unreachable by construction" (assembly.ts:14): whatever has been done
\* on the connection before, a window holds items of the member's own principal only, and a free
\* connection has nothing left of the principal it was used for.
OwnStoreOnly ==
    /\ \A u \in Turns : \A i \in readers[u].parts.own : items[i].of = PrincipalOf[u]
    /\ \A c \in Free : conns[c] = Clean

\* "A message is summarised or recent, never both and never neither" (assembly.ts:416), however the
\* summary moves while the window is read; but for what the limit cuts off.
SummarisedOrRecent == \A u \in Turns : At(u, "shown") =>
    LET w == readers[u].parts IN
    /\ \A m \in w.messages : m > w.covers
    /\ Cardinality(w.messages) = Limit \/ (w.covers + 1)..readers[u].since.said \subseteq w.messages

\* What the room was working with when the turn started is in its window, unless it was taken back:
\* its documents, and for a turn that an order fired the work it is to look at.
ReadsTheRoom == \A u \in Turns : At(u, "shown") =>
    LET w == readers[u].parts IN
    /\ readers[u].since.documents \subseteq w.documents \cup gone
    /\ u \in Rooted => readers[u].since.done \in w.turns \/ Cardinality(w.turns) = RecentTurns

\* A promotion is of the approving human's own item, which has what was promoted of it, and its row
\* and its event are there both or neither.
PromotionsAreOwn ==
    /\ promoted = promotions
    /\ \A p \in promoted : items[p.item].of = p.of /\ (p.verbatim \/ items[p.item].short)
    /\ \A u \in Promotes \ ByHuman : Promotion(u) \notin promoted

\* A turn is shown the whole of what it should see, and nothing of what is somebody else's.
WindowsHold == OwnStoreOnly /\ SummarisedOrRecent /\ ReadsTheRoom /\ PromotionsAreOwn
=============================================================================
