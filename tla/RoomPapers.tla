----------------------------- MODULE RoomPapers ------------------------------
(***************************************************************************)
(* What people pin to a room: its documents (documents.ts and              *)
(* commands/document.ts: a row, then the event derived from it, in two     *)
(* statements) and its briefing (briefings.ts and commands/briefing.ts:    *)
(* row and event in one transaction, one active briefing by index).        *)
(*                                                                         *)
(* A document is named by the upload that adds it, a briefing by the call  *)
(* that sets it. Abstracted: contents, their screening and their limits    *)
(* other than the room's total; the actor is a human, and for the briefing *)
(* the room's owner (Seats). The lock a briefing call takes on the active  *)
(* row and the update of that row are one step.                            *)
(***************************************************************************)
EXTENDS Naturals, Sequences, FiniteSets, FiniteSetsExt

CONSTANTS
    Uploads,        \* calls of uploadDocumentCommand
    SizeOf,         \* [Uploads -> Nat]: their characters
    RoomCap,        \* ROOM_DOCUMENTS_MAX_CHARS
    Removals,       \* calls of removeDocumentCommand
    DocumentOf,     \* [Removals -> Uploads]
    Sets, Clears,   \* calls of setBriefing and clearBriefing
    MaxPaperFaults  \* bound: calls that fail halfway or die

ASSUME PaperAssumption ==
    /\ SizeOf \in [Uploads -> Nat] /\ DocumentOf \in [Removals -> Uploads]
    /\ RoomCap \in Nat /\ MaxPaperFaults \in Nat
    /\ Sets \cap Clears = {} /\ "nothing" \notin Sets /\ IsFiniteSet(Uploads)

VARIABLES
    upload,     \* Uploads -> where the call is
    document,   \* Uploads -> the row: "none", "held" or "removed"
    removal,    \* Removals -> where the call is
    papers,     \* the document events of the log: <<"added" or "removed", upload>>
    crowded,    \* uploads that another insert overtook after they had read the total
    briefing,   \* Sets -> the row: "none", "active" or "cleared"
    call,       \* Sets and Clears -> where the call is, the row it waits for, the row it holds
    framings,   \* the briefing events: <<"set", briefing, what it replaces>> or <<"cleared", briefing>>
    paperFaults

documentVars == <<upload, document, removal, papers, crowded>>
briefingVars == <<briefing, call, framings>>
paperVars == <<documentVars, briefingVars, paperFaults>>

BriefingCalls == Sets \cup Clears
Nothing == "nothing"
NoCall == [pc |-> "none", saw |-> Nothing, holds |-> Nothing]

PapersTypeOK ==
    /\ upload \in [Uploads -> {"none", "insert", "append", "done", "full", "dead"}]
    /\ document \in [Uploads -> {"none", "held", "removed"}]
    /\ removal \in [Removals -> {"none", "update", "append", "done", "unknown", "dead"}]
    /\ \A i \in DOMAIN papers : papers[i] \in {"added", "removed"} \X Uploads
    /\ crowded \subseteq Uploads /\ paperFaults \in 0..MaxPaperFaults
    /\ briefing \in [Sets -> {"none", "active", "cleared"}]
    /\ call \in [BriefingCalls -> [pc : {"none", "wait", "insert", "written", "done", "absent", "failed"},
                                   saw : Sets \cup {Nothing}, holds : Sets \cup {Nothing}]]
    /\ \A a, b \in Sets : briefing[a] = "active" /\ briefing[b] = "active" => a = b

PapersInit ==
    /\ upload = [u \in Uploads |-> "none"]
    /\ document = [u \in Uploads |-> "none"] /\ removal = [r \in Removals |-> "none"]
    /\ papers = <<>> /\ crowded = {} /\ paperFaults = 0
    /\ briefing = [b \in Sets |-> "none"] /\ call = [c \in BriefingCalls |-> NoCall]
    /\ framings = <<>>

-----------------------------------------------------------------------------
(* Documents. *)

Held == {u \in Uploads : document[u] = "held"}
Total(D) == MapThenSumSet(LAMBDA u : SizeOf[u], D)

\* Mutant: the room's total is compared without the new document.
FitsBefore(u) == Total(Held) <= RoomCap

Fits(u) == Total(Held) + SizeOf[u] <= RoomCap

\* roomDocumentChars: the total is read, and compared, before the insert.
ReadHeld(u) ==
    /\ upload[u] = "none"
    /\ upload' = [upload EXCEPT ![u] = IF Fits(u) THEN "insert" ELSE "full"]
    /\ UNCHANGED <<document, removal, papers, crowded, briefingVars, paperFaults>>

AddDocument(u) ==
    /\ upload[u] = "insert"
    /\ upload' = [upload EXCEPT ![u] = "append"]
    /\ document' = [document EXCEPT ![u] = "held"]
    /\ crowded' = crowded \cup {v \in Uploads \ {u} : upload[v] = "insert"}
    /\ UNCHANGED <<removal, papers, briefingVars, paperFaults>>

AppendAdded(u) ==
    /\ upload[u] = "append"
    /\ upload' = [upload EXCEPT ![u] = "done"] /\ papers' = Append(papers, <<"added", u>>)
    /\ UNCHANGED <<document, removal, crowded, briefingVars, paperFaults>>

\* documentById: the row is there and was not taken back.
FindDocument(r) ==
    /\ removal[r] = "none"
    /\ removal' = [removal EXCEPT ![r] = IF DocumentOf[r] \in Held THEN "update" ELSE "unknown"]
    /\ UNCHANGED <<upload, document, papers, crowded, briefingVars, paperFaults>>

\* Mutant: the update does not ask whether the row was taken back.
TakesBackAgain(d) == document[d] # "none"

\* The update matches a row that was not taken back since.
TakesBack(d) == document[d] = "held"

RemoveDocument(r) ==
    LET d == DocumentOf[r] IN
    /\ removal[r] = "update"
    /\ IF TakesBack(d)
         THEN /\ document' = [document EXCEPT ![d] = "removed"]
              /\ removal' = [removal EXCEPT ![r] = "append"]
         ELSE removal' = [removal EXCEPT ![r] = "unknown"] /\ UNCHANGED document
    /\ UNCHANGED <<upload, papers, crowded, briefingVars, paperFaults>>

AppendRemoved(r) ==
    /\ removal[r] = "append"
    /\ removal' = [removal EXCEPT ![r] = "done"]
    /\ papers' = Append(papers, <<"removed", DocumentOf[r]>>)
    /\ UNCHANGED <<upload, document, crowded, briefingVars, paperFaults>>

\* The append throws, or the process dies, between the row and its event.
DocumentCallDies ==
    /\ paperFaults < MaxPaperFaults /\ paperFaults' = paperFaults + 1
    /\ \/ \E u \in Uploads : /\ upload[u] = "append"
                             /\ upload' = [upload EXCEPT ![u] = "dead"] /\ UNCHANGED removal
       \/ \E r \in Removals : /\ removal[r] = "append"
                              /\ removal' = [removal EXCEPT ![r] = "dead"] /\ UNCHANGED upload
    /\ UNCHANGED <<document, papers, crowded, briefingVars>>

-----------------------------------------------------------------------------
(* The briefing. *)

Active == {b \in Sets : briefing[b] = "active"}

\* Mutant: the active row is read without FOR UPDATE.
FreeAlways(c) == TRUE

\* No other transaction holds the active row, or has put one of its own in the index.
Free(c) == \A o \in BriefingCalls \ {c} :
    call[o].pc # "written" /\ (call[o].pc = "insert" => call[o].holds = Nothing)

\* The SELECT ... FOR UPDATE sees the active row there is when it starts, and then waits for it.
SelectActive(c) ==
    /\ call[c].pc = "none"
    /\ \/ /\ Active = {}
          /\ call' = [call EXCEPT ![c].pc = IF c \in Sets THEN "insert" ELSE "absent"]
       \/ \E b \in Active : call' = [call EXCEPT ![c].pc = "wait", ![c].saw = b]
    /\ UNCHANGED <<documentVars, briefing, framings, paperFaults>>

\* The row as its last holder left it: a row that was cleared meanwhile is no row, and the
\* one that replaced it is not looked for.
LockActive(c) ==
    /\ call[c].pc = "wait" /\ Free(c)
    /\ IF call[c].saw \in Active
         THEN call' = [call EXCEPT ![c].holds = call[c].saw,
                                   ![c].pc = IF c \in Sets THEN "insert" ELSE "written"]
         ELSE call' = [call EXCEPT ![c].pc = IF c \in Sets THEN "insert" ELSE "absent"]
    /\ UNCHANGED <<documentVars, briefing, framings, paperFaults>>

\* The insert waits for whoever is at the index, and fails on an active row it did not clear.
InsertBriefing(b) ==
    /\ call[b].pc = "insert" /\ Free(b)
    /\ call' = [call EXCEPT ![b].pc = IF Active \subseteq {call[b].holds} THEN "written" ELSE "failed"]
    /\ UNCHANGED <<documentVars, briefing, framings, paperFaults>>

\* What a set or a clear did, and its event: one commit.
CommitBriefing(c) ==
    /\ call[c].pc = "written"
    /\ call' = [call EXCEPT ![c].pc = "done"]
    /\ briefing' = [b \in Sets |-> IF b = c THEN "active"
                                   ELSE IF b = call[c].holds THEN "cleared" ELSE briefing[b]]
    /\ framings' = Append(framings, IF c \in Sets THEN <<"set", c, call[c].holds>>
                                    ELSE <<"cleared", call[c].holds>>)
    /\ UNCHANGED <<documentVars, paperFaults>>

\* ROLLBACK, from anywhere in the transaction.
RollBackBriefing(c) ==
    /\ paperFaults < MaxPaperFaults /\ paperFaults' = paperFaults + 1
    /\ call[c].pc \in {"wait", "insert", "written"}
    /\ call' = [call EXCEPT ![c].pc = "failed"]
    /\ UNCHANGED <<documentVars, briefing, framings>>

PapersNext ==
    \/ \E u \in Uploads : ReadHeld(u) \/ AddDocument(u) \/ AppendAdded(u)
    \/ \E r \in Removals : FindDocument(r) \/ RemoveDocument(r) \/ AppendRemoved(r)
    \/ DocumentCallDies
    \/ \E c \in BriefingCalls : \/ SelectActive(c) \/ LockActive(c)
                                \/ CommitBriefing(c) \/ RollBackBriefing(c)
    \/ \E b \in Sets : InsertBriefing(b)

PapersSpec == PapersInit /\ [][PapersNext]_paperVars

-----------------------------------------------------------------------------
Announced(what) == {papers[i][2] : i \in {j \in DOMAIN papers : papers[j][1] = what}}

(* "The room is capped too" (commands/document.ts:134), up to the race that *)
(* is there: the documents of a room fit in its total, those aside whose    *)
(* upload read the total before another document went in.                   *)
QuotaUnlessRaced == Total(Held \ crowded) <= RoomCap

(* The log and the table of documents: what was announced is in the table,  *)
(* a document is announced as taken back once, when it was, and when every  *)
(* call about a document has ended alive the two agree.                     *)
DocumentsAnnounced ==
    /\ \A u \in Announced("added") : document[u] # "none"
    /\ \A u \in Announced("removed") : document[u] = "removed"
    /\ \A i, j \in DOMAIN papers : papers[i] = papers[j] => i = j
    /\ \A u \in Uploads :
         /\ upload[u] = "done"
         /\ \A r \in Removals : DocumentOf[r] = u => removal[r] \in {"none", "done", "unknown"}
         => (u \in Held <=> u \notin Announced("removed"))

FramedAfter(n) == IF n = 0 \/ framings[n][1] = "cleared" THEN Nothing ELSE framings[n][2]

(* A replacement is legible from the log alone (briefings.ts:72-76): each   *)
(* briefing event names the briefing that was active by the log before it,  *)
(* and the one active by the log is the one in the table, however sets and  *)
(* clears were interleaved.                                                 *)
BriefingLogIsTheTable ==
    /\ \A i \in DOMAIN framings :
         framings[i][IF framings[i][1] = "set" THEN 3 ELSE 2] = FramedAfter(i - 1)
    /\ Active = {FramedAfter(Len(framings))} \ {Nothing}
(* The papers of a room are what its log says they are, within its quota.   *)
PapersAgree == QuotaUnlessRaced /\ DocumentsAnnounced /\ BriefingLogIsTheTable
=============================================================================
