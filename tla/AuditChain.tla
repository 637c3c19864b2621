----------------------------- MODULE AuditChain ------------------------------
(***************************************************************************)
(* The audit chain (audit.ts): commitments of the log folded into a hash   *)
(* chain by an anchor, whose root leaves the system; verifyAuditChain, the *)
(* detached receipt and its verifier (packages/receipt), and the           *)
(* comparison of two machines' chains (packages/reconcile).                *)
(*                                                                         *)
(* A hash is the history it was made from: an entry hash is the sequence   *)
(* of what was chained up to it, so equal hashes mean equal histories. An  *)
(* event is its body and its envelope (room, actor, type), each as it was  *)
(* made (0) or not (1). Storage may be damaged, within a bound, in the     *)
(* ways the verifier is written against.                                   *)
(***************************************************************************)
EXTENDS Naturals, Sequences, FiniteSets, SequencesExt

CONSTANTS
    Commitments,    \* the seqs of the decision and decision.resolved events
    Resolutions,    \* those that are decision.resolved: a receipt is owed
    Anchors,        \* runs of chainCommitmentEvents: the interval's and the script's
    MaxDamages,     \* bound
    MaxAnchorCrashes \* bound

ASSUME AuditAssumption ==
    /\ Commitments \subseteq Nat /\ IsFiniteSet(Commitments) /\ Resolutions \subseteq Commitments
    /\ MaxDamages \in Nat /\ MaxAnchorCrashes \in Nat

VARIABLES
    event,      \* Commitments -> whether the row is there, its body and its envelope
    chain,      \* the rows of audit_chain
    anchor,     \* Anchors -> where the run is, the head it read, the rows it is to chain, and the
                \* commitments it could see
    roots,      \* the roots that anchors returned before any damage
    damages, anchorCrashes

auditVars == <<event, chain, anchor, roots, damages, anchorCrashes>>

Genesis == <<>>
\* bodyHash and entryHash.
Entry(prev, body, envelope, source) == Append(prev, <<body, envelope, source>>)

History == Seq({0, 1} \X {0, 1} \X Commitments)
Row == [source : Commitments, body : {0, 1}, envelope : {0, 1}, prev : History, entry : History]
IdleAnchor == [pc |-> "idle", head |-> Genesis, todo |-> {}, saw |-> {}]

AuditTypeOK ==
    /\ event \in [Commitments -> [state : {"none", "pending", "in", "deleted"}, body : {0, 1}, envelope : {0, 1}]]
    /\ \A i \in DOMAIN chain : chain[i] \in Row
    /\ \A a \in Anchors : /\ anchor[a].pc \in {"idle", "locked", "head", "append", "over"}
                          /\ anchor[a].head \in History
                          /\ anchor[a].todo \subseteq anchor[a].saw /\ anchor[a].saw \subseteq Commitments
    /\ roots \subseteq History /\ damages \in 0..MaxDamages /\ anchorCrashes \in 0..MaxAnchorCrashes

AuditInit ==
    /\ event = [e \in Commitments |-> [state |-> "none", body |-> 0, envelope |-> 0]]
    /\ chain = <<>> /\ anchor = [a \in Anchors |-> IdleAnchor]
    /\ roots = {} /\ damages = 0 /\ anchorCrashes = 0

-----------------------------------------------------------------------------
(* Commitments: the seq is taken when the insert starts, in order, and the *)
(* row is seen when it commits, in any order.                              *)
BeginInsert(e) ==
    /\ event[e].state = "none" /\ \A d \in Commitments : d < e => event[d].state # "none"
    /\ event' = [event EXCEPT ![e].state = "pending"]
    /\ UNCHANGED <<chain, anchor, roots, damages, anchorCrashes>>

CommitInsert(e) ==
    /\ event[e].state = "pending" /\ event' = [event EXCEPT ![e].state = "in"]
    /\ UNCHANGED <<chain, anchor, roots, damages, anchorCrashes>>

-----------------------------------------------------------------------------
(* The anchor, one transaction. *)

There == {e \in Commitments : event[e].state = "in"}
Chained == {chain[i].source : i \in DOMAIN chain}
HeadEntry == IF chain = <<>> THEN Genesis ELSE chain[Len(chain)].entry

\* Mutant: the advisory lock is not taken.
NobodyAnchorsTaken(a) == TRUE

\* pg_advisory_xact_lock: held until the transaction ends.
NobodyAnchors(a) == \A b \in Anchors \ {a} : anchor[b].pc \in {"idle", "over"}

TakeLock(a) ==
    /\ anchor[a].pc \in {"idle", "over"} /\ NobodyAnchors(a)
    /\ anchor' = [anchor EXCEPT ![a] = [IdleAnchor EXCEPT !.pc = "locked"]]
    /\ UNCHANGED <<event, chain, roots, damages, anchorCrashes>>

ReadHead(a) ==
    /\ anchor[a].pc = "locked"
    /\ anchor' = [anchor EXCEPT ![a].pc = "head", ![a].head = HeadEntry]
    /\ UNCHANGED <<event, chain, roots, damages, anchorCrashes>>

\* Mutant: only what comes after the last chained seq.
UnchainedAfter == {e \in There : \A d \in Chained : d < e}

\* Mutant: uncommitted rows are read.
UnchainedDirty == Commitments \ Chained

\* Every commitment that is not in the chain, not those after the last one that is.
Unchained == There \ Chained

ReadUnchained(a) ==
    /\ anchor[a].pc = "head"
    /\ anchor' = [anchor EXCEPT ![a].pc = "append", ![a].todo = Unchained, ![a].saw = There]
    /\ UNCHANGED <<event, chain, roots, damages, anchorCrashes>>

\* Mutant: every row links to the head.
LinkedToHead(head, s) == head

\* The link of what comes after the rows of `s`.
LinkedTo(head, s) == head \o [i \in DOMAIN s |-> <<event[s[i]].body, event[s[i]].envelope, s[i]>>]

\* ORDER BY e.seq.
InSeqOrder(S) == {s \in [1..Cardinality(S) -> S] :
    Range(s) = S /\ \A i, j \in DOMAIN s : i < j => s[i] < s[j]}

RowsFor(head, s) == [i \in DOMAIN s |->
    LET prev == LinkedTo(head, SubSeq(s, 1, i - 1))
        e == event[s[i]] IN
    [source |-> s[i], body |-> e.body, envelope |-> e.envelope, prev |-> prev,
     entry |-> Entry(prev, e.body, e.envelope, s[i])]]

\* The inserts and the commit; the index on the source refuses a commitment chained twice.
CommitAnchor(a) ==
    /\ anchor[a].pc = "append"
    /\ IF anchor[a].todo \cap Chained = {}
         THEN \E s \in InSeqOrder(anchor[a].todo) : chain' = chain \o RowsFor(anchor[a].head, s)
         ELSE UNCHANGED chain
    /\ roots' = IF damages = 0 /\ chain' # <<>> THEN roots \cup {chain'[Len(chain')].entry} ELSE roots
    /\ anchor' = [anchor EXCEPT ![a] = [IdleAnchor EXCEPT !.pc = "over", !.saw = anchor[a].saw]]
    /\ UNCHANGED <<event, damages, anchorCrashes>>

\* A statement throws, or the process dies: ROLLBACK, and the next tick starts again.
AnchorFails(a) ==
    /\ anchorCrashes < MaxAnchorCrashes /\ anchorCrashes' = anchorCrashes + 1
    /\ anchor[a].pc \in {"locked", "head", "append"}
    /\ anchor' = [anchor EXCEPT ![a] = IdleAnchor]
    /\ UNCHANGED <<event, chain, roots, damages>>

-----------------------------------------------------------------------------
(* What storage may do to a chained commitment. *)

DamagedEvent(e) ==
    \/ event' = [event EXCEPT ![e].body = 1]
    \/ event' = [event EXCEPT ![e].envelope = 1]
    \/ event' = [event EXCEPT ![e].state = "deleted"]

DamagedRow(i) ==
    \/ chain' = [chain EXCEPT ![i].body = 1]
    \/ chain' = [chain EXCEPT ![i].envelope = 1]
    \/ chain' = [chain EXCEPT ![i].prev = Genesis]
    \/ chain' = RemoveAt(chain, i)

\* The body is replaced and every hash from there on made anew.
Rewritten(i) ==
    LET History1(n) == [k \in 1..n |-> <<IF k = i THEN 1 ELSE chain[k].body, chain[k].envelope, chain[k].source>>] IN
    /\ event' = [event EXCEPT ![chain[i].source].body = 1]
    /\ chain' = [k \in DOMAIN chain |->
                    [chain[k] EXCEPT !.body = IF k = i THEN 1 ELSE @,
                                     !.prev = History1(k - 1), !.entry = History1(k)]]

Damage ==
    /\ damages < MaxDamages /\ damages' = damages + 1
    /\ \A a \in Anchors : anchor[a].pc \in {"idle", "over"}
    /\ \E i \in DOMAIN chain :
         \/ DamagedEvent(chain[i].source) /\ UNCHANGED chain
         \/ DamagedRow(i) /\ UNCHANGED event
         \/ Rewritten(i)
    /\ UNCHANGED <<anchor, roots, anchorCrashes>>

AuditNext ==
    \/ \E e \in Commitments : BeginInsert(e) \/ CommitInsert(e)
    \/ \E a \in Anchors : \/ TakeLock(a) \/ ReadHead(a) \/ ReadUnchained(a)
                          \/ CommitAnchor(a) \/ AnchorFails(a)
    \/ Damage

AuditSpec == AuditInit /\ [][AuditNext]_auditVars

-----------------------------------------------------------------------------
(* The verifiers. *)

Recomputes(r) == Entry(r.prev, r.body, r.envelope, r.source) = r.entry

\* Mutant: the link is not compared.
FollowsAny(c, i, first) == TRUE

\* Each row names the entry before it.
Follows(c, i, first) == c[i].prev = (IF i = 1 THEN first ELSE c[i - 1].entry)

\* Mutant: the source is not hashed again.
SourceExists(r) == event[r.source].state = "in"

SourceMatches(r) ==
    /\ event[r.source].state = "in"
    /\ event[r.source].envelope = r.envelope /\ event[r.source].body = r.body

\* verifyAuditChain.
Verified == \A i \in DOMAIN chain :
    Follows(chain, i, Genesis) /\ Recomputes(chain[i]) /\ SourceMatches(chain[i])

\* detachedReceiptForDecision: the entry, and the rows from it to the root.
Receipt(i) ==
    [payload |-> event[chain[i].source].body, self |-> chain[i],
     path |-> SubSeq(chain, i, Len(chain)), root |-> HeadEntry]

\* The entries a detached receipt can be had for.
Receipts == {i \in DOMAIN chain : chain[i].source \in Resolutions \cap There}

\* Mutant: the entry of the receipt is not recomputed.
ReceiptBody(rc) == rc.payload = rc.self.body

\* The payload hashes to the body, and the entry is made from it.
ReceiptEntry(rc) == rc.payload = rc.self.body /\ Recomputes(rc.self)

\* verifyDetachedReceipt.
ReceiptHolds(rc) ==
    /\ ReceiptEntry(rc)
    /\ rc.path # <<>> /\ rc.path[1].entry = rc.self.entry
    /\ \A i \in DOMAIN rc.path : Follows(rc.path, i, rc.path[1].prev) /\ Recomputes(rc.path[i])
    /\ rc.path[Len(rc.path)].entry = rc.root

\* Mutant: the entries are compared by their bodies.
AgreeOnBodies(x, y) == x[Len(x)][1] = y[Len(y)][1]

Agree(x, y) == x = y

\* reconcile: the entries two chains share from the start, and what is left of each.
Reconciled(local, remote) ==
    LET min == IF Len(local) < Len(remote) THEN Len(local) ELSE Len(remote)
        common == CHOOSE n \in 0..min :
                    /\ \A i \in 1..n : Agree(local[i], remote[i])
                    /\ n < min => ~Agree(local[n + 1], remote[n + 1])
    IN IF common < min THEN (IF common = 0 THEN "unrelated" ELSE "forked")
       ELSE IF Len(local) = Len(remote) THEN "in_sync"
       ELSE IF common = Len(local) THEN "remote_ahead" ELSE "local_ahead"

Entries == [i \in DOMAIN chain |-> chain[i].entry]
\* The view of the machine that holds a root: the entries of its history.
ViewOf(root) == [i \in DOMAIN root |-> SubSeq(root, 1, i)]

-----------------------------------------------------------------------------
(* The chain never forks on its own: whatever anchors run at once and in    *)
(* whichever order commitments commit, an undamaged chain verifies, chains  *)
(* a commitment once, and every receipt from it verifies against its root.  *)
UndamagedVerifies ==
    damages = 0 =>
        /\ Verified /\ \A i, j \in DOMAIN chain : chain[i].source = chain[j].source => i = j
        /\ \A i \in Receipts : ReceiptHolds(Receipt(i))

(* No silent hole: a commitment that was there when an anchor looked is in  *)
(* the chain once that anchor has committed, a late one with a lower seq    *)
(* than those chained before it too.                                        *)
NoSilentHole ==
    damages = 0 => \A a \in Anchors : anchor[a].pc = "over" => anchor[a].saw \subseteq Chained

(* Damage is found: if the chain verifies and a root that was sent out is   *)
(* among its entries, every commitment under that root is chained and is    *)
(* as it was made.                                                          *)
DamageIsFound ==
    Verified => \A root \in roots :
        (\E i \in DOMAIN chain : chain[i].entry = root)
            => \A k \in DOMAIN root : LET s == root[k][3] IN
                 s \in Chained /\ event[s] = [state |-> "in", body |-> 0, envelope |-> 0]

(* A receipt proves its outcome: whatever payload and body hash stand on a  *)
(* receipt, if it verifies and ends at a root that was sent out, the        *)
(* payload is the one that was committed.                                   *)
ReceiptProves ==
    \A i \in Receipts, shown, body \in {0, 1} :
        LET rc == [Receipt(i) EXCEPT !.payload = shown, !.self.body = body] IN
        ReceiptHolds(rc) /\ rc.root \in roots => shown = 0

(* Two machines tell a lagging chain from another history: against the      *)
(* chain of a root that was sent out, the comparison says "ahead" or "in    *)
(* sync" exactly when that root is one of our entries, chained in its place.*)
ReconcileTells ==
    \A root \in roots :
        Reconciled(Entries, ViewOf(root)) \in {"in_sync", "local_ahead"}
            <=> /\ Len(root) <= Len(chain)
                /\ \A i \in DOMAIN root : chain[i].entry = SubSeq(root, 1, i)
(* The chain is one and has no holes.                                       *)
ChainIsWhole == UndamagedVerifies /\ NoSilentHole

(* What a third party can check tells the truth: the chain, a receipt, and  *)
(* the comparison of two machines.                                          *)
EvidenceIsTrue == DamageIsFound /\ ReceiptProves /\ ReconcileTells

\* The chain holds everything, and what it is asked it answers truly.
AuditHolds == ChainIsWhole /\ EvidenceIsTrue
=============================================================================
