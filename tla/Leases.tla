------------------------------- MODULE Leases --------------------------------
(***************************************************************************)
(* The session of a local node (leases.ts) and what it does with it: host  *)
(* operations put to the gate and check reports (the node-ops and checks   *)
(* routes of server.ts), from which roomFacts (facts.ts) derives the facts *)
(* a mandate's `requires` names.                                           *)
(*                                                                         *)
(* Abstracted: time is what has passed (a heartbeat lapses, a lease or a   *)
(* credential ends); one credential, one room, one kind of check; the gate *)
(* is whether the member's mandate covers the operation at once, with a    *)
(* fact, or not at all (ExecutionGate).                                    *)
(***************************************************************************)
EXTENDS Naturals, FiniteSets

CONSTANTS
    LeaseIds,
    HostOps,        \* requests to node-ops
    Needs,          \* [HostOps -> {"nothing", "proof", "more"}]: what the mandate asks of each
    Reports,        \* requests to checks
    Passed,         \* those that report a pass
    MaxTicks        \* bound: the instants of the database's clock that are told apart

ASSUME LeaseAssumption ==
    Needs \in [HostOps -> {"nothing", "proof", "more"}] /\ Passed \subseteq Reports /\ MaxTicks \in Nat

VARIABLES
    grantor,    \* the credential the leases are issued under: "live" or "dead"
    lease,      \* LeaseIds -> the row: how it stands, and whether its heartbeat is fresh
    beating,       \* the leases whose last answer to a heartbeat was yes, and nothing since
    hostOp,     \* the requests to node-ops: where each is, what it read, what it was answered
    report,     \* the requests to checks
    rows,       \* <<report, ts>>: the rows of room_checks
    tick

leaseVars == <<grantor, lease, beating, hostOp, report, rows, tick>>

NoOp == [pc |-> "none", fact |-> FALSE, known |-> {}]

LeaseTypeOK ==
    /\ grantor \in {"live", "dead"} /\ beating \subseteq LeaseIds
    /\ lease \in [LeaseIds -> [state : {"none", "open", "revoked", "expired"}, fresh : BOOLEAN]]
    /\ hostOp \in [HostOps -> [pc : {"none", "scope", "decide", "refused", "allowed", "blocked"},
                               fact : BOOLEAN, known : SUBSET (Reports \X (0..MaxTicks))]]
    /\ report \in [Reports -> {"none", "insert", "over"}]
    /\ rows \subseteq Reports \X (0..MaxTicks) /\ tick \in 0..MaxTicks

LeaseInit ==
    /\ grantor = "live" /\ beating = {} /\ rows = {} /\ tick = 0
    /\ lease = [l \in LeaseIds |-> [state |-> "none", fresh |-> FALSE]]
    /\ hostOp = [o \in HostOps |-> NoOp]
    /\ report = [r \in Reports |-> "none"]

-----------------------------------------------------------------------------
(* The lease. *)

\* verifyLease: open, within its time, with a fresh heartbeat, under a live credential.
Verifies(l) == lease[l].state = "open" /\ lease[l].fresh /\ grantor = "live"

IssueLease(l) ==
    /\ grantor = "live" /\ lease[l].state = "none"
    /\ lease' = [lease EXCEPT ![l] = [state |-> "open", fresh |-> TRUE]]
    /\ UNCHANGED <<grantor, beating, hostOp, report, rows, tick>>

\* Mutant: the credential is not joined.
RevivesAlone(l) == lease[l].state = "open"

\* Mutant: a lease past its time is opened again.
RevivesExpired(l) == lease[l].state \in {"open", "expired"} /\ grantor = "live"

\* heartbeatLease: a lapsed heartbeat revives (the reconnect grace), a revoked or expired
\* lease and one under a dead credential do not.
Revives(l) == lease[l].state = "open" /\ grantor = "live"

Heartbeat(l) ==
    /\ Revives(l)
    /\ lease' = [lease EXCEPT ![l] = [state |-> "open", fresh |-> TRUE]]
    /\ beating' = beating \cup {l}
    /\ UNCHANGED <<grantor, hostOp, report, rows, tick>>

\* revokeLease, by its owner.
RevokeLease(l) ==
    /\ lease[l].state \in {"open", "expired"}
    /\ lease' = [lease EXCEPT ![l].state = "revoked"] /\ beating' = beating \ {l}
    /\ UNCHANGED <<grantor, hostOp, report, rows, tick>>

\* revokeMemberLeases: all of a member's.
RevokeAll ==
    /\ \E l \in LeaseIds : lease[l].state = "open"
    /\ lease' = [l \in LeaseIds |-> IF lease[l].state = "none" THEN lease[l]
                                    ELSE [lease[l] EXCEPT !.state = "revoked"]]
    /\ beating' = {}
    /\ UNCHANGED <<grantor, hostOp, report, rows, tick>>

\* Time: a heartbeat lapses or the lease expires; the credential ends, by time or by its owner.
LeaseTime(l) ==
    /\ lease[l].state = "open"
    /\ lease' \in {[lease EXCEPT ![l].state = "expired"], [lease EXCEPT ![l].fresh = FALSE]}
    /\ lease' # lease /\ beating' = beating \ {l}
    /\ UNCHANGED <<grantor, hostOp, report, rows, tick>>

GrantorEnds ==
    /\ grantor = "live" /\ grantor' = "dead" /\ beating' = {}
    /\ UNCHANGED <<lease, hostOp, report, rows, tick>>

ClockTicks ==
    /\ tick < MaxTicks /\ tick' = tick + 1
    /\ UNCHANGED <<grantor, lease, beating, hostOp, report, rows>>

-----------------------------------------------------------------------------
(* Check reports. *)

VerifyReporter(r, l) ==
    /\ report[r] = "none"
    /\ report' = [report EXCEPT ![r] = IF Verifies(l) THEN "insert" ELSE "over"]
    /\ UNCHANGED <<grantor, lease, beating, hostOp, rows, tick>>

\* Mutant: the node's clock, which runs ahead.
StampAhead == tick + 1
\* The instant of the statement, of the database's clock.
Stamp == tick

\* recordCheck.
RecordCheck(r) ==
    /\ report[r] = "insert" /\ report' = [report EXCEPT ![r] = "over"]
    /\ rows' = rows \cup {<<r, Stamp>>}
    /\ UNCHANGED <<grantor, lease, beating, hostOp, tick>>

-----------------------------------------------------------------------------
(* Host operations. *)

\* Mutant: a check that ever passed is a fact.
LatestEver(seen) == seen

\* DISTINCT ON (name) ORDER BY ts DESC: the newest rows, among which the order is arbitrary.
Latest(seen) == {x \in seen : \A y \in seen : y[2] <= x[2]}
\* roomFacts: whether the newest report passed; none at all proves nothing.
Facts(seen) == IF seen = {} THEN {FALSE} ELSE {(x[1] \in Passed) : x \in Latest(seen)}

VerifyNode(o, l) ==
    /\ hostOp[o].pc = "none"
    /\ hostOp' = [hostOp EXCEPT ![o] = IF Verifies(l) THEN [NoOp EXCEPT !.pc = "scope", !.known = rows]
                                       ELSE [NoOp EXCEPT !.pc = "refused"]]
    /\ UNCHANGED <<grantor, lease, beating, report, rows, tick>>

\* Throttle, shape, prefix, the lease's own scope and the room refuse; then the facts are read.
ReadFacts(o) ==
    /\ hostOp[o].pc = "scope"
    /\ \/ hostOp' = [hostOp EXCEPT ![o].pc = "refused"]
       \/ \E fact \in Facts(rows) :
            hostOp' = [hostOp EXCEPT ![o].pc = "decide", ![o].fact = fact]
    /\ UNCHANGED <<grantor, lease, beating, report, rows, tick>>

\* requestAction, on the facts that were read: the answer the node acts on.
Decide(o) ==
    /\ hostOp[o].pc = "decide"
    /\ hostOp' = [hostOp EXCEPT ![o].pc =
           IF Needs[o] = "nothing" \/ (Needs[o] = "proof" /\ hostOp[o].fact) THEN "allowed" ELSE "blocked"]
    /\ UNCHANGED <<grantor, lease, beating, report, rows, tick>>

LeaseNext ==
    \/ \E l \in LeaseIds : IssueLease(l) \/ Heartbeat(l) \/ RevokeLease(l) \/ LeaseTime(l)
    \/ RevokeAll \/ GrantorEnds \/ ClockTicks
    \/ \E r \in Reports : RecordCheck(r) \/ \E l \in LeaseIds : VerifyReporter(r, l)
    \/ \E o \in HostOps : ReadFacts(o) \/ Decide(o) \/ \E l \in LeaseIds : VerifyNode(o, l)

LeaseSpec == LeaseInit /\ [][LeaseNext]_leaseVars

-----------------------------------------------------------------------------
(* Properties. *)

\* "The two surfaces cannot disagree about whether a lease lives": a node whose last heartbeat
\* was answered with yes, with nothing passed since, is not refused its next operation.
HeartbeatNeverLies == \A l \in beating : Verifies(l)

\* "Revocation is a permanent stop", and so is expiry: whatever heartbeats and requests race
\* them, a lease that is over, or whose credential is, never verifies again.
OverIsForGood == [][\A l \in LeaseIds :
    lease[l].state \in {"revoked", "expired"} \/ grantor = "dead" => ~Verifies(l)']_leaseVars

\* "A stale pass does not linger": an operation that needed a proof and was allowed had a pass
\* that no failure known when it was verified had overtaken.
PassIsNotStale == \A o \in HostOps :
    hostOp[o].pc = "allowed" /\ Needs[o] = "proof" =>
        \E x \in rows : x[1] \in Passed
            /\ \A y \in hostOp[o].known : y[1] \notin Passed => y[2] <= x[2]
\* A lease and the facts under it are what the node is told they are.
LeaseIsTrue == HeartbeatNeverLies /\ PassIsNotStale
=============================================================================
