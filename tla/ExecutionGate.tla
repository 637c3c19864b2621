--------------------------- MODULE ExecutionGate ---------------------------
(***************************************************************************)
(* The permission engine: evaluate() and evaluateHostOp() of               *)
(* packages/fabric/src/evaluate.ts, pure functions of a request, a member, *)
(* the member's mandate, the clock, the room's roster and the facts that   *)
(* hold; and the world they are asked in, where between two requests facts *)
(* come and go, members join, the mandate expires, and an edit of the      *)
(* mandate file (seen at the next restart) adds a host grant.              *)
(*                                                                         *)
(* Abstracted: action types and resources are model values, a glob is the  *)
(* set of resources it matches; the verdict's mandate hash and policy      *)
(* version, copied from the mandate, are left out.                         *)
(***************************************************************************)
EXTENDS Naturals, FiniteSets

CONSTANTS
    AbstractTypes,   \* action types matched against `scope` (pr.review, pr.merge, ...)
    HostTypes,       \* the fs., git. and shell. types, routed to the execution gate
    ShellTypes,      \* those of them that run a command
    Resources,
    Globs,           \* the resource patterns, each the set of resources it matches
    Facts,
    Members,
    MaxGrants        \* bound: host grants of a mandate

ASSUME TypesAssumption == AbstractTypes \cap HostTypes = {} /\ ShellTypes \subseteq HostTypes
ASSUME GlobsAssumption == Globs \subseteq SUBSET Resources
ASSUME BoundsAssumption == MaxGrants \in Nat

VARIABLES
    mandate,    \* the mandate loaded for one member, or the lack of one
    expired,    \* its `expires` has passed
    roster,     \* the members of the room
    facts       \* the facts the room can prove

vars == <<mandate, expired, roster, facts>>

Grants == [action : HostTypes, glob : Globs, requires : SUBSET Facts]
Mandates == [loaded : BOOLEAN, sig_valid : BOOLEAN, member : Members, roster_only : BOOLEAN,
             scope : SUBSET AbstractTypes, protected_actions : SUBSET AbstractTypes,
             host_scope : SUBSET Grants, host_protected : SUBSET Grants]
Requests == [type : AbstractTypes \cup HostTypes, resource : Resources, by : Members]

-----------------------------------------------------------------------------
(* The evaluator, check by check in the order of the early returns. *)

Allow == [decision |-> "ALLOW", reason |-> "ALLOWED_IN_SCOPE", signer |-> "none"]
Block(reason) == [decision |-> "BLOCK", reason |-> reason, signer |-> "none"]
CoSign(reason) == [decision |-> "CO_SIGN", reason |-> reason, signer |-> "principal"]

ResourceMatches(r, g) == r.resource \in g.glob
FactsMet(g, known) == g.requires \subseteq known
Applies(r, g, known) == ResourceMatches(r, g) /\ FactsMet(g, known)
GrantsFor(r, grants) == {g \in grants : g.action = r.type}

\* Mutant: a protected grant whose facts do not hold does not count.
HostOpFallsThrough(r, m, known) ==
    LET grants == GrantsFor(r, m.host_scope)
        protected == GrantsFor(r, m.host_protected)
        Unmet(g) == ResourceMatches(r, g) /\ ~FactsMet(g, known)
    IN  IF grants = {} /\ protected = {} THEN Block("OUT_OF_SCOPE")
        ELSE IF \E g \in protected : Applies(r, g, known) THEN CoSign("PROTECTED_ACTION")
        ELSE IF \E g \in grants : Applies(r, g, known) THEN Allow
        ELSE IF \E g \in grants \cup protected : Unmet(g) THEN Block("CONDITION_UNMET")
        ELSE IF r.type \in ShellTypes THEN CoSign("SHELL_NOT_ALLOWLISTED")
        ELSE Block("RESOURCE_OUT_OF_SCOPE")

\* Mutant: an unmet condition is reported as a resource out of scope.
HostOpForgetsCondition(r, m, known) ==
    LET grants == GrantsFor(r, m.host_scope)
        protected == GrantsFor(r, m.host_protected)
        Unmet(g) == ResourceMatches(r, g) /\ ~FactsMet(g, known)
    IN  IF grants = {} /\ protected = {} THEN Block("OUT_OF_SCOPE")
        ELSE IF \E g \in protected : Applies(r, g, known) THEN CoSign("PROTECTED_ACTION")
        ELSE IF \E g \in protected : Unmet(g) THEN Block("CONDITION_UNMET")
        ELSE IF \E g \in grants : Applies(r, g, known) THEN Allow
        ELSE IF r.type \in ShellTypes THEN CoSign("SHELL_NOT_ALLOWLISTED")
        ELSE Block("RESOURCE_OUT_OF_SCOPE")

\* Mutant: whatever is listed for the type and applies is allowed.
HostOpAllowsListed(r, m, known) ==
    LET grants == GrantsFor(r, m.host_scope)
        protected == GrantsFor(r, m.host_protected)
    IN  IF grants = {} /\ protected = {} THEN Block("OUT_OF_SCOPE")
        ELSE IF \E g \in grants \cup protected : Applies(r, g, known) THEN Allow
        ELSE IF r.type \in ShellTypes THEN CoSign("SHELL_NOT_ALLOWLISTED")
        ELSE Block("RESOURCE_OUT_OF_SCOPE")

\* evaluateHostOp.
HostOp(r, m, known) ==
    LET grants == GrantsFor(r, m.host_scope)
        protected == GrantsFor(r, m.host_protected)
        Unmet(g) == ResourceMatches(r, g) /\ ~FactsMet(g, known)
    IN  IF grants = {} /\ protected = {} THEN Block("OUT_OF_SCOPE")
        ELSE IF \E g \in protected : Applies(r, g, known) THEN CoSign("PROTECTED_ACTION")
        ELSE IF \E g \in protected : Unmet(g) THEN Block("CONDITION_UNMET")
        ELSE IF \E g \in grants : Applies(r, g, known) THEN Allow
        ELSE IF \E g \in grants \cup protected : Unmet(g) THEN Block("CONDITION_UNMET")
        ELSE IF r.type \in ShellTypes THEN CoSign("SHELL_NOT_ALLOWLISTED")
        ELSE Block("RESOURCE_OUT_OF_SCOPE")

\* Mutant: the roster is not consulted.
EvaluateAnyRoom(r, m, past, present, known) ==
    IF ~m.loaded THEN Block("NO_MANDATE")
    ELSE IF ~m.sig_valid THEN Block("SIGNATURE_INVALID")
    ELSE IF m.member # r.by THEN Block("NO_MANDATE")
    ELSE IF past THEN Block("MANDATE_EXPIRED")
    ELSE IF r.type \notin HostTypes /\ r.type \notin m.scope THEN Block("OUT_OF_SCOPE")
    ELSE IF r.type \in HostTypes THEN HostOp(r, m, known)
    ELSE IF r.type \in m.protected_actions THEN CoSign("PROTECTED_ACTION")
    ELSE Allow

\* evaluate: `past` says whether the mandate has expired, `present` who is in the room.
Evaluate(r, m, past, present, known) ==
    IF ~m.loaded THEN Block("NO_MANDATE")
    ELSE IF ~m.sig_valid THEN Block("SIGNATURE_INVALID")
    ELSE IF m.member # r.by THEN Block("NO_MANDATE")
    ELSE IF past THEN Block("MANDATE_EXPIRED")
    ELSE IF r.type \notin HostTypes /\ r.type \notin m.scope THEN Block("OUT_OF_SCOPE")
    ELSE IF m.roster_only /\ r.by \notin present THEN Block("ROSTER_VIOLATION")
    ELSE IF r.type \in HostTypes THEN HostOp(r, m, known)
    ELSE IF r.type \in m.protected_actions THEN CoSign("PROTECTED_ACTION")
    ELSE Allow

-----------------------------------------------------------------------------
(* The world between two requests. *)

TypeOK ==
    /\ mandate \in Mandates
    /\ expired \in BOOLEAN
    /\ roster \subseteq Members
    /\ facts \subseteq Facts

Init ==
    /\ mandate \in {m \in Mandates : m.host_scope = {} /\ m.host_protected = {}}
    /\ expired = FALSE
    /\ roster = {}
    /\ facts = {}

\* roomFacts: the facts are the checks whose latest report passed.
FactProved(f) == facts' = facts \cup {f} /\ UNCHANGED <<mandate, expired, roster>>
FactLost(f) == facts' = facts \ {f} /\ UNCHANGED <<mandate, expired, roster>>
Join(m) == roster' = roster \cup {m} /\ UNCHANGED <<mandate, expired, facts>>
Expire == ~expired /\ expired' = TRUE /\ UNCHANGED <<mandate, roster, facts>>

Room == Cardinality(mandate.host_scope) + Cardinality(mandate.host_protected) < MaxGrants

GrantHost(g) ==
    /\ Room
    /\ mandate' = [mandate EXCEPT !.host_scope = @ \cup {g}]
    /\ UNCHANGED <<expired, roster, facts>>

ProtectHost(g) ==
    /\ Room
    /\ mandate' = [mandate EXCEPT !.host_protected = @ \cup {g}]
    /\ UNCHANGED <<expired, roster, facts>>

Next ==
    \/ \E f \in Facts : FactProved(f) \/ FactLost(f)
    \/ \E m \in Members : Join(m)
    \/ Expire
    \/ \E g \in Grants : GrantHost(g) \/ ProtectHost(g)

Spec == Init /\ [][Next]_vars

-----------------------------------------------------------------------------
(* Properties. *)

Verdict(r) == Evaluate(r, mandate, expired, roster, facts)

\* The mandate is the requester's, sound, in force and usable in this room.
InForce(r) ==
    /\ mandate.loaded /\ mandate.sig_valid /\ ~expired
    /\ mandate.member = r.by
    /\ mandate.roster_only => r.by \in roster

Matching(r, grants) == {g \in GrantsFor(r, grants) : ResourceMatches(r, g)}

\* "Deny by default. Anything not explicitly granted is blocked" (README.md:137): an ALLOW needs a
\* mandate in force and a grant that covers the very request with its facts proved, and no
\* protection that touches it, whether or not the protection's own facts hold.
AllowIsGranted ==
    \A r \in Requests : Verdict(r).decision = "ALLOW" <=>
        /\ InForce(r)
        /\ \/ r.type \in mandate.scope \ mandate.protected_actions
           \/ /\ \E g \in Matching(r, mandate.host_scope) : FactsMet(g, facts)
              /\ Matching(r, mandate.host_protected) = {}

\* A human is asked exactly for what is protected and otherwise due, and for a command the member
\* may run commands for but which no pattern names; and somebody is named to sign ("evaluate()
\* always sets one", commands/signDecision.ts:71).
CoSignIsProtected ==
    \A r \in Requests :
        /\ Verdict(r).decision = "CO_SIGN" <=>
              /\ InForce(r)
              /\ \/ r.type \in mandate.scope \cap mandate.protected_actions
                 \/ \E g \in Matching(r, mandate.host_protected) : FactsMet(g, facts)
                 \/ /\ r.type \in ShellTypes
                    /\ GrantsFor(r, mandate.host_scope \cup mandate.host_protected) # {}
                    /\ Matching(r, mandate.host_scope \cup mandate.host_protected) = {}
        /\ Verdict(r).decision = "CO_SIGN" <=> Verdict(r).signer # "none"

\* CONDITION_UNMET "means 'not yet', not 'never'" (evaluate.ts:38): proving the facts lifts it, and
\* no other refusal can be lifted by any facts.
NotYetIsNotNever ==
    \A r \in Requests : Verdict(r).decision = "BLOCK" =>
        (Verdict(r).reason = "CONDITION_UNMET" <=>
            \E known \in SUBSET Facts :
                Evaluate(r, mandate, expired, roster, known).decision # "BLOCK")

Rank(decision) == CASE decision = "BLOCK" -> 0 [] decision = "CO_SIGN" -> 1 [] decision = "ALLOW" -> 2

\* Learning a fact never takes authority away, so the order in which the checks of a room report
\* cannot turn an allowed operation into a refused one.
FactsOnlyOpen ==
    [][facts # facts' /\ facts \subseteq facts' /\ UNCHANGED <<mandate, expired, roster>> =>
          \A r \in Requests : Rank(Verdict(r)'.decision) >= Rank(Verdict(r).decision)]_vars

\* Protecting an operation never allows it or anything else without a signature.
ProtectionNeverAllows ==
    [][mandate # mandate' /\ (\E g \in Grants : ProtectHost(g)) =>
          \A r \in Requests : Verdict(r)'.decision = "ALLOW" => Verdict(r).decision = "ALLOW"]_vars

\* Every verdict means what the engine promises of it, in one invariant.
VerdictIsMeant == AllowIsGranted /\ CoSignIsProtected /\ NotYetIsNotNever

\* Verdicts move one way: up with the facts, never up to ALLOW with a protection.
VerdictsMove == FactsOnlyOpen /\ ProtectionNeverAllows
=============================================================================
