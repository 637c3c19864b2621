---------------------------- MODULE People_proofs ----------------------------
(***************************************************************************)
(* What holds of the people's side of the system for every value of the    *)
(* constants: node leases, OAuth grants, seats and their codes,            *)
(* interrupts, standing orders, push sends and the browser.  Each part     *)
(* proves what its component promises, under the component's own           *)
(* specification, from an inductive invariant given at the head of the     *)
(* part; a lemma for each kind of step says what the step leaves of it.    *)
(* The last part, side by side, carries the promises over to all of them   *)
(* together.                                                               *)
(***************************************************************************)
EXTENDS MCPeople, FiniteSetTheorems, WellFoundedInduction, SequenceTheorems, TLAPS

\* A set of numbers that is not empty has a first.
LEMMA FirstOfNumbers == ASSUME NEW S \in SUBSET Nat, S # {} PROVE Min(S) \in S /\ \A n \in S : Min(S) <= n
<1> DEFINE Less == OpToRel(<, Nat)
<1>2. PICK first \in S : \A h \in S : ~(<<h, first>> \in Less)
  <2>1. IsWellFoundedOn(Less, Nat)
    BY NatLessThanWellFounded
  <2> HIDE DEF Less
  <2> QED BY <2>1, WFMin
<1>3. Less = {pair \in Nat \X Nat : pair[1] < pair[2]}
  BY Zenon DEF OpToRel
<1> HIDE DEF Less
<1>4. \A h, k \in Nat : h < k => <<h, k>> \in Less
  BY <1>3
<1>5. \A h \in S : first \in Nat /\ h \in Nat /\ ~(h < first)
  BY <1>2, <1>4
<1>6. \A h \in S : first <= h
  BY <1>5
<1> QED BY <1>6, Zenon DEF Min

-----------------------------------------------------------------------------
(* Leases. *)

LeaseRows == [state : {"none", "open", "revoked", "expired"}, fresh : BOOLEAN]
NodeOps == [pc : {"none", "scope", "decide", "refused", "allowed", "blocked"},
            fact : BOOLEAN, known : SUBSET (Reports \X (0..MaxTicks))]

\* A fact is yes or no.
LEMMA FactsAreBoolean == ASSUME NEW seen PROVE \A fact \in Facts(seen) : fact \in BOOLEAN
<1>1. CASE seen = {}
  BY <1>1 DEF Facts
<1>2. CASE seen # {}
  <2>1. Facts(seen) = {(rec[1] \in Passed) : rec \in Latest(seen)}
    BY <1>2 DEF Facts
  <2>2. \A rec : (rec[1] \in Passed) \in BOOLEAN
    OBVIOUS
  <2> QED BY <2>1, <2>2, Zenon
<1> QED BY <1>1, <1>2

\* A lease's row changed to another row, a request's record to another record, keep the type.
LEMMA LeaseTyping ==
    ASSUME LeaseTypeOK
    PROVE  /\ lease \in [LeaseIds -> LeaseRows] /\ hostOp \in [HostOps -> NodeOps]
           /\ (lease' \in [LeaseIds -> LeaseRows] /\ beating' \subseteq LeaseIds
                 /\ UNCHANGED <<grantor, hostOp, report, rows, tick>> => LeaseTypeOK')
           /\ (hostOp' \in [HostOps -> NodeOps]
                 /\ UNCHANGED <<grantor, lease, beating, report, rows, tick>> => LeaseTypeOK')
BY DEF LeaseTypeOK, LeaseRows, NodeOps

\* Every step of a lease, a report or a host operation keeps every variable's type.
LEMMA LeaseTypeStep == LeaseTypeOK /\ [LeaseNext]_leaseVars => LeaseTypeOK'
<1> SUFFICES ASSUME LeaseTypeOK, [LeaseNext]_leaseVars PROVE LeaseTypeOK'
  OBVIOUS
<1>0. lease \in [LeaseIds -> LeaseRows] /\ hostOp \in [HostOps -> NodeOps] /\ beating \subseteq LeaseIds
  BY LeaseTyping DEF LeaseTypeOK
<1>1. ASSUME NEW l \in LeaseIds, IssueLease(l) \/ Heartbeat(l) \/ RevokeLease(l) PROVE LeaseTypeOK'
  <2>1. [state |-> "open", fresh |-> TRUE] \in LeaseRows /\ [lease[l] EXCEPT !.state = "revoked"] \in LeaseRows
    BY <1>0 DEF LeaseRows
  <2>2. lease' \in [LeaseIds -> LeaseRows] /\ beating' \subseteq LeaseIds
    BY <1>0, <1>1, <2>1 DEF IssueLease, Heartbeat, RevokeLease
  <2> QED BY <1>1, <2>2, LeaseTyping DEF IssueLease, Heartbeat, RevokeLease
<1>2. ASSUME NEW l \in LeaseIds, LeaseTime(l) PROVE LeaseTypeOK'
  <2>1. \/ lease' = [lease EXCEPT ![l].state = "expired"]
        \/ lease' = [lease EXCEPT ![l].fresh = FALSE]
    BY <1>2 DEF LeaseTime
  <2>2. [lease[l] EXCEPT !.state = "expired"] \in LeaseRows /\ [lease[l] EXCEPT !.fresh = FALSE] \in LeaseRows
    BY <1>0 DEF LeaseRows
  <2>3. lease' \in [LeaseIds -> LeaseRows] /\ beating' \subseteq LeaseIds
    BY <1>0, <1>2, <2>1, <2>2 DEF LeaseTime
  <2> QED BY <1>2, <2>3, LeaseTyping DEF LeaseTime
<1>3. CASE RevokeAll \/ GrantorEnds
  BY <1>3 DEF LeaseTypeOK, RevokeAll, GrantorEnds
<1>4. CASE ClockTicks
  BY <1>4, LeaseAssumption DEF LeaseTypeOK, ClockTicks
<1>5. ASSUME NEW r \in Reports, RecordCheck(r) PROVE LeaseTypeOK'
  BY <1>5 DEF LeaseTypeOK, RecordCheck, Stamp
<1>6. ASSUME NEW r \in Reports, NEW l \in LeaseIds, VerifyReporter(r, l) PROVE LeaseTypeOK'
  BY <1>6 DEF LeaseTypeOK, VerifyReporter
<1>7. ASSUME NEW o \in HostOps, ReadFacts(o) PROVE LeaseTypeOK'
  <2>1. [hostOp[o] EXCEPT !.pc = "refused"] \in NodeOps
        /\ \A fact \in BOOLEAN : [hostOp[o] EXCEPT !.pc = "decide", !.fact = fact] \in NodeOps
    BY <1>0 DEF NodeOps
  <2>2. \A fact \in Facts(rows) : fact \in BOOLEAN
    BY FactsAreBoolean
  <2>3. hostOp' \in [HostOps -> NodeOps]
    BY <1>0, <1>7, <2>1, <2>2 DEF ReadFacts
  <2> QED BY <1>7, <2>3, LeaseTyping DEF ReadFacts
<1>8. ASSUME NEW o \in HostOps, Decide(o) PROVE LeaseTypeOK'
  <2>1. PICK to \in {"allowed", "blocked"} : hostOp' = [hostOp EXCEPT ![o].pc = to]
    BY <1>8 DEF Decide
  <2>2. [hostOp[o] EXCEPT !.pc = to] \in NodeOps
    BY <1>0 DEF NodeOps
  <2>3. hostOp' \in [HostOps -> NodeOps]
    BY <1>0, <2>1, <2>2
  <2> QED BY <1>8, <2>3, LeaseTyping DEF Decide
<1>9. ASSUME NEW o \in HostOps, NEW l \in LeaseIds, VerifyNode(o, l) PROVE LeaseTypeOK'
  BY <1>9 DEF LeaseTypeOK, VerifyNode, NoOp
<1>10. CASE UNCHANGED leaseVars
  BY <1>10 DEF LeaseTypeOK, leaseVars
<1> QED BY <1>1, <1>2, <1>3, <1>4, <1>5, <1>6, <1>7, <1>8, <1>9, <1>10 DEF LeaseNext

\* Every variable of the leases keeps its type, for every set of leases, requests and reports.
LEMMA LeaseTypes == LeaseSpec => []LeaseTypeOK
<1>1. LeaseInit => LeaseTypeOK
  BY LeaseAssumption DEF LeaseInit, LeaseTypeOK, NoOp
<1> QED BY <1>1, LeaseTypeStep, PTL DEF LeaseSpec

\* A heartbeat is remembered only while the lease still verifies: each way a lease or its
\* credential ends forgets it in the same step.
LEMMA HeartbeatStep ==
    LeaseTypeOK /\ HeartbeatNeverLies /\ [LeaseNext]_leaseVars => HeartbeatNeverLies'
<1> SUFFICES ASSUME LeaseTypeOK, HeartbeatNeverLies, [LeaseNext]_leaseVars,
                    NEW l \in LeaseIds, l \in beating'
             PROVE  Verifies(l)'
  BY LeaseTypeStep DEF HeartbeatNeverLies, LeaseTypeOK
<1> USE DEF LeaseTypeOK, HeartbeatNeverLies, Verifies
<1>1. ASSUME NEW k \in LeaseIds, IssueLease(k) PROVE Verifies(l)'
  BY <1>1 DEF IssueLease
<1>2. ASSUME NEW k \in LeaseIds, Heartbeat(k) PROVE Verifies(l)'
  BY <1>2 DEF Heartbeat, Revives
<1>3. ASSUME NEW k \in LeaseIds, RevokeLease(k) PROVE Verifies(l)'
  BY <1>3 DEF RevokeLease
<1>4. ASSUME NEW k \in LeaseIds, LeaseTime(k) PROVE Verifies(l)'
  <2>1. l \in beating /\ l # k /\ UNCHANGED grantor
    BY <1>4 DEF LeaseTime
  <2>2. \/ lease' = [lease EXCEPT ![k].state = "expired"]
        \/ lease' = [lease EXCEPT ![k].fresh = FALSE]
    BY <1>4 DEF LeaseTime
  <2>3. lease'[l] = lease[l]
    BY <2>1, <2>2
  <2> QED BY <2>1, <2>3
<1>5. CASE RevokeAll \/ GrantorEnds
  BY <1>5 DEF RevokeAll, GrantorEnds
<1>6. CASE UNCHANGED <<grantor, lease, beating>>
  BY <1>6
<1> QED BY <1>1, <1>2, <1>3, <1>4, <1>5, <1>6
        DEF LeaseNext, leaseVars, ClockTicks, RecordCheck, VerifyReporter, ReadFacts, Decide, VerifyNode

\* What a host operation was verified with is still in the table, and no row is of the future.
RowsStay ==
    /\ \A rec \in rows : rec[2] <= tick
    /\ \A o \in HostOps : hostOp[o].known \subseteq rows

\* A proof, once read, is a pass no older than any row the operation was verified with.
ProofIsFresh == \A o \in HostOps :
    hostOp[o].pc \in {"decide", "allowed"} /\ hostOp[o].fact =>
        \E rec \in rows : rec[1] \in Passed /\ \A old \in hostOp[o].known : old[2] <= rec[2]

\* An operation that needs a proof is allowed on a proof.
AllowedOnFact == \A o \in HostOps :
    hostOp[o].pc = "allowed" /\ Needs[o] = "proof" => hostOp[o].fact

LeaseInv == HeartbeatNeverLies /\ RowsStay /\ ProofIsFresh /\ AllowedOnFact

\* The facts say yes only when a newest row is a pass.
LEMMA FactIsNewest ==
    ASSUME NEW seen, TRUE \in Facts(seen)
    PROVE  \E rec \in seen : rec[1] \in Passed /\ \A old \in seen : old[2] <= rec[2]
BY DEF Facts, Latest

\* The rows and what was read of them, through every step.
LEMMA ProofStep ==
    ASSUME LeaseTypeOK, RowsStay, ProofIsFresh, AllowedOnFact, [LeaseNext]_leaseVars
    PROVE  RowsStay' /\ ProofIsFresh' /\ AllowedOnFact'
<1> USE DEF LeaseTypeOK, RowsStay, ProofIsFresh, AllowedOnFact
<1>1. CASE UNCHANGED <<hostOp, rows, tick>>
  BY <1>1
<1>2. CASE ClockTicks
  <2>1. \A rec \in rows : rec[2] \in Nat /\ tick \in Nat
    BY LeaseAssumption
  <2> QED BY <1>2, <2>1 DEF ClockTicks
<1>3. ASSUME NEW r \in Reports, RecordCheck(r) PROVE RowsStay' /\ ProofIsFresh' /\ AllowedOnFact'
  <2>1. rows \subseteq rows' /\ UNCHANGED <<hostOp, tick>> /\ tick <= tick
    BY <1>3, LeaseAssumption DEF RecordCheck
  <2>2. \A rec \in rows' : rec \in rows \/ rec = <<r, tick>>
    BY <1>3 DEF RecordCheck, Stamp
  <2>3. RowsStay'
    BY <2>1, <2>2
  <2> QED BY <2>1, <2>3
<1>4. ASSUME NEW o \in HostOps, NEW l \in LeaseIds, VerifyNode(o, l)
      PROVE  RowsStay' /\ ProofIsFresh' /\ AllowedOnFact'
  <2>1. hostOp' = [hostOp EXCEPT ![o] = hostOp'[o]] /\ UNCHANGED <<rows, tick>>
    BY <1>4 DEF VerifyNode
  <2>2. hostOp'[o].pc \in {"scope", "refused"} /\ hostOp'[o].known \subseteq rows
    BY <1>4 DEF VerifyNode, NoOp
  <2>3. \A u \in HostOps : u # o => hostOp'[u] = hostOp[u]
    BY <2>1
  <2> QED BY <2>1, <2>2, <2>3
<1>5. ASSUME NEW o \in HostOps, ReadFacts(o) PROVE RowsStay' /\ ProofIsFresh' /\ AllowedOnFact'
  <2>1. UNCHANGED <<rows, tick>> /\ \A u \in HostOps : u # o => hostOp'[u] = hostOp[u]
    BY <1>5 DEF ReadFacts
  <2>2. hostOp'[o].known = hostOp[o].known
    BY <1>5 DEF ReadFacts
  <2>3. hostOp'[o].pc \in {"refused", "decide"}
        /\ (hostOp'[o].pc = "decide" /\ hostOp'[o].fact => TRUE \in Facts(rows))
    <3>1. CASE hostOp' = [hostOp EXCEPT ![o].pc = "refused"]
      BY <3>1
    <3>2. ASSUME NEW fact \in Facts(rows), hostOp' = [hostOp EXCEPT ![o].pc = "decide", ![o].fact = fact]
          PROVE  <2>3
      <4>1. fact \in BOOLEAN
        BY FactsAreBoolean
      <4> QED BY <3>2, <4>1
    <3> QED BY <1>5, <3>1, <3>2 DEF ReadFacts
  <2>4. RowsStay' /\ AllowedOnFact'
    BY <2>1, <2>2, <2>3
  <2>5. hostOp'[o].pc = "decide" /\ hostOp'[o].fact =>
          \E rec \in rows : rec[1] \in Passed /\ \A old \in hostOp[o].known : old[2] <= rec[2]
    BY <2>3, FactIsNewest
  <2>6. ASSUME NEW u \in HostOps, hostOp'[u].pc \in {"decide", "allowed"}, hostOp'[u].fact
        PROVE  \E rec \in rows' : rec[1] \in Passed /\ \A old \in hostOp'[u].known : old[2] <= rec[2]
    BY <2>1, <2>2, <2>3, <2>5, <2>6
  <2> QED BY <2>4, <2>6
<1>6. ASSUME NEW o \in HostOps, Decide(o) PROVE RowsStay' /\ ProofIsFresh' /\ AllowedOnFact'
  <2>1. PICK to \in {"allowed", "blocked"} :
          /\ hostOp' = [hostOp EXCEPT ![o].pc = to]
          /\ to = "allowed" /\ Needs[o] = "proof" => hostOp[o].fact
    BY <1>6 DEF Decide
  <2>2. UNCHANGED <<rows, tick>> /\ hostOp[o].pc = "decide"
    BY <1>6 DEF Decide
  <2>3. hostOp'[o].pc = to /\ hostOp'[o].fact = hostOp[o].fact /\ hostOp'[o].known = hostOp[o].known
        /\ \A u \in HostOps : u # o => hostOp'[u] = hostOp[u]
    BY <2>1
  <2> QED BY <2>1, <2>2, <2>3
<1> QED BY <1>1, <1>2, <1>3, <1>4, <1>5, <1>6
        DEF LeaseNext, leaseVars, IssueLease, Heartbeat, RevokeLease, LeaseTime, RevokeAll,
            GrantorEnds, VerifyReporter

\* The invariant holds from the first state on.
LEMMA LeaseInvariant == LeaseSpec => [](LeaseTypeOK /\ LeaseInv)
<1>1. LeaseInit => LeaseInv
  BY DEF LeaseInit, LeaseInv, HeartbeatNeverLies, RowsStay, ProofIsFresh, AllowedOnFact, NoOp
<1>2. LeaseTypeOK /\ LeaseInv /\ [LeaseNext]_leaseVars => LeaseInv'
  BY HeartbeatStep, ProofStep DEF LeaseInv
<1> QED BY <1>1, <1>2, LeaseTypes, PTL DEF LeaseSpec

\* A node whose heartbeat was answered yes holds a lease that verifies, and an operation that
\* needed a proof was allowed on a pass no failure it knew of had overtaken: for every number of
\* leases, requests and reports, and every interleaving of the reads, the reports and the clock.
THEOREM LeaseIsTrueHolds == LeaseSpec => []LeaseIsTrue
<1>1. LeaseTypeOK /\ LeaseInv => LeaseIsTrue
  <2> SUFFICES ASSUME LeaseTypeOK, LeaseInv PROVE PassIsNotStale
    BY DEF LeaseIsTrue, LeaseInv
  <2> QED BY DEF LeaseInv, ProofIsFresh, AllowedOnFact, PassIsNotStale
<1> QED BY <1>1, LeaseInvariant, PTL

\* A lease that is over, or whose credential is, never verifies again.
THEOREM OverIsForGoodHolds == LeaseSpec => OverIsForGood
<1>1. ASSUME LeaseTypeOK, [LeaseNext]_leaseVars, NEW l \in LeaseIds,
             lease[l].state \in {"revoked", "expired"} \/ grantor = "dead"
      PROVE  ~Verifies(l)'
  <2> USE DEF LeaseTypeOK, Verifies
  <2>1. ASSUME NEW k \in LeaseIds, IssueLease(k) \/ Heartbeat(k) \/ RevokeLease(k) PROVE ~Verifies(l)'
    BY <1>1, <2>1 DEF IssueLease, Heartbeat, Revives, RevokeLease
  <2>2. ASSUME NEW k \in LeaseIds, LeaseTime(k) PROVE ~Verifies(l)'
    <3>1. \/ lease' = [lease EXCEPT ![k].state = "expired"]
          \/ lease' = [lease EXCEPT ![k].fresh = FALSE]
      BY <2>2 DEF LeaseTime
    <3>2. lease[k].state = "open" /\ UNCHANGED grantor
      BY <2>2 DEF LeaseTime
    <3> QED BY <1>1, <3>1, <3>2
  <2>3. CASE RevokeAll \/ GrantorEnds
    BY <1>1, <2>3 DEF RevokeAll, GrantorEnds
  <2>4. CASE UNCHANGED <<grantor, lease>>
    BY <1>1, <2>4
  <2> QED BY <1>1, <2>1, <2>2, <2>3, <2>4
          DEF LeaseNext, leaseVars, ClockTicks, RecordCheck, VerifyReporter, ReadFacts, Decide, VerifyNode
<1>2. LeaseTypeOK /\ [LeaseNext]_leaseVars =>
        [\A l \in LeaseIds : lease[l].state \in {"revoked", "expired"} \/ grantor = "dead" => ~Verifies(l)']_leaseVars
  BY <1>1
<1> QED BY <1>2, LeaseTypes, PTL DEF LeaseSpec, OverIsForGood

-----------------------------------------------------------------------------
(* Logins. *)

TokenRows == [Grants -> [Pairs -> TokenStates]]
TokenRequests == [pc : {"none", "issue", "lookup", "kill", "over"}, grant : Grants, pair : Pairs]

McpRequests == [pc : {"none", "acting", "over"}, grant : Grants]

\* The types, with a name for each kind of row.
OAuthTyped ==
    /\ credential \in {"live", "dead"} /\ code \in [Grants -> {"none", "open", "used", "expired"}]
    /\ access \in TokenRows /\ refresh \in TokenRows
    /\ tokenCall \in [TokenCalls -> TokenRequests] /\ mcpCall \in [McpCalls -> McpRequests]
    /\ severed \in [Grants -> {"no", "idle", "issuing"}] /\ logouts \in 0..MaxLogouts
    /\ \A g \in Grants, p \in Pairs : access[g][p] = "none" <=> refresh[g][p] = "none"

\* The type invariant, with its record sets named.
LEMMA OAuthTyping == (OAuthTypeOK <=> OAuthTyped) /\ (OAuthTypeOK' <=> OAuthTyped')
BY DEF OAuthTypeOK, OAuthTyped, TokenRows, TokenRequests, McpRequests

\* A request to /token moved on keeps the type.
LEMMA CallTyping ==
    ASSUME OAuthTypeOK, NEW c \in TokenCalls
    PROVE  /\ tokenCall \in [TokenCalls -> TokenRequests]
           /\ CallEnds(c) => tokenCall' \in [TokenCalls -> TokenRequests]
           /\ \A pc \in {"issue", "lookup", "kill", "over"}, g \in Grants, p \in Pairs :
                 At(c, pc, g, p) => tokenCall' \in [TokenCalls -> TokenRequests]
           /\ \A pc \in {"issue", "lookup", "kill", "over"} :
                 tokenCall' = [tokenCall EXCEPT ![c].pc = pc] => tokenCall' \in [TokenCalls -> TokenRequests]
<1>1. tokenCall \in [TokenCalls -> TokenRequests]
  BY DEF OAuthTypeOK, TokenRequests
<1>2. \A pc \in {"issue", "lookup", "kill", "over"}, g \in Grants, p \in Pairs :
        [pc |-> pc, grant |-> g, pair |-> p] \in TokenRequests /\ [tokenCall[c] EXCEPT !.pc = pc] \in TokenRequests
  BY <1>1 DEF TokenRequests
<1>3. \A pc \in {"issue", "lookup", "kill", "over"} : [tokenCall[c] EXCEPT !.pc = pc] \in TokenRequests
  BY <1>1 DEF TokenRequests
<1> QED BY <1>1, <1>2, <1>3 DEF CallEnds, At

\* Some grant and some pair are ones.
LEMMA SomeAreSome == SomeGrant \in Grants /\ SomePair \in Pairs
BY LogoutsAssumption DEF SomeGrant, SomePair

\* What a revocation leaves in a family's rows.
LEMMA RevokedRows ==
    ASSUME NEW rec \in [Pairs -> TokenStates], NEW kind
    PROVE  /\ RowsRevoked(rec, kind) \in [Pairs -> TokenStates]
           /\ \A p \in Pairs : /\ RowsRevoked(rec, kind)[p] \in {"none", "revoked"}
                               /\ RowsRevoked(rec, kind)[p] = "none" <=> rec[p] = "none"
BY DEF RowsRevoked, TokenStates

\* A revocation changes one family, where it leaves nothing live and no row more.
LEMMA FamilyRevokedStep ==
    ASSUME OAuthTypeOK, NEW g \in Grants, FamilyRevoked(g)
    PROVE  /\ access' \in TokenRows /\ refresh' \in TokenRows /\ severed' \in [Grants -> {"no", "idle", "issuing"}]
           /\ \A p \in Pairs : /\ access'[g][p] \in {"none", "revoked"} /\ refresh'[g][p] \in {"none", "revoked"}
                               /\ access'[g][p] = "none" <=> access[g][p] = "none"
                               /\ refresh'[g][p] = "none" <=> refresh[g][p] = "none"
           /\ severed'[g] = "idle" => Issuing(g) = {}
           /\ \A h \in Grants \ {g} : access'[h] = access[h] /\ refresh'[h] = refresh[h] /\ severed'[h] = severed[h]
<1>1. access[g] \in [Pairs -> TokenStates] /\ refresh[g] \in [Pairs -> TokenStates]
  BY DEF OAuthTypeOK
<1>2. access' = [access EXCEPT ![g] = RowsRevoked(access[g], "access")]
      /\ refresh' = [refresh EXCEPT ![g] = RowsRevoked(refresh[g], "refresh")]
  BY DEF FamilyRevoked
<1>3. PICK to \in {"idle", "issuing"} :
        severed' = [severed EXCEPT ![g] = to] /\ (to = "idle" => Issuing(g) = {})
  BY DEF FamilyRevoked
<1>4. access \in TokenRows /\ refresh \in TokenRows /\ severed \in [Grants -> {"no", "idle", "issuing"}]
  BY DEF OAuthTypeOK, TokenRows
<1>5. access'[g] = RowsRevoked(access[g], "access") /\ refresh'[g] = RowsRevoked(refresh[g], "refresh")
      /\ severed'[g] = to
  BY <1>2, <1>3, <1>4 DEF TokenRows
<1>6. access' \in TokenRows /\ refresh' \in TokenRows /\ severed' \in [Grants -> {"no", "idle", "issuing"}]
  BY <1>1, <1>2, <1>3, <1>4, RevokedRows DEF TokenRows
<1> QED BY <1>1, <1>2, <1>3, <1>4, <1>5, <1>6, RevokedRows

\* Every step of the login keeps every variable's type.
LEMMA OAuthTypeStep == OAuthTypeOK /\ [OAuthNext]_oauthVars => OAuthTypeOK'
<1> SUFFICES ASSUME OAuthTypeOK, OAuthTyped, [OAuthNext]_oauthVars PROVE OAuthTyped'
  BY OAuthTyping
<1> USE DEF OAuthTyped
<1>1. ASSUME NEW g \in Grants, Consent(g) \/ CodeExpires(g) PROVE OAuthTyped'
  BY <1>1 DEF Consent, CodeExpires
<1>2. ASSUME NEW c \in TokenCalls, NEW g \in Grants, ExchangeCode(c, g) PROVE OAuthTyped'
  <2>1. tokenCall' \in [TokenCalls -> TokenRequests]
    BY <1>2, CallTyping, SomeAreSome DEF ExchangeCode
  <2> QED BY <1>2, <2>1 DEF ExchangeCode
<1>3. ASSUME NEW c \in TokenCalls, IssueTokens(c) PROVE OAuthTyped'
  <2> DEFINE g == tokenCall[c].grant
  <2>1. tokenCall' \in [TokenCalls -> TokenRequests] /\ g \in Grants
    BY <1>3, CallTyping DEF IssueTokens, TokenRequests
  <2>2. PICK p \in Pairs : access' = [access EXCEPT ![g][p] = "live"] /\ refresh' = [refresh EXCEPT ![g][p] = "live"]
    BY <1>3 DEF IssueTokens
  <2>3. access' \in TokenRows /\ refresh' \in TokenRows
        /\ \A h \in Grants, q \in Pairs : access'[h][q] = "none" <=> refresh'[h][q] = "none"
    <3>1. access' \in TokenRows /\ refresh' \in TokenRows
      BY <2>1, <2>2 DEF TokenRows, TokenStates
    <3>2. \A h \in Grants, q \in Pairs :
            /\ access'[h][q] = IF h = g /\ q = p THEN "live" ELSE access[h][q]
            /\ refresh'[h][q] = IF h = g /\ q = p THEN "live" ELSE refresh[h][q]
      BY <2>1, <2>2 DEF TokenRows, TokenStates
    <3> QED BY <3>1, <3>2
  <2> QED BY <1>3, <2>1, <2>3 DEF IssueTokens
<1>4. ASSUME NEW c \in TokenCalls, NEW g \in Grants, NEW p \in Pairs, RotateRefresh(c, g, p) PROVE OAuthTyped'
  <2>1. tokenCall' \in [TokenCalls -> TokenRequests]
    BY <1>4, CallTyping DEF RotateRefresh
  <2>2. refresh' \in TokenRows /\ \A h \in Grants, q \in Pairs : access[h][q] = "none" <=> refresh'[h][q] = "none"
    <3>1. CASE UNCHANGED refresh
      BY <3>1
    <3>2. CASE refresh[g][p] = "live" /\ refresh' = [refresh EXCEPT ![g][p] = "revoked"]
      <4>1. refresh' \in TokenRows
        BY <3>2 DEF TokenRows, TokenStates
      <4>2. \A h \in Grants, q \in Pairs : refresh'[h][q] = IF h = g /\ q = p THEN "revoked" ELSE refresh[h][q]
        BY <3>2 DEF TokenRows, TokenStates
      <4> QED BY <3>2, <4>1, <4>2
    <3> QED BY <1>4, <3>1, <3>2 DEF RotateRefresh
  <2> QED BY <1>4, <2>1, <2>2 DEF RotateRefresh
<1>5. ASSUME NEW c \in TokenCalls, LookReused(c) \/ CallDies(c) PROVE OAuthTyped'
  <2>1. tokenCall' \in [TokenCalls -> TokenRequests]
    BY <1>5, CallTyping DEF LookReused, CallDies
  <2> QED BY <1>5, <2>1 DEF LookReused, CallDies
<1>6. ASSUME NEW c \in TokenCalls, KillFamily(c) PROVE OAuthTyped'
  <2>1. tokenCall' \in [TokenCalls -> TokenRequests] /\ tokenCall[c].grant \in Grants
    BY <1>6, CallTyping DEF KillFamily, TokenRequests
  <2>2. FamilyRevoked(tokenCall[c].grant) /\ UNCHANGED <<credential, code, mcpCall, logouts>>
    BY <1>6 DEF KillFamily
  <2> QED BY <2>1, <2>2, FamilyRevokedStep
<1>7. ASSUME NEW g \in Grants, RevokeToken(g) PROVE OAuthTyped'
  <2>1. logouts' \in 0..MaxLogouts
    BY <1>7, LogoutsAssumption DEF RevokeToken
  <2>2. FamilyRevoked(g) /\ UNCHANGED <<credential, code, tokenCall, mcpCall>>
    BY <1>7 DEF RevokeToken
  <2> QED BY <2>1, <2>2, FamilyRevokedStep
<1>8. CASE CredentialEnds
  BY <1>8, LogoutsAssumption DEF CredentialEnds
<1>9. ASSUME NEW g \in Grants, NEW p \in Pairs, TokenExpires(g, p) PROVE OAuthTyped'
  <2>1. access' \in TokenRows /\ refresh' \in TokenRows
        /\ \A h \in Grants, q \in Pairs : access'[h][q] = "none" <=> refresh'[h][q] = "none"
    <3>1. CASE access[g][p] = "live" /\ access' = [access EXCEPT ![g][p] = "expired"] /\ UNCHANGED refresh
      <4>1. access' \in TokenRows
        BY <3>1 DEF TokenRows, TokenStates
      <4>2. \A h \in Grants, q \in Pairs : access'[h][q] = IF h = g /\ q = p THEN "expired" ELSE access[h][q]
        BY <3>1 DEF TokenRows, TokenStates
      <4> QED BY <3>1, <4>1, <4>2
    <3>2. CASE refresh[g][p] = "live" /\ refresh' = [refresh EXCEPT ![g][p] = "expired"] /\ UNCHANGED access
      <4>1. refresh' \in TokenRows
        BY <3>2 DEF TokenRows, TokenStates
      <4>2. \A h \in Grants, q \in Pairs : refresh'[h][q] = IF h = g /\ q = p THEN "expired" ELSE refresh[h][q]
        BY <3>2 DEF TokenRows, TokenStates
      <4> QED BY <3>2, <4>1, <4>2
    <3> QED BY <1>9, <3>1, <3>2 DEF TokenExpires
  <2> QED BY <1>9, <2>1 DEF TokenExpires
<1>10. ASSUME NEW m \in McpCalls, McpAct(m) PROVE OAuthTyped'
  <2>1. [mcpCall[m] EXCEPT !.pc = "over"] \in McpRequests
    BY DEF McpRequests
  <2> QED BY <1>10, <2>1 DEF McpAct
<1>11. ASSUME NEW m \in McpCalls, NEW g \in Grants, NEW p \in Pairs, McpVerify(m, g, p) PROVE OAuthTyped'
  <2>1. PICK pc \in {"acting", "over"} : mcpCall' = [mcpCall EXCEPT ![m] = [pc |-> pc, grant |-> g]]
    BY <1>11 DEF McpVerify
  <2>2. [pc |-> pc, grant |-> g] \in McpRequests
    BY DEF McpRequests
  <2> QED BY <1>11, <2>1, <2>2 DEF McpVerify
<1>12. CASE UNCHANGED oauthVars
  BY <1>12 DEF oauthVars
<1> QED BY <1>1, <1>2, <1>3, <1>4, <1>5, <1>6, <1>7, <1>8, <1>9, <1>10, <1>11, <1>12 DEF OAuthNext

\* Every variable of the login keeps its type.
LEMMA OAuthTypes == OAuthSpec => []OAuthTypeOK
<1>1. OAuthInit => OAuthTypeOK
  BY SomeAreSome, LogoutsAssumption DEF OAuthInit, OAuthTypeOK, Unissued, TokenStates
<1> QED BY <1>1, OAuthTypeStep, PTL DEF OAuthSpec

\* Before its code is used a family has nothing: no token, no exchange, no request that knows one.
BeforeCode == \A g \in Grants : code[g] # "used" =>
    /\ Issuing(g) = {} /\ severed[g] = "no"
    /\ \A p \in Pairs : refresh[g][p] = "none"

\* A request that looks a token up, or is about to end its family, was shown one.
ShownIsIssued == \A c \in TokenCalls : tokenCall[c].pc \in {"lookup", "kill"} =>
    refresh[tokenCall[c].grant][tokenCall[c].pair] # "none"

ChainInv == BeforeCode /\ ShownIsIssued /\ OneLiveRefresh /\ SeveredIsSevered

\* A request that is not about to insert a pair is in no grant's Issuing.
LEMMA IssuingAfter ==
    ASSUME OAuthTyped, NEW c \in TokenCalls,
           \A d \in TokenCalls \ {c} : tokenCall'[d] = tokenCall[d]
    PROVE  \A g \in Grants :
             /\ tokenCall'[c].pc # "issue" => Issuing(g)' = Issuing(g) \ {c}
             /\ tokenCall'[c].pc = "issue" /\ tokenCall'[c].grant # g => Issuing(g)' = Issuing(g) \ {c}
             /\ tokenCall'[c].pc = "issue" /\ tokenCall'[c].grant = g => Issuing(g)' = Issuing(g) \cup {c}
BY DEF Issuing

\* Where one request moved on, the others are where they were.
LEMMA CallMoves ==
    ASSUME OAuthTyped, NEW c \in TokenCalls
    PROVE  /\ CallEnds(c) => tokenCall'[c].pc = "over" /\ \A d \in TokenCalls \ {c} : tokenCall'[d] = tokenCall[d]
           /\ \A pc, g, p : At(c, pc, g, p) =>
                 tokenCall'[c] = [pc |-> pc, grant |-> g, pair |-> p]
                 /\ \A d \in TokenCalls \ {c} : tokenCall'[d] = tokenCall[d]
BY DEF OAuthTyped, TokenRequests, CallEnds, At

\* A revocation leaves a family with nothing live, and, if no pair was on its way, severed.
LEMMA RevocationStep ==
    ASSUME OAuthTyped, OAuthTypeOK, ChainInv, NEW g \in Grants, FamilyRevoked(g), UNCHANGED code, code[g] = "used",
           \A h \in Grants : Issuing(h)' = Issuing(h),
           \A c \in TokenCalls : tokenCall'[c].pc = "over" \/ tokenCall'[c] = tokenCall[c]
    PROVE  ChainInv'
<1> USE DEF ChainInv, BeforeCode, ShownIsIssued, OneLiveRefresh, SeveredIsSevered
<1>1. /\ \A p \in Pairs : access'[g][p] \in {"none", "revoked"} /\ refresh'[g][p] \in {"none", "revoked"}
      /\ \A p \in Pairs : refresh'[g][p] = "none" <=> refresh[g][p] = "none"
      /\ severed'[g] = "idle" => Issuing(g) = {}
      /\ \A h \in Grants \ {g} : access'[h] = access[h] /\ refresh'[h] = refresh[h] /\ severed'[h] = severed[h]
  BY FamilyRevokedStep
<1>2. ASSUME NEW h \in Grants, code'[h] # "used"
      PROVE  Issuing(h)' = {} /\ severed'[h] = "no" /\ \A p \in Pairs : refresh'[h][p] = "none"
  BY <1>1, <1>2
<1>3. ASSUME NEW h \in Grants, severed'[h] = "idle"
      PROVE  Issuing(h)' = {} /\ \A p \in Pairs : access'[h][p] # "live" /\ refresh'[h][p] # "live"
  <2>1. CASE h = g
    <3>1. Issuing(g)' = Issuing(g) /\ Issuing(g) = {}
      BY <1>1, <1>3, <2>1
    <3>2. \A p \in Pairs : access'[g][p] # "live" /\ refresh'[g][p] # "live"
      BY <1>1
    <3> QED BY <2>1, <3>1, <3>2 DEF Issuing
  <2>2. CASE h # g
    <3>1. severed[h] = "idle" /\ access'[h] = access[h] /\ refresh'[h] = refresh[h]
      BY <1>1, <1>3, <2>2
    <3>2. Issuing(h) = {} /\ \A p \in Pairs : access[h][p] # "live" /\ refresh[h][p] # "live"
      BY <3>1
    <3> QED BY <3>1, <3>2
  <2> QED BY <2>1, <2>2
<1>4. ASSUME NEW h \in Grants
      PROVE  /\ \A p, q \in Pairs : refresh'[h][p] = "live" /\ refresh'[h][q] = "live" => p = q
             /\ \A c, d \in Issuing(h)' : c = d
             /\ Issuing(h)' # {} => \A p \in Pairs : refresh'[h][p] # "live"
  <2>1. \A c, d \in Issuing(h)' : c = d
    <3>1. Issuing(h)' = Issuing(h)
      OBVIOUS
    <3> QED BY <3>1
  <2>2. CASE h = g
    <3>1. \A p \in Pairs : refresh'[g][p] # "live"
      BY <1>1
    <3> QED BY <2>1, <2>2, <3>1
  <2>3. CASE h # g
    BY <1>1, <2>1, <2>3
  <2> QED BY <2>2, <2>3
<1>5. ASSUME NEW c \in TokenCalls, tokenCall'[c].pc \in {"lookup", "kill"}
      PROVE  refresh'[tokenCall'[c].grant][tokenCall'[c].pair] # "none"
  <2>1. /\ tokenCall[c] \in TokenRequests /\ tokenCall'[c] = tokenCall[c]
        /\ refresh[tokenCall[c].grant][tokenCall[c].pair] # "none"
    BY <1>5 DEF OAuthTyped
  <2>2. tokenCall[c].grant \in Grants /\ tokenCall[c].pair \in Pairs
    BY <2>1 DEF TokenRequests
  <2>3. \A h \in Grants, p \in Pairs : refresh'[h][p] = "none" <=> refresh[h][p] = "none"
    BY <1>1
  <2> QED BY <2>1, <2>2, <2>3
<1> QED BY <1>2, <1>3, <1>4, <1>5

\* One statement of an exchange or of a revocation at a time, a family stays one chain.
LEMMA ChainStep == OAuthTypeOK /\ ChainInv /\ [OAuthNext]_oauthVars => ChainInv'
<1> SUFFICES ASSUME OAuthTyped, OAuthTyped', OAuthTypeOK, ChainInv, [OAuthNext]_oauthVars PROVE ChainInv'
  BY OAuthTyping, OAuthTypeStep
<1> USE DEF ChainInv, BeforeCode, ShownIsIssued, OneLiveRefresh, SeveredIsSevered
<1>1. ASSUME NEW g \in Grants, Consent(g) \/ CodeExpires(g) PROVE ChainInv'
  BY <1>1 DEF Consent, CodeExpires, OAuthTyped, Issuing
<1>2. ASSUME NEW c \in TokenCalls, NEW g \in Grants, ExchangeCode(c, g) PROVE ChainInv'
  <2>1. UNCHANGED <<access, refresh, severed>> /\ \A d \in TokenCalls \ {c} : tokenCall'[d] = tokenCall[d]
    BY <1>2, CallMoves DEF ExchangeCode
  <2>2. CASE Accepted(g)
    <3>1. \/ tokenCall'[c].pc = "issue" /\ tokenCall'[c].grant = g
          \/ tokenCall'[c].pc = "over"
      <4>1. At(c, "issue", g, SomePair) \/ At(c, "over", g, SomePair)
        BY <1>2, <2>2 DEF ExchangeCode, Accepted
      <4> QED BY <4>1 DEF OAuthTyped, At
    <3>2. code' = [code EXCEPT ![g] = "used"] /\ code[g] = "open" /\ tokenCall[c].pc = "none"
      BY <1>2, <2>2 DEF ExchangeCode, Accepted
    <3>3. Issuing(g) = {} /\ severed[g] = "no" /\ \A p \in Pairs : refresh[g][p] = "none"
      BY <3>2
    <3>4. \A h \in Grants : Issuing(h)' = Issuing(h) \/ (h = g /\ Issuing(h)' = {c})
      BY <2>1, <3>1, <3>2, <3>3, IssuingAfter DEF Issuing
    <3> QED BY <2>1, <3>1, <3>2, <3>3, <3>4 DEF OAuthTyped
  <2>3. CASE ~Accepted(g)
    <3>1. tokenCall'[c].pc = "over" /\ UNCHANGED code
      <4>1. At(c, "over", g, SomePair) /\ UNCHANGED code
        BY <1>2, <2>3 DEF ExchangeCode, Accepted
      <4> QED BY <4>1 DEF OAuthTyped, At
    <3>2. tokenCall[c].pc = "none"
      BY <1>2 DEF ExchangeCode
    <3>3. \A h \in Grants : Issuing(h)' = Issuing(h)
      BY <2>1, <3>1, <3>2, IssuingAfter DEF Issuing
    <3> QED BY <2>1, <3>1, <3>3
  <2> QED BY <2>2, <2>3
<1>3. ASSUME NEW c \in TokenCalls, IssueTokens(c) PROVE ChainInv'
  <2> DEFINE g == tokenCall[c].grant
  <2>1. g \in Grants /\ c \in Issuing(g)
    BY <1>3 DEF IssueTokens, OAuthTyped, TokenRequests, Issuing
  <2>2. /\ UNCHANGED <<code, severed>> /\ tokenCall'[c].pc = "over"
        /\ \A d \in TokenCalls \ {c} : tokenCall'[d] = tokenCall[d]
    BY <1>3, CallMoves DEF IssueTokens
  <2>3. code[g] = "used" /\ severed[g] # "idle" /\ \A p \in Pairs : refresh[g][p] # "live"
    BY <2>1
  <2>4. PICK p \in Pairs : /\ refresh[g][p] = "none"
                            /\ access' = [access EXCEPT ![g][p] = "live"] /\ refresh' = [refresh EXCEPT ![g][p] = "live"]
    BY <1>3 DEF IssueTokens
  <2>5. \A h \in Grants, q \in Pairs :
          /\ refresh'[h][q] = IF h = g /\ q = p THEN "live" ELSE refresh[h][q]
          /\ access'[h][q] = IF h = g /\ q = p THEN "live" ELSE access[h][q]
    BY <2>1, <2>4 DEF OAuthTyped, TokenRows, TokenStates
  <2>6. Issuing(g) = {c}
    BY <2>1
  <2>7. \A h \in Grants : Issuing(h)' = Issuing(h) \ {c}
    BY <2>2, IssuingAfter
  <2>8. BeforeCode' /\ SeveredIsSevered'
    BY <2>2, <2>3, <2>5, <2>7
  <2>9. ShownIsIssued'
    BY <2>2, <2>5 DEF OAuthTyped, TokenRequests
  <2>10. OneLiveRefresh'
    BY <2>1, <2>3, <2>5, <2>6, <2>7
  <2> QED BY <2>8, <2>9, <2>10
<1>4. ASSUME NEW c \in TokenCalls, NEW g \in Grants, NEW p \in Pairs, RotateRefresh(c, g, p) PROVE ChainInv'
  <2>1. UNCHANGED <<access, code, severed>> /\ tokenCall[c].pc = "none" /\ refresh[g][p] # "none"
        /\ \A d \in TokenCalls \ {c} : tokenCall'[d] = tokenCall[d]
    BY <1>4, CallMoves DEF RotateRefresh
  <2>2. CASE refresh[g][p] = "live" /\ refresh' = [refresh EXCEPT ![g][p] = "revoked"] /\ At(c, "issue", g, p)
    <3>1. tokenCall'[c] = [pc |-> "issue", grant |-> g, pair |-> p]
      BY <2>2, CallMoves
    <3>2. \A h \in Grants, q \in Pairs : refresh'[h][q] = IF h = g /\ q = p THEN "revoked" ELSE refresh[h][q]
      BY <2>2 DEF OAuthTyped, TokenRows, TokenStates
    <3>3. Issuing(g) = {} /\ severed[g] # "idle" /\ code[g] = "used"
      BY <2>2, <2>1
    <3>4. Issuing(g)' = {c} /\ \A h \in Grants : h # g => Issuing(h)' = Issuing(h)
      BY <2>1, <3>1, <3>3, IssuingAfter DEF Issuing
    <3>5. ShownIsIssued'
      BY <2>1, <3>1, <3>2 DEF OAuthTyped, TokenRequests
    <3>6. BeforeCode' /\ SeveredIsSevered'
      BY <2>1, <3>2, <3>3, <3>4
    <3>7. OneLiveRefresh'
      BY <2>1, <2>2, <3>2, <3>3, <3>4
    <3> QED BY <3>5, <3>6, <3>7
  <2>3. CASE At(c, "lookup", g, p) /\ UNCHANGED refresh
    <3>1. tokenCall'[c] = [pc |-> "lookup", grant |-> g, pair |-> p]
      BY <2>3, CallMoves
    <3>2. \A h \in Grants : Issuing(h)' = Issuing(h)
      BY <2>1, <3>1, IssuingAfter DEF Issuing
    <3> QED BY <2>1, <2>3, <3>1, <3>2
  <2> QED BY <1>4, <2>2, <2>3 DEF RotateRefresh
<1>5. ASSUME NEW c \in TokenCalls, LookReused(c) \/ CallDies(c) PROVE ChainInv'
  <2>1. UNCHANGED <<access, refresh, code, severed>>
    BY <1>5 DEF LookReused, CallDies
  <2>2. /\ \A d \in TokenCalls \ {c} : tokenCall'[d] = tokenCall[d]
        /\ \/ tokenCall'[c].pc = "over"
           \/ tokenCall'[c] = [tokenCall[c] EXCEPT !.pc = "kill"] /\ tokenCall[c].pc = "lookup"
        /\ tokenCall'[c].pc \in {"over", "kill"}
    <3>1. CASE CallEnds(c)
      BY <3>1, CallMoves
    <3>2. CASE tokenCall[c].pc = "lookup" /\ tokenCall' = [tokenCall EXCEPT ![c].pc = "kill"]
      BY <3>2 DEF OAuthTyped, TokenRequests
    <3> QED BY <1>5, <3>1, <3>2 DEF LookReused, CallDies
  <2>3. \A h \in Grants : Issuing(h)' = Issuing(h) \ {c}
    <3>1. (\A d \in TokenCalls \ {c} : tokenCall'[d] = tokenCall[d]) /\ tokenCall'[c].pc # "issue"
      BY <2>2
    <3> QED BY <3>1, IssuingAfter
  <2>4. ShownIsIssued'
    <3>1. tokenCall[c] \in TokenRequests
      BY DEF OAuthTyped
    <3>2. tokenCall'[c].pc \in {"lookup", "kill"} =>
            /\ tokenCall[c].pc = "lookup"
            /\ tokenCall'[c].grant = tokenCall[c].grant /\ tokenCall'[c].pair = tokenCall[c].pair
      BY <2>2, <3>1 DEF TokenRequests
    <3> QED BY <2>1, <2>2, <3>2
  <2> QED BY <2>1, <2>3, <2>4
<1>6. ASSUME NEW c \in TokenCalls, KillFamily(c) PROVE ChainInv'
  <2> DEFINE g == tokenCall[c].grant
  <2>1. /\ g \in Grants /\ FamilyRevoked(g) /\ UNCHANGED code /\ tokenCall'[c].pc = "over"
        /\ \A d \in TokenCalls \ {c} : tokenCall'[d] = tokenCall[d]
    BY <1>6, CallMoves DEF KillFamily, OAuthTyped, TokenRequests
  <2>2. code[g] = "used"
    BY <1>6, <2>1 DEF KillFamily, OAuthTyped, TokenRequests
  <2>3. \A h \in Grants : Issuing(h)' = Issuing(h)
    BY <1>6, <2>1, IssuingAfter DEF KillFamily, Issuing
  <2> QED BY <2>1, <2>2, <2>3, RevocationStep
<1>7. ASSUME NEW g \in Grants, RevokeToken(g) PROVE ChainInv'
  <2>1. FamilyRevoked(g) /\ UNCHANGED <<code, tokenCall>> /\ code[g] = "used"
    BY <1>7 DEF RevokeToken
  <2>2. \A h \in Grants : Issuing(h)' = Issuing(h)
    BY <2>1 DEF Issuing
  <2> QED BY <2>1, <2>2, RevocationStep
<1>8. ASSUME NEW g \in Grants, NEW p \in Pairs, TokenExpires(g, p) PROVE ChainInv'
  <2>1. UNCHANGED <<code, severed, tokenCall>> /\ \A h \in Grants : Issuing(h)' = Issuing(h)
    BY <1>8 DEF TokenExpires, Issuing
  <2>2. \A h \in Grants, q \in Pairs :
          /\ refresh'[h][q] = "live" => refresh[h][q] = "live"
          /\ access'[h][q] = "live" => access[h][q] = "live"
          /\ refresh'[h][q] = "none" <=> refresh[h][q] = "none"
    <3>1. CASE access[g][p] = "live" /\ access' = [access EXCEPT ![g][p] = "expired"] /\ UNCHANGED refresh
      BY <3>1 DEF OAuthTyped, TokenRows, TokenStates
    <3>2. CASE refresh[g][p] = "live" /\ refresh' = [refresh EXCEPT ![g][p] = "expired"] /\ UNCHANGED access
      BY <3>2 DEF OAuthTyped, TokenRows, TokenStates
    <3> QED BY <1>8, <3>1, <3>2 DEF TokenExpires
  <2>3. ShownIsIssued'
    BY <2>1, <2>2 DEF OAuthTyped, TokenRequests
  <2> QED BY <2>1, <2>2, <2>3
<1>9. CASE UNCHANGED <<code, access, refresh, tokenCall, severed>>
  BY <1>9 DEF Issuing
<1> QED BY <1>1, <1>2, <1>3, <1>4, <1>5, <1>6, <1>7, <1>8, <1>9
        DEF OAuthNext, oauthVars, CredentialEnds, McpAct, McpVerify

\* The invariant holds from the first state on.
LEMMA ChainInvariant == OAuthSpec => [](OAuthTypeOK /\ ChainInv)
<1>1. OAuthInit => ChainInv
  BY SomeAreSome DEF OAuthInit, ChainInv, BeforeCode, ShownIsIssued, OneLiveRefresh, SeveredIsSevered, Issuing, Unissued
<1> QED BY <1>1, ChainStep, OAuthTypes, PTL DEF OAuthSpec

\* However many requests exchange, replay and revoke at once, a family never has two live refresh
\* tokens or two on their way, and one that is cut while no pair is on its way stays cut.
THEOREM GrantIsOneChainHolds == OAuthSpec => []GrantIsOneChain
<1>1. ChainInv => GrantIsOneChain
  BY DEF ChainInv, GrantIsOneChain
<1> QED BY <1>1, ChainInvariant, PTL

\* A call to /mcp starts to act only under a live credential and in a family that is not severed.
THEOREM AccessEndsHolds == OAuthSpec => AccessEnds
<1>1. ASSUME OAuthTypeOK, ChainInv, [OAuthNext]_oauthVars, NEW m \in McpCalls,
             mcpCall[m].pc # "acting", mcpCall'[m].pc = "acting"
      PROVE  credential = "live" /\ severed[mcpCall'[m].grant] # "idle"
  <2> USE OAuthTyping DEF OAuthTyped
  <2>1. mcpCall' # mcpCall
    BY <1>1
  <2>2. ASSUME NEW n \in McpCalls, McpAct(n) PROVE FALSE
    BY <1>1, <2>2 DEF McpAct, McpRequests
  <2>3. ASSUME NEW n \in McpCalls, NEW g \in Grants, NEW p \in Pairs, McpVerify(n, g, p)
        PROVE  credential = "live" /\ severed[mcpCall'[m].grant] # "idle"
    <3>1. n = m /\ mcpCall'[m].grant = g /\ Authenticates(g, p)
      BY <1>1, <2>3 DEF McpVerify
    <3> QED BY <1>1, <3>1 DEF Authenticates, ChainInv, SeveredIsSevered
  <2> QED BY <1>1, <2>1, <2>2, <2>3
          DEF OAuthNext, oauthVars, Consent, CodeExpires, RevokeToken, TokenExpires, IssueTokens, LookReused,
              KillFamily, CallDies, ExchangeCode, RotateRefresh, CredentialEnds
<1>2. OAuthTypeOK /\ ChainInv /\ [OAuthNext]_oauthVars =>
        [\A m \in McpCalls : mcpCall[m].pc # "acting" /\ mcpCall'[m].pc = "acting" =>
            credential = "live" /\ severed[mcpCall'[m].grant] # "idle"]_oauthVars
  BY <1>1
<1> QED BY <1>2, ChainInvariant, PTL DEF OAuthSpec, AccessEnds

-----------------------------------------------------------------------------
(* Seats. *)

\* Every step of a mint, a redemption or an admit keeps every variable's type.
LEMMA SeatTypeStep == SeatTypeOK /\ [SeatNext]_seatVars => SeatTypeOK'
<1> SUFFICES ASSUME SeatTypeOK, [SeatNext]_seatVars PROVE SeatTypeOK'
  OBVIOUS
<1> USE DEF SeatTypeOK, InTransaction
<1>1. ASSUME NEW m \in Mints, CheckSpent(m) PROVE SeatTypeOK'
  BY <1>1 DEF CheckSpent, roomVars
<1>2. ASSUME NEW m \in Mints, InsertCode(m) PROVE SeatTypeOK'
  BY <1>2 DEF InsertCode, roomVars
<1>3. ASSUME NEW m \in Mints, Lapse(m) PROVE SeatTypeOK'
  BY <1>3 DEF Lapse, roomVars
<1>4. ASSUME NEW r \in Redeems, Claim(r) PROVE SeatTypeOK'
  BY <1>4 DEF Claim, roomVars
<1>5. ASSUME NEW r \in Redeems, TakeSeat(r) \/ IssueSeatCredential(r) PROVE SeatTypeOK'
  BY <1>5 DEF TakeSeat, IssueSeatCredential, IssuedBefore, roomVars
<1>6. ASSUME NEW r \in Redeems, CommitRedemption(r) PROVE SeatTypeOK'
  <2>1. CodeOf[r] \in Mints /\ <<SeatFor(r), r>> \in Seat \X Redeems
    BY SeatAssumption DEF SeatFor
  <2>2. raced' \subseteq Mints
    BY <1>6 DEF CommitRedemption, CodesOf
  <2> QED BY <1>6, <2>1, <2>2 DEF CommitRedemption, roomVars
<1>7. ASSUME NEW r \in Redeems, RollBack(r) PROVE SeatTypeOK'
  BY <1>7, SeatAssumption DEF RollBack, roomVars
<1>8. ASSUME NEW h \in Posts, CreateRoom(h) PROVE SeatTypeOK'
  BY <1>8 DEF CreateRoom, OwnerAfter, People, codeVars
<1>9. ASSUME NEW h \in Posts, NEW g \in People, StartAdmit(h, g) \/ AdmitMember(h, g) PROVE SeatTypeOK'
  BY <1>9 DEF StartAdmit, AdmitMember, People, codeVars
<1>10. CASE UNCHANGED seatVars
  BY <1>10 DEF seatVars
<1> QED BY <1>1, <1>2, <1>3, <1>4, <1>5, <1>6, <1>7, <1>8, <1>9, <1>10 DEF SeatNext

\* Every variable of the seats keeps its type.
LEMMA SeatTypes == SeatSpec => []SeatTypeOK
<1>1. SeatInit => SeatTypeOK
  BY SeatAssumption DEF SeatInit, SeatTypeOK, InTransaction
<1> QED BY <1>1, SeatTypeStep, PTL DEF SeatSpec

\* The row's lock: one transaction at a time, on a code that is not spent.
Locked ==
    /\ \A q, r \in Redeems : redeeming[q] \in InTransaction /\ redeeming[r] \in InTransaction
          /\ CodeOf[q] = CodeOf[r] => q = r
    /\ \A r \in Redeems : redeeming[r] \in InTransaction => roomCode[CodeOf[r]] \in {"open", "lapsed"}

\* A code has a row from its insert on.
RowSinceInsert == \A m \in Mints : minting[m] # "minted" => roomCode[m] = "none"

\* The index: one unredeemed code for each seat.
OneUnredeemed == \A m, n \in Mints :
    SeatOf[m] = SeatOf[n] /\ roomCode[m] \in {"open", "lapsed"} /\ roomCode[n] \in {"open", "lapsed"} => m = n

\* Once a seat is spent, a mint that still gets to its insert had passed the check before.
LateMintRaced == \A m, n \in Mints :
    SeatOf[m] = SeatOf[n] /\ roomCode[m] = "spent" /\ minting[n] = "insert" => n \in raced

\* Beside a spent code the rows of its seat are those of mints that raced it.
OneUnraced == \A m, n \in Mints :
    /\ SeatOf[m] = SeatOf[n] /\ m \notin raced /\ n \notin raced
    /\ roomCode[m] = "spent" /\ roomCode[n] # "none"
    => m = n

\* Whoever admits owns the room, which has an owner.
OwnersAdmit == \A a \in admitting : a[1] = roomOwner /\ a[1] # "none"

SeatInv ==
    /\ Locked /\ RowSinceInsert /\ OneUnredeemed /\ LateMintRaced /\ OneUnraced
    /\ CodeSeatsOne /\ RedeemedOrNothing /\ OwnersAdmit

\* What only the codes, the redemptions and the race say holds on while they stay.
LEMMA CodesStay ==
    ASSUME SeatInv, UNCHANGED <<roomCode, redeeming, seated, paid, raced>>
    PROVE  Locked' /\ OneUnredeemed' /\ OneUnraced' /\ RedeemedOrNothing'
<1>1. Locked'
  BY DEF SeatInv, Locked
<1>2. OneUnredeemed' /\ OneUnraced'
  BY DEF SeatInv, OneUnredeemed, OneUnraced
<1>3. RedeemedOrNothing'
  BY DEF SeatInv, RedeemedOrNothing, SeatFor
<1> QED BY <1>1, <1>2, <1>3

\* Redemptions stay all or nothing while the same codes are spent.
LEMMA SpentStays ==
    ASSUME SeatTypeOK, RedeemedOrNothing, UNCHANGED <<redeeming, seated, paid>>,
           \A m \in Mints : roomCode'[m] = "spent" <=> roomCode[m] = "spent"
    PROVE  RedeemedOrNothing'
<1>1. \A p \in paid' : redeeming'[p[2]] = "redeemed" /\ roomCode'[CodeOf[p[2]]] = "spent"
  <2> SUFFICES ASSUME NEW p \in paid PROVE redeeming[p[2]] = "redeemed" /\ roomCode'[CodeOf[p[2]]] = "spent"
    OBVIOUS
  <2>1. CodeOf[p[2]] \in Mints
    BY SeatAssumption DEF SeatTypeOK
  <2> QED BY <2>1 DEF RedeemedOrNothing
<1>2. \A r \in Redeems : redeeming'[r] = "redeemed"
         => <<SeatFor(r), r>> \in paid' /\ \E q \in Redeems : <<SeatFor(r), q>> \in seated'
  BY DEF RedeemedOrNothing
<1>3. \A m \in Mints : roomCode'[m] = "spent" =>
         \E r \in Redeems : redeeming'[r] = "redeemed" /\ CodeOf[r] = m
  BY DEF RedeemedOrNothing
<1> QED BY <1>1, <1>2, <1>3 DEF RedeemedOrNothing, SeatFor

\* The steps of minting.
LEMMA MintStep ==
    ASSUME SeatTypeOK, SeatInv, NEW m \in Mints, CheckSpent(m) \/ InsertCode(m) \/ Lapse(m)
    PROVE  SeatInv'
<1> USE SeatAssumption DEF SeatTypeOK
<1>1. UNCHANGED <<redeeming, seated, paid, raced, roomOwner, admitting>>
  BY DEF CheckSpent, InsertCode, Lapse, roomVars
<1>2. CodeSeatsOne' /\ OwnersAdmit'
  BY <1>1 DEF SeatInv, CodeSeatsOne, OwnersAdmit
<1>3. CASE CheckSpent(m)
  <2>1. UNCHANGED roomCode /\ \A n \in Mints : n # m => minting'[n] = minting[n]
    BY <1>3 DEF CheckSpent
  <2>2. minting[m] = "none" /\ minting'[m] \in {"refused", "insert"}
        /\ (minting'[m] = "insert" => \A n \in Mints : SeatOf[n] = SeatOf[m] => roomCode[n] # "spent")
    BY <1>3 DEF CheckSpent, SpentSeat, CodesOf
  <2>3. Locked' /\ OneUnredeemed' /\ OneUnraced' /\ RedeemedOrNothing'
    BY <1>1, <2>1, CodesStay
  <2>4. RowSinceInsert' /\ LateMintRaced'
    BY <1>1, <2>1, <2>2 DEF SeatInv, RowSinceInsert, LateMintRaced
  <2> QED BY <1>2, <2>3, <2>4 DEF SeatInv
<1>4. CASE InsertCode(m)
  <2>1. minting[m] = "insert" /\ roomCode[m] = "none"
    BY <1>4 DEF InsertCode, SeatInv, RowSinceInsert
  <2>2. CASE UNCHANGED roomCode /\ minting' = [minting EXCEPT ![m] = "refused"]
    <3>1. Locked' /\ OneUnredeemed' /\ OneUnraced' /\ RedeemedOrNothing'
      BY <1>1, <2>2, CodesStay
    <3>2. RowSinceInsert' /\ LateMintRaced'
      BY <1>1, <2>1, <2>2 DEF SeatInv, RowSinceInsert, LateMintRaced
    <3> QED BY <1>2, <3>1, <3>2 DEF SeatInv
  <2>3. CASE /\ roomCode' = [roomCode EXCEPT ![m] = "open"] /\ minting' = [minting EXCEPT ![m] = "minted"]
             /\ \A n \in Mints : SeatOf[n] = SeatOf[m] => roomCode[n] \notin {"open", "lapsed"}
    <3>1. OneUnredeemed'
      BY <2>3 DEF SeatInv, OneUnredeemed
    <3>2. RowSinceInsert' /\ LateMintRaced'
      BY <1>1, <2>1, <2>3 DEF SeatInv, RowSinceInsert, LateMintRaced
    <3>3. OneUnraced'
      BY <1>1, <2>1, <2>3 DEF SeatInv, OneUnraced, LateMintRaced
    <3>4. Locked'
      BY <1>1, <2>1, <2>3 DEF SeatInv, Locked
    <3>5. \A n \in Mints : roomCode'[n] = "spent" <=> roomCode[n] = "spent"
      BY <2>1, <2>3
    <3>6. RedeemedOrNothing'
      BY <1>1, <3>5, SpentStays DEF SeatInv
    <3> QED BY <1>2, <3>1, <3>2, <3>3, <3>4, <3>6 DEF SeatInv
  <2> QED BY <1>4, <2>2, <2>3 DEF InsertCode, CodesOf
<1>5. CASE Lapse(m)
  <2>1. roomCode[m] = "open" /\ roomCode' = [roomCode EXCEPT ![m] = "lapsed"] /\ UNCHANGED minting
    BY <1>5 DEF Lapse
  <2>2. Locked' /\ OneUnredeemed' /\ RowSinceInsert'
    BY <1>1, <2>1 DEF SeatInv, Locked, OneUnredeemed, RowSinceInsert
  <2>3. \A n \in Mints : roomCode'[n] = "spent" <=> roomCode[n] = "spent"
    BY <2>1
  <2>4. \A n \in Mints : roomCode'[n] # "none" <=> roomCode[n] # "none"
    BY <2>1
  <2>5. LateMintRaced'
    BY <1>1, <2>1, <2>3 DEF SeatInv, LateMintRaced
  <2>6. OneUnraced'
    BY <1>1, <2>3, <2>4 DEF SeatInv, OneUnraced
  <2>7. RedeemedOrNothing'
    BY <1>1, <2>3, SpentStays DEF SeatInv
  <2> QED BY <1>2, <2>2, <2>5, <2>6, <2>7 DEF SeatInv
<1> QED BY <1>3, <1>4, <1>5

\* The steps of a redemption before its commit, and the rollback.
LEMMA RedeemStep ==
    ASSUME SeatTypeOK, SeatInv, NEW r \in Redeems,
           Claim(r) \/ TakeSeat(r) \/ IssueSeatCredential(r) \/ RollBack(r)
    PROVE  SeatInv'
<1> USE SeatAssumption DEF SeatTypeOK
<1>1. UNCHANGED <<roomCode, minting, seated, paid, raced, roomOwner, admitting>>
  BY DEF Claim, TakeSeat, IssueSeatCredential, IssuedBefore, RollBack, roomVars
<1>2. RowSinceInsert' /\ OneUnredeemed' /\ LateMintRaced' /\ OneUnraced' /\ OwnersAdmit'
  BY <1>1 DEF SeatInv, RowSinceInsert, OneUnredeemed, LateMintRaced, OneUnraced, OwnersAdmit
<1>3. /\ \A q \in Redeems : q # r => redeeming'[q] = redeeming[q]
      /\ redeeming[r] # "redeemed" /\ redeeming'[r] # "redeemed"
  BY DEF Claim, TakeSeat, IssueSeatCredential, RollBack, InTransaction
<1>4. CodeSeatsOne' /\ RedeemedOrNothing'
  <2>1. CodeSeatsOne'
    BY <1>3 DEF SeatInv, CodeSeatsOne
  <2>2. \A q \in Redeems : redeeming'[q] = "redeemed" <=> redeeming[q] = "redeemed"
    BY <1>3
  <2>3. \A p \in paid : redeeming'[p[2]] = "redeemed"
    BY <1>3 DEF SeatInv, RedeemedOrNothing
  <2> QED BY <1>1, <2>1, <2>2, <2>3 DEF SeatInv, RedeemedOrNothing, SeatFor
<1>5. Locked'
  <2>1. CASE Claim(r) /\ redeeming'[r] = "claimed"
    <3>1. roomCode[CodeOf[r]] = "open" /\ \A q \in Redeems : redeeming[q] \in InTransaction => CodeOf[q] # CodeOf[r]
      BY <2>1 DEF Claim, Unlocked
    <3> QED BY <1>1, <1>3, <2>1, <3>1 DEF SeatInv, Locked
  <2>2. CASE redeeming[r] \in InTransaction
    BY <1>1, <1>3, <2>2 DEF SeatInv, Locked
  <2>3. CASE redeeming'[r] \notin InTransaction
    BY <1>1, <1>3, <2>3 DEF SeatInv, Locked
  <2>4. Claim(r) => redeeming'[r] \in {"claimed", "refused"}
    BY DEF Claim
  <2>5. ~Claim(r) => redeeming[r] \in InTransaction
    BY DEF TakeSeat, IssueSeatCredential, RollBack, InTransaction
  <2> QED BY <2>1, <2>2, <2>3, <2>4, <2>5 DEF InTransaction
<1> QED BY <1>2, <1>4, <1>5 DEF SeatInv

\* The commit, which spends the code and gives the seat away.
LEMMA CommitStep ==
    ASSUME SeatTypeOK, SeatInv, NEW r \in Redeems, CommitRedemption(r)
    PROVE  SeatInv'
<1> USE SeatAssumption DEF SeatTypeOK
<1> DEFINE c == CodeOf[r]
<1>1. c \in Mints /\ roomCode[c] \in {"open", "lapsed"} /\ redeeming[r] \in InTransaction
  BY DEF CommitRedemption, SeatInv, Locked, InTransaction
<1>2. /\ roomCode' = [roomCode EXCEPT ![c] = "spent"] /\ redeeming' = [redeeming EXCEPT ![r] = "redeemed"]
      /\ paid' = paid \cup {<<SeatFor(r), r>>} /\ UNCHANGED <<minting, roomOwner, admitting>>
  BY DEF CommitRedemption, roomVars
<1>3. raced \subseteq raced' /\ raced' \subseteq Mints
      /\ \A m \in Mints : SeatOf[m] = SeatOf[c] /\ minting[m] = "insert" => m \in raced'
  BY DEF CommitRedemption, CodesOf, SeatFor
<1>4. Locked'
  <2>1. \A q \in Redeems : redeeming'[q] \in InTransaction => q # r /\ redeeming[q] \in InTransaction
    BY <1>2 DEF InTransaction
  <2>2. \A q \in Redeems : redeeming'[q] \in InTransaction => CodeOf[q] # c
    BY <1>1, <2>1 DEF SeatInv, Locked
  <2> QED BY <1>2, <2>1, <2>2 DEF SeatInv, Locked
<1>5. RowSinceInsert' /\ OneUnredeemed'
  BY <1>1, <1>2 DEF SeatInv, RowSinceInsert, OneUnredeemed
<1>6. LateMintRaced'
  BY <1>1, <1>2, <1>3 DEF SeatInv, LateMintRaced
<1>7. OneUnraced'
  <2> SUFFICES ASSUME NEW m \in Mints, NEW n \in Mints, SeatOf[m] = SeatOf[n], m \notin raced', n \notin raced',
                      roomCode'[m] = "spent", roomCode'[n] # "none"
               PROVE  m = n
    BY DEF OneUnraced
  <2>1. m \notin raced /\ n \notin raced /\ roomCode[n] # "none" /\ roomCode[m] # "none"
    BY <1>1, <1>2, <1>3
  <2>2. CASE m # c
    BY <1>2, <2>1, <2>2 DEF SeatInv, OneUnraced
  <2>3. CASE m = c
    <3>1. CASE roomCode[n] = "spent"
      BY <2>1, <3>1 DEF SeatInv, OneUnraced
    <3>2. CASE roomCode[n] \in {"open", "lapsed"}
      BY <1>1, <2>3, <3>2 DEF SeatInv, OneUnredeemed
    <3> QED BY <2>1, <3>1, <3>2
  <2> QED BY <2>2, <2>3
<1>8. \A q \in Redeems : redeeming[q] = "redeemed" => CodeOf[q] # c
  <2> SUFFICES ASSUME NEW q \in Redeems, redeeming[q] = "redeemed" PROVE roomCode[CodeOf[q]] = "spent"
    BY <1>1
  <2>1. <<SeatFor(q), q>> \in paid
    BY DEF SeatInv, RedeemedOrNothing
  <2> QED BY <2>1 DEF SeatInv, RedeemedOrNothing
<1>9. CodeSeatsOne'
  BY <1>2, <1>8 DEF SeatInv, CodeSeatsOne
<1>10. RedeemedOrNothing'
  <2>1. \A p \in paid' : redeeming'[p[2]] = "redeemed" /\ roomCode'[CodeOf[p[2]]] = "spent"
    BY <1>1, <1>2 DEF SeatInv, RedeemedOrNothing
  <2>2. ASSUME NEW q \in Redeems, redeeming'[q] = "redeemed"
        PROVE  <<SeatFor(q), q>> \in paid' /\ \E u \in Redeems : <<SeatFor(q), u>> \in seated'
    <3>1. seated' = {h \in seated : h[1] # SeatFor(r)} \cup {<<SeatFor(r), r>>}
      BY DEF CommitRedemption
    <3>2. CASE SeatFor(q) = SeatFor(r)
      <4>1. <<SeatFor(q), r>> \in seated'
        BY <3>1, <3>2
      <4>2. <<SeatFor(q), q>> \in paid'
        BY <1>2, <2>2 DEF SeatInv, RedeemedOrNothing
      <4> QED BY <4>1, <4>2
    <3>3. CASE SeatFor(q) # SeatFor(r)
      <4>1. q # r /\ redeeming[q] = "redeemed"
        BY <1>2, <2>2, <3>3
      <4>2. PICK u \in Redeems : <<SeatFor(q), u>> \in seated
        BY <4>1 DEF SeatInv, RedeemedOrNothing
      <4>3. <<SeatFor(q), u>> \in seated' /\ <<SeatFor(q), q>> \in paid'
        BY <1>2, <3>1, <3>3, <4>1, <4>2 DEF SeatInv, RedeemedOrNothing
      <4> QED BY <4>3
    <3> QED BY <3>2, <3>3
  <2>3. ASSUME NEW m \in Mints, roomCode'[m] = "spent"
        PROVE  \E q \in Redeems : redeeming'[q] = "redeemed" /\ CodeOf[q] = m
    BY <1>1, <1>2, <2>3 DEF SeatInv, RedeemedOrNothing
  <2> QED BY <2>1, <2>2, <2>3 DEF RedeemedOrNothing
<1>11. OwnersAdmit'
  BY <1>2 DEF SeatInv, OwnersAdmit
<1> QED BY <1>4, <1>5, <1>6, <1>7, <1>9, <1>10, <1>11 DEF SeatInv

\* The steps of rooms and admits.
LEMMA AdmitStep ==
    ASSUME SeatTypeOK, SeatInv, NEW h \in Posts,
           CreateRoom(h) \/ \E g \in People : StartAdmit(h, g) \/ AdmitMember(h, g)
    PROVE  SeatInv'
<1> USE SeatAssumption DEF SeatTypeOK
<1>1. UNCHANGED codeVars
  BY DEF CreateRoom, StartAdmit, AdmitMember
<1>2. Locked' /\ RowSinceInsert' /\ OneUnredeemed' /\ LateMintRaced' /\ OneUnraced'
  <2>1. Locked' /\ OneUnredeemed' /\ OneUnraced'
    BY <1>1, CodesStay DEF codeVars
  <2>2. RowSinceInsert' /\ LateMintRaced'
    BY <1>1 DEF SeatInv, codeVars, RowSinceInsert, LateMintRaced
  <2> QED BY <2>1, <2>2
<1>3. CodeSeatsOne' /\ RedeemedOrNothing'
  <2>1. CodeSeatsOne'
    BY <1>1 DEF SeatInv, codeVars, CodeSeatsOne
  <2>2. RedeemedOrNothing'
    BY <1>1, SpentStays DEF SeatInv, codeVars
  <2> QED BY <2>1, <2>2
<1>4. OwnersAdmit'
  <2>1. CASE CreateRoom(h)
    BY <2>1 DEF SeatInv, OwnersAdmit, CreateRoom, OwnerAfter
  <2>2. ASSUME NEW g \in People, StartAdmit(h, g) PROVE OwnersAdmit'
    <3>1. roomOwner = h /\ admitting' = admitting \cup {<<h, g>>} /\ UNCHANGED roomOwner
      BY <2>2 DEF StartAdmit
    <3> QED BY <3>1 DEF SeatInv, OwnersAdmit
  <2>3. ASSUME NEW g \in People, AdmitMember(h, g) PROVE OwnersAdmit'
    BY <2>3 DEF SeatInv, OwnersAdmit, AdmitMember
  <2> QED BY <2>1, <2>2, <2>3
<1> QED BY <1>2, <1>3, <1>4 DEF SeatInv

\* The invariant holds from the first state on.
LEMMA SeatInvariant == SeatSpec => [](SeatTypeOK /\ SeatInv)
<1>1. SeatInit => SeatInv
  BY DEF SeatInit, SeatInv, Locked, RowSinceInsert, OneUnredeemed, LateMintRaced, OneUnraced, CodeSeatsOne,
         RedeemedOrNothing, OwnersAdmit, InTransaction
<1>2. UNCHANGED seatVars /\ SeatInv => SeatInv'
  BY DEF seatVars, SeatInv, Locked, RowSinceInsert, OneUnredeemed, LateMintRaced, OneUnraced, CodeSeatsOne,
         RedeemedOrNothing, OwnersAdmit
<1>3. SeatTypeOK /\ SeatInv /\ [SeatNext]_seatVars => SeatInv'
  BY <1>2, MintStep, RedeemStep, CommitStep, AdmitStep DEF SeatNext
<1> QED BY <1>1, <1>3, SeatTypes, PTL DEF SeatSpec

\* For every number of codes, people and failures: a code seats one person, all or nothing, a seat
\* has one person but for the mints that raced its redemption, and an admit is the owner's.
THEOREM SeatsHoldAlways == SeatSpec => []SeatsHold
<1>1. ASSUME SeatTypeOK, SeatInv PROVE SeatsHold
  <2>1. ASSUME NEW s \in Seat
        PROVE  Cardinality({m \in CodesOf(s) \ raced : roomCode[m] = "spent"}) <= 1
    <3> DEFINE held == {m \in CodesOf(s) \ raced : roomCode[m] = "spent"}
    <3>1. \A m, n \in held : m = n
      BY <1>1 DEF SeatInv, OneUnraced, CodesOf
    <3>2. CASE held = {}
      BY <3>2, FS_EmptySet
    <3>3. ASSUME NEW m \in held PROVE Cardinality(held) <= 1
      <4>1. held = {m}
        BY <3>1, <3>3
      <4> HIDE DEF held
      <4> QED BY <4>1, FS_Singleton
    <3> QED BY <3>2, <3>3
  <2>2. SecondHolderRaced
    BY <2>1 DEF SecondHolderRaced
  <2>3. AdmitIsTheOwners
    BY <1>1 DEF SeatInv, OwnersAdmit, AdmitIsTheOwners
  <2> QED BY <1>1, <2>2, <2>3 DEF SeatInv, SeatsHold
<1> QED BY <1>1, SeatInvariant, PTL

-----------------------------------------------------------------------------
(* Interrupts. *)

RaiseRecords == [pc : {"none", "next", "insert", "append", "over"}, todo : SUBSET Humans]
LowerRecords == [pc : {"none", "append", "write", "over"}, key : Keys, to : Urgencies]

\* A call that is at a human has one left.
AtSomeone == \A c \in Calls : raise[c].pc \in {"insert", "append"} => raise[c].todo # {}

IntTyped ==
    /\ claim \in [Keys -> Urgencies \cup {"none"}]
    /\ raised \subseteq Keys /\ lowered \in [Keys -> Nat] /\ spent \in [Raisers -> Nat]
    /\ raise \in [Calls -> RaiseRecords] /\ lower \in [Lowerings -> LowerRecords]
    /\ told \subseteq Calls \X Humans /\ days \in 0..MaxDays /\ intCrashes \in 0..MaxIntCrashes
    /\ AtSomeone

\* The same for the interrupts: their record sets are named, and the type invariant follows.
LEMMA IntTyping == IntTyped => IntTypeOK
BY DEF IntTyped, IntTypeOK, RaiseRecords, LowerRecords

\* Among humans who are left there is a first.
LEMMA FirstIsLeft == ASSUME NEW S \in SUBSET Humans, S # {} PROVE Min(S) \in S
BY HumansAssumption, FirstOfNumbers

\* What a call is at is a claim's key.
LEMMA KeyIsKey ==
    ASSUME IntTyped, NEW c \in Calls, raise[c].pc \in {"insert", "append"}
    PROVE  Key(c) \in Keys /\ Key(c) = <<AboutOf[c], Key(c)[2]>> /\ Key(c)[2] \in Humans
<1>1. raise[c].todo \in SUBSET Humans /\ raise[c].todo # {}
  BY DEF IntTyped, RaiseRecords, AtSomeone
<1>2. Min(raise[c].todo) \in Humans
  BY <1>1, FirstIsLeft
<1> QED BY <1>2, CallsAssumption DEF Key, Keys

\* The records of the calls stay records of calls.
LEMMA RecordTyping ==
    ASSUME IntTyped, NEW c \in Calls
    PROVE  /\ Ahead(raise[c]) \in RaiseRecords /\ Ahead(raise[c]).pc = "next"
           /\ \A pc \in {"next", "insert", "append", "over"} :
                 [raise[c] EXCEPT !.pc = pc] \in RaiseRecords /\ [raise[c] EXCEPT !.pc = pc].pc = pc
                 /\ [raise[c] EXCEPT !.pc = pc].todo = raise[c].todo
           /\ \A pc \in {"none", "over"} : [pc |-> pc, todo |-> {}] \in RaiseRecords
           /\ [raise[c] EXCEPT !.pc = "next", !.todo = Humans] \in RaiseRecords
BY DEF IntTyped, RaiseRecords, Ahead

\* A lowering that is through.
LEMMA ThroughIsOver == Through \in LowerRecords /\ Through.pc = "over"
<1>0. PICK a \in Abouts, h \in Humans : TRUE
  BY HumansAssumption
<1>1. <<a, h>> \in Keys
  BY DEF Keys
<1> DEFINE some == CHOOSE k \in Keys : TRUE
<1>2. Through = [pc |-> "over", key |-> some, to |-> "FYI"]
  BY DEF Through
<1> HIDE DEF some
<1>3. some \in Keys
  BY <1>1, Zenon DEF some
<1> QED BY <1>2, <1>3 DEF LowerRecords, Urgencies

\* What a step of a call leaves of the calls: itself further on, the others where they were.
LEMMA CallStep ==
    ASSUME IntTyped, NEW c \in Calls,
           StartRaising(c) \/ ReadBudget(c) \/ InsertClaim(c) \/ AppendRaised(c) \/ RaisingEnds(c)
    PROVE  /\ raise' \in [Calls -> RaiseRecords] /\ \A u \in Calls : u # c => raise'[u] = raise[u]
           /\ StartRaising(c) \/ RaisingEnds(c) => raise'[c].pc \in {"next", "over"} /\ raise[c].pc \in {"none", "next"}
           /\ ReadBudget(c) =>
                /\ raise[c].pc = "next" /\ raise[c].todo # {}
                /\ raise'[c].pc \in {"insert", "next"}
                /\ raise'[c].pc = "insert" => Affords(c) /\ raise'[c].todo = raise[c].todo
           /\ InsertClaim(c) =>
                /\ raise[c].pc = "insert" /\ raise'[c].pc \in {"append", "next"}
                /\ raise'[c].pc = "append" => raise'[c].todo = raise[c].todo
                /\ raise'[c].pc = "append" <=> claim[Key(c)] = "none"
           /\ AppendRaised(c) => raise[c].pc = "append" /\ raise'[c].pc = "next"
<1>0. raise \in [Calls -> RaiseRecords]
  BY DEF IntTyped
<1>1. CASE StartRaising(c)
  <2>1. raise' = [raise EXCEPT ![c] = [raise[c] EXCEPT !.pc = "next", !.todo = Humans]] /\ raise[c].pc = "none"
    BY <1>0, <1>1 DEF StartRaising
  <2>2. [raise[c] EXCEPT !.pc = "next", !.todo = Humans] \in RaiseRecords
        /\ [raise[c] EXCEPT !.pc = "next", !.todo = Humans].pc = "next"
    BY RecordTyping, <1>0 DEF RaiseRecords
  <2> QED BY <1>0, <2>1, <2>2 DEF ReadBudget, InsertClaim, AppendRaised
<1>2. CASE RaisingEnds(c)
  <2>1. raise' = [raise EXCEPT ![c] = [raise[c] EXCEPT !.pc = "over"]] /\ raise[c].pc = "next" /\ raise[c].todo = {}
    BY <1>0, <1>2 DEF RaisingEnds
  <2>2. [raise[c] EXCEPT !.pc = "over"] \in RaiseRecords /\ [raise[c] EXCEPT !.pc = "over"].pc = "over"
    BY RecordTyping
  <2> QED BY <1>0, <2>1, <2>2 DEF ReadBudget, InsertClaim, AppendRaised
<1>3. CASE ReadBudget(c)
  <2>1. /\ raise[c].pc = "next" /\ raise[c].todo # {}
        /\ \/ raise' = [raise EXCEPT ![c] = [raise[c] EXCEPT !.pc = "insert"]] /\ Affords(c)
           \/ raise' = [raise EXCEPT ![c] = Ahead(raise[c])]
    BY <1>0, <1>3 DEF ReadBudget
  <2>2. ~(StartRaising(c) \/ RaisingEnds(c)) /\ ~InsertClaim(c) /\ ~AppendRaised(c)
    BY <2>1 DEF StartRaising, RaisingEnds, InsertClaim, AppendRaised
  <2>3. CASE raise' = [raise EXCEPT ![c] = [raise[c] EXCEPT !.pc = "insert"]] /\ Affords(c)
    <3>1. PICK s \in RaiseRecords : s = [raise[c] EXCEPT !.pc = "insert"] /\ s.pc = "insert" /\ s.todo = raise[c].todo
      BY RecordTyping
    <3>2. raise' = [raise EXCEPT ![c] = s] /\ Affords(c)
      BY <2>3, <3>1
    <3>3. raise' \in [Calls -> RaiseRecords] /\ raise'[c] = s /\ \A u \in Calls : u # c => raise'[u] = raise[u]
      BY <1>0, <3>2
    <3> QED BY <2>1, <2>2, <3>1, <3>2, <3>3
  <2>4. CASE raise' = [raise EXCEPT ![c] = Ahead(raise[c])]
    <3>1. raise' \in [Calls -> RaiseRecords] /\ raise'[c].pc = "next" /\ \A u \in Calls : u # c => raise'[u] = raise[u]
      BY <1>0, <2>4, RecordTyping
    <3> QED BY <2>1, <2>2, <3>1
  <2> QED BY <2>1, <2>3, <2>4
<1>4. CASE InsertClaim(c)
  <2>1. /\ raise[c].pc = "insert"
        /\ \/ claim[Key(c)] = "none" /\ raise' = [raise EXCEPT ![c] = [raise[c] EXCEPT !.pc = "append"]]
           \/ claim[Key(c)] # "none" /\ raise' = [raise EXCEPT ![c] = Ahead(raise[c])]
    BY <1>0, <1>4 DEF InsertClaim
  <2>2. ~(StartRaising(c) \/ RaisingEnds(c)) /\ ~ReadBudget(c) /\ ~AppendRaised(c)
    BY <2>1 DEF StartRaising, RaisingEnds, ReadBudget, AppendRaised
  <2>3. CASE claim[Key(c)] = "none" /\ raise' = [raise EXCEPT ![c] = [raise[c] EXCEPT !.pc = "append"]]
    <3>1. PICK s \in RaiseRecords : s = [raise[c] EXCEPT !.pc = "append"] /\ s.pc = "append" /\ s.todo = raise[c].todo
      BY RecordTyping
    <3>2. raise' = [raise EXCEPT ![c] = s]
      BY <2>3, <3>1
    <3>3. raise' \in [Calls -> RaiseRecords] /\ raise'[c] = s /\ \A u \in Calls : u # c => raise'[u] = raise[u]
      BY <1>0, <3>2
    <3> QED BY <2>1, <2>2, <2>3, <3>1, <3>3
  <2>4. CASE claim[Key(c)] # "none" /\ raise' = [raise EXCEPT ![c] = Ahead(raise[c])]
    <3>1. raise' \in [Calls -> RaiseRecords] /\ raise'[c].pc = "next" /\ \A u \in Calls : u # c => raise'[u] = raise[u]
      BY <1>0, <2>4, RecordTyping
    <3> QED BY <2>1, <2>2, <2>4, <3>1
  <2> QED BY <2>1, <2>3, <2>4
<1>5. CASE AppendRaised(c)
  <2>1. raise[c].pc = "append" /\ raise' = [raise EXCEPT ![c] = Ahead(raise[c])]
    BY <1>0, <1>5 DEF AppendRaised
  <2> QED BY <1>0, <2>1, RecordTyping DEF StartRaising, RaisingEnds, ReadBudget, InsertClaim
<1> QED BY <1>1, <1>2, <1>3, <1>4, <1>5

\* And a step of a downgrade.
LEMMA LowerMoves ==
    ASSUME IntTyped, NEW d \in Lowerings, ReadClaim(d) \/ AppendLowered(d) \/ WriteLowered(d)
    PROVE  /\ lower' \in [Lowerings -> LowerRecords] /\ \A e \in Lowerings : e # d => lower'[e] = lower[e]
           /\ ReadClaim(d) => \E k \in Keys :
                lower[d].pc = "none" /\ claim[k] \in {"BLOCKER", "DECISION"}
                /\ lower'[d] = [pc |-> "append", key |-> k, to |-> LowerThan(claim[k])]
           /\ AppendLowered(d) => lower[d].pc = "append" /\ lower'[d].pc = "write"
                /\ lower'[d].key = lower[d].key /\ lower'[d].to = lower[d].to
           /\ WriteLowered(d) => lower[d].pc = "write" /\ lower'[d].pc = "over"
<1>0. lower \in [Lowerings -> LowerRecords]
  BY DEF IntTyped
<1>1. CASE ReadClaim(d)
  <2>1. PICK k \in Keys : lower[d].pc = "none" /\ claim[k] \in {"BLOCKER", "DECISION"}
          /\ lower' = [lower EXCEPT ![d] = [pc |-> "append", key |-> k, to |-> LowerThan(claim[k])]]
    BY <1>1 DEF ReadClaim
  <2>2. [pc |-> "append", key |-> k, to |-> LowerThan(claim[k])] \in LowerRecords
    BY DEF LowerRecords, LowerThan, Urgencies
  <2> QED BY <1>0, <2>1, <2>2 DEF AppendLowered, WriteLowered
<1>2. CASE AppendLowered(d)
  <2>1. lower' = [lower EXCEPT ![d] = [lower[d] EXCEPT !.pc = "write"]] /\ lower[d].pc = "append"
    BY <1>0, <1>2 DEF AppendLowered
  <2>2. /\ [lower[d] EXCEPT !.pc = "write"] \in LowerRecords /\ [lower[d] EXCEPT !.pc = "write"].pc = "write"
        /\ [lower[d] EXCEPT !.pc = "write"].key = lower[d].key /\ [lower[d] EXCEPT !.pc = "write"].to = lower[d].to
    BY <1>0 DEF LowerRecords
  <2> QED BY <1>0, <2>1, <2>2 DEF ReadClaim, WriteLowered
<1>3. CASE WriteLowered(d)
  <2>1. lower' = [lower EXCEPT ![d] = Through] /\ lower[d].pc = "write"
    BY <1>3 DEF WriteLowered
  <2> QED BY <1>0, <2>1, ThroughIsOver DEF ReadClaim, AppendLowered
<1> QED BY <1>1, <1>2, <1>3

\* Every step keeps every variable's type, and a call that is at a human has one left.
LEMMA IntTypeStep == IntTyped /\ [IntNext]_intVars => IntTyped'
<1> SUFFICES ASSUME IntTyped, [IntNext]_intVars PROVE IntTyped'
  OBVIOUS
<1>1. ASSUME NEW c \in Calls, StartRaising(c) \/ RaisingEnds(c) PROVE IntTyped'
  <2>1. raise' \in [Calls -> RaiseRecords] /\ AtSomeone'
    BY <1>1, CallStep DEF IntTyped, AtSomeone
  <2> QED BY <1>1, <2>1 DEF IntTyped, StartRaising, RaisingEnds
<1>2. ASSUME NEW c \in Calls, ReadBudget(c) PROVE IntTyped'
  <2>1. raise' \in [Calls -> RaiseRecords] /\ AtSomeone'
    BY <1>2, CallStep DEF IntTyped, AtSomeone
  <2> QED BY <1>2, <2>1 DEF IntTyped, ReadBudget
<1>3. ASSUME NEW c \in Calls, InsertClaim(c) PROVE IntTyped'
  <2>1. raise' \in [Calls -> RaiseRecords] /\ AtSomeone'
    BY <1>3, CallStep DEF IntTyped, AtSomeone
  <2>2. raise[c].pc \in {"insert", "append"}
    BY <1>3 DEF InsertClaim
  <2>3. Key(c) \in Keys /\ Key(c)[2] \in Humans /\ UrgencyOf[c] \in Urgencies
    BY <2>2, KeyIsKey, CallsAssumption
  <2>4. claim' \in [Keys -> Urgencies \cup {"none"}] /\ told' \subseteq Calls \X Humans
    BY <1>3, <2>3 DEF IntTyped, InsertClaim
  <2> QED BY <1>3, <2>1, <2>4 DEF IntTyped, InsertClaim
<1>4. ASSUME NEW c \in Calls, AppendRaised(c) PROVE IntTyped'
  <2>1. raise' \in [Calls -> RaiseRecords] /\ AtSomeone'
    BY <1>4, CallStep DEF IntTyped, AtSomeone
  <2>2. raise[c].pc \in {"insert", "append"}
    BY <1>4 DEF AppendRaised
  <2>3. Key(c) \in Keys /\ Key(c)[2] \in Humans
    BY <2>2, KeyIsKey
  <2>4. raised' \subseteq Keys /\ told' \subseteq Calls \X Humans
    BY <1>4, <2>3 DEF IntTyped, AppendRaised
  <2>5. spent' \in [Raisers -> Nat]
    <3>1. PICK r \in Raisers, n \in Nat : spent' = [spent EXCEPT ![r] = spent[r] + n]
      <4>1. RaiserOf[AboutOf[c]] \in Raisers /\ Cost(UrgencyOf[c]) \in Nat
        BY CallsAssumption DEF Cost
      <4> QED BY <1>4, <4>1 DEF AppendRaised
    <3> QED BY <3>1 DEF IntTyped
  <2> QED BY <1>4, <2>1, <2>4, <2>5 DEF IntTyped, AppendRaised
<1>5. ASSUME NEW d \in Lowerings, ReadClaim(d) PROVE IntTyped'
  <2>1. lower' \in [Lowerings -> LowerRecords]
    BY <1>5, LowerMoves
  <2>2. UNCHANGED <<claim, raised, lowered, spent, raise, told, days, intCrashes>>
    BY <1>5 DEF ReadClaim
  <2> QED BY <2>1, <2>2 DEF IntTyped, AtSomeone
<1>6. ASSUME NEW d \in Lowerings, AppendLowered(d) PROVE IntTyped'
  <2>1. lower' \in [Lowerings -> LowerRecords] /\ UNCHANGED <<claim, raised, raise, told, days, intCrashes>>
    BY <1>6, LowerMoves DEF AppendLowered
  <2>2. lowered' \in [Keys -> Nat] /\ spent' \in [Raisers -> Nat]
    <3>1. PICK k \in Keys : /\ lowered' = [lowered EXCEPT ![k] = lowered[k] + 1]
                            /\ spent' = [spent EXCEPT ![RaiserOf[k[1]]] = spent[RaiserOf[k[1]]] + 1]
      <4>1. lower[d].key \in Keys
        BY DEF IntTyped, LowerRecords
      <4> QED BY <1>6, <4>1 DEF AppendLowered
    <3>2. RaiserOf[k[1]] \in Raisers
      BY CallsAssumption DEF Keys
    <3> QED BY <3>1, <3>2 DEF IntTyped
  <2> QED BY <2>1, <2>2 DEF IntTyped, AtSomeone
<1>7. ASSUME NEW d \in Lowerings, WriteLowered(d) PROVE IntTyped'
  <2>1. lower' \in [Lowerings -> LowerRecords] /\ UNCHANGED <<raised, lowered, spent, raise, told, days, intCrashes>>
    BY <1>7, LowerMoves DEF WriteLowered
  <2>2. lower[d].key \in Keys /\ lower[d].to \in Urgencies
    BY DEF IntTyped, LowerRecords
  <2>3. claim' \in [Keys -> Urgencies \cup {"none"}]
    BY <1>7, <2>2 DEF IntTyped, WriteLowered
  <2> QED BY <2>1, <2>3 DEF IntTyped, AtSomeone
<1>8. CASE Midnight
  BY <1>8, IntBoundsAssumption DEF Midnight, IntTyped, AtSomeone
<1>9. CASE IntCrash
  <2>1. \A c \in Calls : raise'[c] \in RaiseRecords /\ raise'[c].pc \in {"none", "over"}
    BY <1>9, RecordTyping DEF IntCrash, IntTyped
  <2>2. raise' \in [Calls -> RaiseRecords] /\ AtSomeone'
    BY <1>9, <2>1 DEF IntCrash, AtSomeone
  <2>3. lower' \in [Lowerings -> LowerRecords]
    BY <1>9, ThroughIsOver DEF IntCrash, IntTyped
  <2>4. intCrashes' \in 0..MaxIntCrashes
    BY <1>9, IntBoundsAssumption DEF IntCrash, IntTyped
  <2> QED BY <1>9, <2>2, <2>3, <2>4 DEF IntCrash, IntTyped
<1>10. CASE UNCHANGED intVars
  BY <1>10 DEF intVars, IntTyped, AtSomeone
<1> QED BY <1>1, <1>2, <1>3, <1>4, <1>5, <1>6, <1>7, <1>8, <1>9, <1>10 DEF IntNext

\* Every variable of the interrupts keeps its type.
LEMMA IntTypes == IntSpec => []IntTyped
<1>1. IntInit => IntTyped
  <2> SUFFICES ASSUME IntInit PROVE IntTyped
    OBVIOUS
  <2>1. [Through EXCEPT !.pc = "none"] \in LowerRecords
    BY ThroughIsOver DEF LowerRecords
  <2>2. [pc |-> "none", todo |-> {}] \in RaiseRecords
    BY DEF RaiseRecords
  <2>3. lower \in [Lowerings -> LowerRecords] /\ raise \in [Calls -> RaiseRecords]
    BY <2>1, <2>2 DEF IntInit
  <2>4. AtSomeone
    BY DEF IntInit, AtSomeone
  <2> QED BY <2>3, <2>4, IntBoundsAssumption DEF IntInit, IntTyped
<1> QED BY <1>1, IntTypeStep, PTL DEF IntSpec

\* The call that is to append an event is the one that made its row, and the only one.
AppendIsFirst == \A c \in Calls : raise[c].pc = "append" =>
    /\ Key(c) \notin raised /\ claim[Key(c)] # "none"
    /\ \A u \in Calls : raise[u].pc = "append" /\ Key(u) = Key(c) => u = c

\* A downgrade under way is of a claim.
LowersClaims == \A d \in Lowerings : lower[d].pc \in {"append", "write"} => claim[lower[d].key] # "none"

Telling == AppendIsFirst /\ LowersClaims /\ ClaimIsTold /\ AnswerIsClaim

\* The row and the event of a claim, through every step.
LEMMA TellStep == IntTyped /\ Telling /\ [IntNext]_intVars => Telling'
<1> SUFFICES ASSUME IntTyped, IntTyped', Telling, [IntNext]_intVars PROVE Telling'
  BY IntTypeStep
<1> USE DEF Telling
<1>1. ASSUME NEW c \in Calls, StartRaising(c) \/ RaisingEnds(c) \/ ReadBudget(c) PROVE Telling'
  <2>1. UNCHANGED <<claim, raised, lower, told, intCrashes>>
    BY <1>1 DEF StartRaising, RaisingEnds, ReadBudget
  <2>2. raise[c].pc # "append" /\ raise'[c].pc # "append" /\ \A u \in Calls : u # c => raise'[u] = raise[u]
    BY <1>1, CallStep
  <2>3. AppendIsFirst'
    BY <2>1, <2>2 DEF AppendIsFirst, Key
  <2>4. LowersClaims'
    BY <2>1 DEF LowersClaims
  <2>5. ClaimIsTold'
    BY <2>1, <2>2 DEF ClaimIsTold, Key
  <2>6. AnswerIsClaim'
    BY <2>1, <2>2 DEF AnswerIsClaim, Key
  <2> QED BY <2>3, <2>4, <2>5, <2>6
<1>2. ASSUME NEW c \in Calls, InsertClaim(c) PROVE Telling'
  <2> DEFINE k == Key(c)
  <2>1. /\ raise[c].pc = "insert" /\ UNCHANGED <<raised, lower, intCrashes>>
        /\ \A u \in Calls : u # c => raise'[u] = raise[u]
    BY <1>2, CallStep DEF InsertClaim
  <2>2. k \in Keys /\ k = <<AboutOf[c], k[2]>> /\ k[2] \in Humans
    BY <2>1, KeyIsKey
  <2>3. CASE claim[k] = "none"
    <3>1. claim' = [claim EXCEPT ![k] = UrgencyOf[c]] /\ UNCHANGED told /\ UrgencyOf[c] # "none"
      BY <1>2, <2>3, CallsAssumption DEF InsertClaim, Urgencies
    <3>2. raise'[c].pc = "append" /\ raise'[c].todo = raise[c].todo
      BY <1>2, <2>3, CallStep
    <3>3. Key(c)' = k
      BY <3>2 DEF Key
    <3>4. k \notin raised /\ \A u \in Calls : raise[u].pc = "append" => Key(u) # k
      BY <2>2, <2>3 DEF ClaimIsTold, AppendIsFirst
    <3>5. \A m \in Keys : claim'[m] # "none" <=> m = k \/ claim[m] # "none"
      BY <2>2, <3>1 DEF IntTyped
    <3>6. \A u \in Calls : raise'[u].pc = "append" <=> u = c \/ raise[u].pc = "append"
      BY <2>1, <3>2
    <3>7. \A u \in Calls : raise[u].pc = "append" => u # c /\ Key(u)' = Key(u) /\ Key(u) \in Keys
      BY <2>1, KeyIsKey DEF Key
    <3>8. AppendIsFirst'
      <4> SUFFICES ASSUME NEW u \in Calls, raise'[u].pc = "append"
                   PROVE  /\ Key(u)' \notin raised /\ claim'[Key(u)'] # "none"
                          /\ \A v \in Calls : raise'[v].pc = "append" /\ Key(v)' = Key(u)' => v = u
        BY <2>1 DEF AppendIsFirst
      <4>1. CASE u = c
        BY <2>2, <3>3, <3>4, <3>5, <3>6, <3>7, <4>1
      <4>2. CASE u # c
        BY <2>2, <3>3, <3>4, <3>5, <3>6, <3>7, <4>2 DEF AppendIsFirst
      <4> QED BY <4>1, <4>2
    <3>9. LowersClaims'
      BY <2>1, <3>5 DEF LowersClaims, IntTyped, LowerRecords
    <3>10. ClaimIsTold'
      BY <2>1, <2>2, <3>3, <3>5, <3>6, <3>7 DEF ClaimIsTold
    <3>11. AnswerIsClaim'
      BY <2>1, <3>1, <3>6, <3>7 DEF AnswerIsClaim
    <3> QED BY <3>8, <3>9, <3>10, <3>11
  <2>4. CASE claim[k] # "none"
    <3>1. UNCHANGED claim /\ told' = told \cup {<<c, k[2]>>} /\ raise'[c].pc = "next"
      BY <1>2, <2>4, CallStep DEF InsertClaim
    <3>2. \A u \in Calls : /\ raise'[u].pc = "append" <=> raise[u].pc = "append"
                           /\ raise[u].pc = "append" => u # c /\ Key(u)' = Key(u)
      BY <2>1, <3>1 DEF Key
    <3>3. AppendIsFirst' /\ LowersClaims' /\ ClaimIsTold'
      BY <2>1, <3>1, <3>2 DEF AppendIsFirst, LowersClaims, ClaimIsTold
    <3>4. k \in raised \/ intCrashes > 0 \/ \E u \in Calls : u # c /\ raise[u].pc = "append" /\ Key(u) = k
      BY <2>1, <2>2, <2>4 DEF ClaimIsTold
    <3>5. ASSUME NEW v \in Calls, NEW h \in Humans, <<v, h>> \in told'
          PROVE  \/ <<AboutOf[v], h>> \in raised' \/ intCrashes' > 0
                 \/ \E u \in Calls : u # v /\ raise'[u].pc = "append" /\ Key(u)' = <<AboutOf[v], h>>
      <4>1. CASE <<v, h>> \in told
        BY <2>1, <3>2, <4>1 DEF AnswerIsClaim
      <4>2. CASE v = c /\ h = k[2]
        BY <2>1, <2>2, <3>2, <3>4, <4>2
      <4> QED BY <3>1, <3>5, <4>1, <4>2
    <3> QED BY <3>3, <3>5 DEF AnswerIsClaim
  <2> QED BY <2>3, <2>4
<1>3. ASSUME NEW c \in Calls, AppendRaised(c) PROVE Telling'
  <2> DEFINE k == Key(c)
  <2>1. /\ raise[c].pc = "append" /\ raise'[c].pc = "next" /\ UNCHANGED <<claim, lower, intCrashes>>
        /\ raised' = raised \cup {k} /\ told' = told \cup {<<c, k[2]>>}
        /\ \A u \in Calls : u # c => raise'[u] = raise[u]
    BY <1>3, CallStep DEF AppendRaised
  <2>2. k \in Keys /\ k = <<AboutOf[c], k[2]>> /\ k[2] \in Humans
    BY <2>1, KeyIsKey
  <2>3. \A u \in Calls : /\ raise'[u].pc = "append" <=> u # c /\ raise[u].pc = "append"
                         /\ u # c => Key(u)' = Key(u)
    BY <2>1 DEF Key
  <2>4. AppendIsFirst'
    BY <2>1, <2>3 DEF AppendIsFirst
  <2>5. LowersClaims'
    BY <2>1 DEF LowersClaims
  <2>6. ClaimIsTold'
    BY <2>1, <2>3 DEF ClaimIsTold, AppendIsFirst
  <2>7. ASSUME NEW v \in Calls, NEW h \in Humans, <<v, h>> \in told'
        PROVE  \/ <<AboutOf[v], h>> \in raised' \/ intCrashes' > 0
               \/ \E u \in Calls : u # v /\ raise'[u].pc = "append" /\ Key(u)' = <<AboutOf[v], h>>
    <3>1. CASE v = c /\ h = k[2]
      BY <2>1, <2>2, <3>1
    <3>2. CASE <<v, h>> \in told
      <4>1. \/ <<AboutOf[v], h>> \in raised \/ intCrashes > 0
            \/ \E u \in Calls : u # v /\ raise[u].pc = "append" /\ Key(u) = <<AboutOf[v], h>>
        BY <3>2 DEF AnswerIsClaim
      <4> QED BY <2>1, <2>3, <4>1
    <3> QED BY <2>1, <2>7, <3>1, <3>2
  <2> QED BY <2>4, <2>5, <2>6, <2>7 DEF AnswerIsClaim
<1>4. ASSUME NEW d \in Lowerings, ReadClaim(d) \/ AppendLowered(d) PROVE Telling'
  <2>1. UNCHANGED <<claim, raised, raise, told, intCrashes>>
    BY <1>4 DEF ReadClaim, AppendLowered
  <2>2. AppendIsFirst' /\ ClaimIsTold' /\ AnswerIsClaim'
    BY <2>1 DEF AppendIsFirst, ClaimIsTold, AnswerIsClaim, Key
  <2>3. claim[lower'[d].key] # "none" /\ \A e \in Lowerings : e # d => lower'[e] = lower[e]
    <3>1. CASE ReadClaim(d)
      <4>1. PICK k \in Keys : claim[k] \in {"BLOCKER", "DECISION"}
                /\ lower'[d] = [pc |-> "append", key |-> k, to |-> LowerThan(claim[k])]
        BY <3>1, LowerMoves
      <4> QED BY <3>1, <4>1, LowerMoves
    <3>2. CASE AppendLowered(d)
      <4>1. lower[d].pc = "append" /\ lower'[d].key = lower[d].key
        BY <3>2, LowerMoves
      <4> QED BY <3>2, <4>1, LowerMoves DEF LowersClaims
    <3> QED BY <1>4, <3>1, <3>2
  <2> QED BY <2>1, <2>2, <2>3 DEF LowersClaims
<1>5. ASSUME NEW d \in Lowerings, WriteLowered(d) PROVE Telling'
  <2>1. UNCHANGED <<raised, raise, told, intCrashes>> /\ claim' = [claim EXCEPT ![lower[d].key] = lower[d].to]
    BY <1>5 DEF WriteLowered
  <2>2. lower[d].key \in Keys /\ lower[d].to # "none" /\ claim[lower[d].key] # "none"
    BY <1>5 DEF WriteLowered, LowersClaims, IntTyped, LowerRecords, Urgencies
  <2>3. \A k \in Keys : claim'[k] = "none" <=> claim[k] = "none"
    BY <2>1, <2>2 DEF IntTyped
  <2>4. \A c \in Calls : raise[c].pc = "append" => Key(c) \in Keys
    BY KeyIsKey
  <2>5. \A c \in Calls : Key(c)' = Key(c)
    BY <2>1 DEF Key
  <2>6. AppendIsFirst' /\ ClaimIsTold' /\ AnswerIsClaim'
    BY <2>1, <2>3, <2>4, <2>5 DEF AppendIsFirst, ClaimIsTold, AnswerIsClaim
  <2>7. lower'[d].pc = "over" /\ \A e \in Lowerings : e # d => lower'[e] = lower[e]
    BY <1>5, LowerMoves
  <2>8. \A e \in Lowerings : lower[e].key \in Keys
    BY DEF IntTyped, LowerRecords
  <2>9. LowersClaims'
    BY <2>3, <2>7, <2>8 DEF LowersClaims
  <2> QED BY <2>6, <2>9
<1>6. CASE IntCrash
  <2>1. UNCHANGED <<claim, raised, told>> /\ intCrashes' > 0
    BY <1>6, IntBoundsAssumption DEF IntCrash, IntTyped
  <2>2. \A c \in Calls : raise'[c].pc # "append"
    BY <1>6 DEF IntCrash
  <2>3. \A d \in Lowerings : lower'[d].pc \in {"none", "over"}
    BY <1>6, ThroughIsOver DEF IntCrash
  <2> QED BY <2>1, <2>2, <2>3 DEF AppendIsFirst, LowersClaims, ClaimIsTold, AnswerIsClaim
<1>7. CASE UNCHANGED <<claim, raised, raise, lower, told, intCrashes>>
  <2>1. AppendIsFirst' /\ LowersClaims'
    BY <1>7 DEF AppendIsFirst, LowersClaims, Key
  <2>2. ClaimIsTold' /\ AnswerIsClaim'
    BY <1>7 DEF ClaimIsTold, AnswerIsClaim, Key
  <2> QED BY <2>1, <2>2
<1> QED BY <1>1, <1>2, <1>3, <1>4, <1>5, <1>6, <1>7 DEF IntNext, intVars, Midnight

\* What the log still owes or has charged for a downgrade: before its event the row may be one step
\* lower than the charges say, after it no lower.
StepIsCharged == \A d \in Lowerings :
    /\ lower[d].pc = "append" => \E c \in Calls :
          AboutOf[c] = lower[d].key[1] /\ Rank(UrgencyOf[c]) <= Rank(lower[d].to) + 1 + lowered[lower[d].key]
    /\ lower[d].pc = "write" => \E c \in Calls :
          AboutOf[c] = lower[d].key[1] /\ Rank(UrgencyOf[c]) <= Rank(lower[d].to) + lowered[lower[d].key]

Lowering == StepIsCharged /\ LoweringIsCharged

\* One downgrade is one step.
LEMMA OneStepDown ==
    ASSUME NEW urgency \in {"BLOCKER", "DECISION"}
    PROVE  LowerThan(urgency) \in Urgencies /\ Rank(urgency) = Rank(LowerThan(urgency)) + 1
BY DEF LowerThan, Rank, Urgencies

\* An urgency ranks among three.
LEMMA RankIsNat == \A urgency : Rank(urgency) \in 0..2
BY DEF Rank

\* The row of a claim and the charges for it, through every step.
LEMMA LowerStep == IntTyped /\ Lowering /\ [IntNext]_intVars => Lowering'
<1> SUFFICES ASSUME IntTyped, IntTyped', Lowering, [IntNext]_intVars PROVE Lowering'
  BY IntTypeStep
<1> USE DEF Lowering
<1>0. /\ \A k \in Keys : lowered[k] \in Nat
      /\ \A d \in Lowerings : lower[d].key \in Keys /\ lower[d].to \in Urgencies
  BY DEF IntTyped, LowerRecords
<1>1. CASE UNCHANGED <<claim, lowered, lower>>
  BY <1>1 DEF StepIsCharged, LoweringIsCharged
<1>2. ASSUME NEW c \in Calls, InsertClaim(c) PROVE Lowering'
  <2>1. UNCHANGED <<lowered, lower>> /\ raise[c].pc = "insert"
        /\ (UNCHANGED claim \/ claim' = [claim EXCEPT ![Key(c)] = UrgencyOf[c]])
    BY <1>2 DEF InsertClaim
  <2>2. Key(c) \in Keys /\ Key(c)[1] = AboutOf[c]
    BY <2>1, KeyIsKey
  <2>3. ASSUME NEW k \in Keys, claim'[k] # "none"
        PROVE  \E u \in Calls : AboutOf[u] = k[1] /\ Rank(UrgencyOf[u]) <= Rank(claim'[k]) + lowered'[k]
    <3>1. CASE claim'[k] = claim[k]
      BY <2>1, <2>3, <3>1 DEF LoweringIsCharged
    <3>2. CASE claim'[k] # claim[k]
      <4>1. k = Key(c) /\ claim'[k] = UrgencyOf[c]
        BY <2>1, <3>2 DEF IntTyped
      <4>2. Rank(UrgencyOf[c]) <= Rank(claim'[k]) + lowered'[k]
        BY <1>0, <2>1, <4>1, RankIsNat
      <4> QED BY <2>2, <4>1, <4>2
    <3> QED BY <3>1, <3>2
  <2>4. StepIsCharged'
    BY <2>1 DEF StepIsCharged
  <2> QED BY <2>3, <2>4 DEF LoweringIsCharged
<1>3. ASSUME NEW d \in Lowerings, ReadClaim(d) PROVE Lowering'
  <2>1. UNCHANGED <<claim, lowered>> /\ \A e \in Lowerings : e # d => lower'[e] = lower[e]
    BY <1>3, LowerMoves DEF ReadClaim
  <2>2. PICK k \in Keys : claim[k] \in {"BLOCKER", "DECISION"}
          /\ lower'[d] = [pc |-> "append", key |-> k, to |-> LowerThan(claim[k])]
    BY <1>3, LowerMoves
  <2>3. PICK c \in Calls : AboutOf[c] = k[1] /\ Rank(UrgencyOf[c]) <= Rank(claim[k]) + lowered[k]
    BY <2>2 DEF LoweringIsCharged
  <2>4. Rank(claim[k]) = Rank(LowerThan(claim[k])) + 1
    BY <2>2, OneStepDown
  <2>5. Rank(UrgencyOf[c]) <= Rank(LowerThan(claim[k])) + 1 + lowered[k]
    BY <1>0, <2>3, <2>4, RankIsNat
  <2>6. lower'[d].pc = "append" /\ lower'[d].key = k /\ lower'[d].to = LowerThan(claim[k])
    BY <2>2
  <2>7. StepIsCharged'
    BY <2>1, <2>3, <2>5, <2>6 DEF StepIsCharged
  <2>8. LoweringIsCharged'
    BY <2>1 DEF LoweringIsCharged
  <2> QED BY <2>7, <2>8
<1>4. ASSUME NEW d \in Lowerings, AppendLowered(d) PROVE Lowering'
  <2> DEFINE k == lower[d].key
  <2>1. /\ UNCHANGED claim /\ lowered' = [lowered EXCEPT ![k] = lowered[k] + 1]
        /\ \A e \in Lowerings : e # d => lower'[e] = lower[e]
        /\ lower[d].pc = "append" /\ lower'[d].pc = "write" /\ lower'[d].key = k /\ lower'[d].to = lower[d].to
    BY <1>4, LowerMoves DEF AppendLowered
  <2>2. lowered'[k] = lowered[k] + 1 /\ \A m \in Keys : lowered'[m] \in Nat /\ lowered[m] <= lowered'[m]
    BY <1>0, <2>1 DEF IntTyped
  <2>3. LoweringIsCharged'
    <3> SUFFICES ASSUME NEW m \in Keys, claim[m] # "none"
                 PROVE  \E c \in Calls : AboutOf[c] = m[1] /\ Rank(UrgencyOf[c]) <= Rank(claim[m]) + lowered'[m]
      BY <2>1 DEF LoweringIsCharged
    <3>1. PICK c \in Calls : AboutOf[c] = m[1] /\ Rank(UrgencyOf[c]) <= Rank(claim[m]) + lowered[m]
      BY DEF LoweringIsCharged
    <3>2. Rank(UrgencyOf[c]) <= Rank(claim[m]) + lowered'[m]
      BY <1>0, <2>2, <3>1, RankIsNat
    <3> QED BY <3>1, <3>2
  <2>4. ASSUME NEW e \in Lowerings
        PROVE  /\ lower'[e].pc = "append" => \E c \in Calls : AboutOf[c] = lower'[e].key[1]
                     /\ Rank(UrgencyOf[c]) <= Rank(lower'[e].to) + 1 + lowered'[lower'[e].key]
               /\ lower'[e].pc = "write" => \E c \in Calls : AboutOf[c] = lower'[e].key[1]
                     /\ Rank(UrgencyOf[c]) <= Rank(lower'[e].to) + lowered'[lower'[e].key]
    <3>1. CASE e = d
      <4>1. PICK c \in Calls : AboutOf[c] = k[1] /\ Rank(UrgencyOf[c]) <= Rank(lower[d].to) + 1 + lowered[k]
        BY <2>1 DEF StepIsCharged
      <4>2. Rank(UrgencyOf[c]) <= Rank(lower'[d].to) + lowered'[k]
        BY <1>0, <2>1, <2>2, <4>1, RankIsNat
      <4> QED BY <2>1, <3>1, <4>1, <4>2
    <3>2. CASE e # d
      <4>1. ASSUME lower[e].pc = "append"
            PROVE  \E c \in Calls : AboutOf[c] = lower[e].key[1]
                     /\ Rank(UrgencyOf[c]) <= Rank(lower[e].to) + 1 + lowered'[lower[e].key]
        <5>1. PICK c \in Calls : AboutOf[c] = lower[e].key[1]
                     /\ Rank(UrgencyOf[c]) <= Rank(lower[e].to) + 1 + lowered[lower[e].key]
          BY <4>1 DEF StepIsCharged
        <5>2. Rank(UrgencyOf[c]) <= Rank(lower[e].to) + 1 + lowered'[lower[e].key]
          BY <1>0, <2>2, <5>1, RankIsNat
        <5> QED BY <5>1, <5>2
      <4>2. ASSUME lower[e].pc = "write"
            PROVE  \E c \in Calls : AboutOf[c] = lower[e].key[1]
                     /\ Rank(UrgencyOf[c]) <= Rank(lower[e].to) + lowered'[lower[e].key]
        <5>1. PICK c \in Calls : AboutOf[c] = lower[e].key[1]
                     /\ Rank(UrgencyOf[c]) <= Rank(lower[e].to) + lowered[lower[e].key]
          BY <4>2 DEF StepIsCharged
        <5>2. Rank(UrgencyOf[c]) <= Rank(lower[e].to) + lowered'[lower[e].key]
          BY <1>0, <2>2, <5>1, RankIsNat
        <5> QED BY <5>1, <5>2
      <4>3. lower'[e] = lower[e]
        BY <2>1, <3>2
      <4> QED BY <4>1, <4>2, <4>3
    <3> QED BY <3>1, <3>2
  <2> QED BY <2>3, <2>4 DEF StepIsCharged
<1>5. ASSUME NEW d \in Lowerings, WriteLowered(d) PROVE Lowering'
  <2> DEFINE k == lower[d].key
  <2>1. /\ UNCHANGED lowered /\ claim' = [claim EXCEPT ![k] = lower[d].to]
        /\ \A e \in Lowerings : e # d => lower'[e] = lower[e]
        /\ lower[d].pc = "write" /\ lower'[d].pc = "over"
    BY <1>5, LowerMoves DEF WriteLowered
  <2>2. PICK c \in Calls : AboutOf[c] = k[1] /\ Rank(UrgencyOf[c]) <= Rank(lower[d].to) + lowered[k]
    BY <2>1 DEF StepIsCharged
  <2>3. \A m \in Keys : claim'[m] = IF m = k THEN lower[d].to ELSE claim[m]
    BY <2>1 DEF IntTyped
  <2>4. LoweringIsCharged'
    BY <2>1, <2>2, <2>3 DEF LoweringIsCharged
  <2>5. StepIsCharged'
    BY <2>1 DEF StepIsCharged
  <2> QED BY <2>4, <2>5
<1>6. CASE IntCrash
  <2>1. UNCHANGED <<claim, lowered>> /\ \A d \in Lowerings : lower'[d].pc \in {"none", "over"}
    BY <1>6, ThroughIsOver DEF IntCrash
  <2> QED BY <2>1 DEF StepIsCharged, LoweringIsCharged
<1> QED BY <1>1, <1>2, <1>3, <1>4, <1>5, <1>6
        DEF IntNext, intVars, Midnight, StartRaising, RaisingEnds, ReadBudget, AppendRaised

\* The calls of a raiser, and those of them that have been let through and not charged yet.
CallsOf(r) == {c \in Calls : RaiserOf[AboutOf[c]] = r}
LetThrough(r) == {c \in CallsOf(r) : raise[c].pc \in {"insert", "append"} /\ Cost(UrgencyOf[c]) = 1}

\* The downgrades that can have been charged, and the claims of a raiser that have been.
Lowered == {d \in Lowerings : lower[d].pc \in {"write", "over"}}
ToldOf(r) == {k \in raised : RaiserOf[k[1]] = r}

\* What is charged and what is let through stay within a day's limit and one claim for each other
\* call; nothing is let through without a limit.
BudgetInv == \A r \in Raisers :
    /\ spent[r] + Cardinality(LetThrough(r)) <= Limit + Cardinality(CallsOf(r)) - 1 + Cardinality(Lowered)
    /\ LetThrough(r) # {} => Limit > 0

\* On the first day the events charge no more than they tell.
ChargeInv == days = 0 => \A r \in Raisers :
    spent[r] <= Cardinality(ToldOf(r)) + Cardinality(Lowered)

Paying == BudgetInv /\ ChargeInv

\* The sets that are counted are finite, and a raiser has a call.
LEMMA Counted ==
    ASSUME IntTyped, NEW r \in Raisers
    PROVE  /\ IsFiniteSet(CallsOf(r)) /\ Cardinality(CallsOf(r)) \in Nat \ {0}
           /\ IsFiniteSet(LetThrough(r)) /\ Cardinality(LetThrough(r)) \in Nat
           /\ Cardinality(LetThrough(r)) <= Cardinality(CallsOf(r))
           /\ IsFiniteSet(Lowered) /\ Cardinality(Lowered) \in Nat
           /\ IsFiniteSet(ToldOf(r)) /\ Cardinality(ToldOf(r)) \in Nat
<1>1. CallsOf(r) \subseteq Calls /\ CallsOf(r) # {} /\ LetThrough(r) \subseteq CallsOf(r)
      /\ Lowered \subseteq Lowerings /\ ToldOf(r) \subseteq Abouts \X Humans
  BY RaisersAssumption DEF CallsOf, LetThrough, Lowered, ToldOf, IntTyped, Keys
<1>2. IsFiniteSet(CallsOf(r)) /\ IsFiniteSet(Lowered) /\ IsFiniteSet(ToldOf(r))
  BY <1>1, FiniteAssumption, FS_Subset
<1>3. IsFiniteSet(LetThrough(r)) /\ Cardinality(LetThrough(r)) <= Cardinality(CallsOf(r))
  BY <1>1, <1>2, FS_Subset
<1>4. Cardinality(CallsOf(r)) # 0
  BY <1>1, <1>2, FS_EmptySet
<1> QED BY <1>2, <1>3, <1>4, FS_CardinalityType

\* Fewer let through and as much spent, or nothing spent, is within the budget too.
LEMMA BudgetKept ==
    ASSUME IntTyped, IntTyped', BudgetInv, NEW r \in Raisers,
           spent'[r] = spent[r] \/ spent'[r] = 0,
           LetThrough(r)' \subseteq LetThrough(r), Lowered \subseteq Lowered'
    PROVE  /\ spent'[r] + Cardinality(LetThrough(r)') <= Limit + Cardinality(CallsOf(r)) - 1 + Cardinality(Lowered')
           /\ LetThrough(r)' # {} => Limit > 0
<1>1. Lowered' \subseteq Lowerings
  BY DEF Lowered
<1>2. IsFiniteSet(Lowered') /\ Cardinality(Lowered') \in Nat
  BY <1>1, FiniteAssumption, FS_Subset, FS_CardinalityType
<1>3. Cardinality(Lowered) <= Cardinality(Lowered')
  BY <1>2, FS_Subset
<1>4. IsFiniteSet(LetThrough(r)') /\ Cardinality(LetThrough(r)') <= Cardinality(LetThrough(r))
      /\ Cardinality(LetThrough(r)') \in Nat
  BY Counted, FS_Subset, FS_CardinalityType
<1>5. spent[r] \in Nat /\ spent'[r] \in Nat /\ Limit \in Nat
  BY IntBoundsAssumption DEF IntTyped
<1>6. spent[r] + Cardinality(LetThrough(r)) <= Limit + Cardinality(CallsOf(r)) - 1 + Cardinality(Lowered)
      /\ (LetThrough(r) # {} => Limit > 0)
  BY DEF BudgetInv
<1>7. spent'[r] + Cardinality(LetThrough(r)') <= Limit + Cardinality(CallsOf(r)) - 1 + Cardinality(Lowered')
  <2> DEFINE a == Cardinality(LetThrough(r)) b == Cardinality(LetThrough(r)') n == Cardinality(CallsOf(r))
             v == Cardinality(Lowered) w == Cardinality(Lowered')
  <2>1. a \in Nat /\ b \in Nat /\ n \in Nat /\ v \in Nat /\ w \in Nat /\ b <= a /\ v <= w
    BY <1>2, <1>3, <1>4, Counted
  <2>2. spent[r] + a <= Limit + n - 1 + v
    BY <1>6
  <2> HIDE DEF a, b, n, v, w
  <2>3. spent'[r] + b <= Limit + n - 1 + w
    BY <1>5, <2>1, <2>2
  <2> QED BY <2>3 DEF b, n, w
<1> QED BY <1>6, <1>7

\* No step charges beyond what is let through.
LEMMA BudgetStep == IntTyped /\ BudgetInv /\ [IntNext]_intVars => BudgetInv'
<1> SUFFICES ASSUME IntTyped, IntTyped', BudgetInv, [IntNext]_intVars, NEW r \in Raisers
             PROVE  /\ spent'[r] + Cardinality(LetThrough(r)') <= Limit + Cardinality(CallsOf(r)) - 1 + Cardinality(Lowered')
                    /\ LetThrough(r)' # {} => Limit > 0
  BY IntTypeStep DEF BudgetInv, CallsOf
<1> DEFINE Goal == /\ spent'[r] + Cardinality(LetThrough(r)') <= Limit + Cardinality(CallsOf(r)) - 1 + Cardinality(Lowered')
                   /\ LetThrough(r)' # {} => Limit > 0
<1>1. ASSUME NEW c \in Calls, StartRaising(c) \/ RaisingEnds(c) \/ InsertClaim(c) PROVE Goal
  <2>1. UNCHANGED <<spent, lower>>
    BY <1>1 DEF StartRaising, RaisingEnds, InsertClaim
  <2>2. \A u \in Calls : raise'[u].pc \in {"insert", "append"} => raise[u].pc \in {"insert", "append"}
    BY <1>1, CallStep
  <2>3. LetThrough(r)' \subseteq LetThrough(r) /\ Lowered' = Lowered
    BY <2>1, <2>2 DEF LetThrough, CallsOf, Lowered
  <2> QED BY <2>1, <2>3, BudgetKept
<1>2. ASSUME NEW c \in Calls, ReadBudget(c) PROVE Goal
  <2>1. UNCHANGED <<spent, lower>> /\ Lowered' = Lowered
    BY <1>2 DEF ReadBudget, Lowered
  <2>2. \A u \in Calls : u # c => raise'[u] = raise[u]
    BY <1>2, CallStep
  <2>3. CASE LetThrough(r)' \subseteq LetThrough(r)
    BY <2>1, <2>3, BudgetKept
  <2>4. CASE ~(LetThrough(r)' \subseteq LetThrough(r))
    <3>1. /\ raise'[c].pc = "insert" /\ c \in CallsOf(r) /\ Cost(UrgencyOf[c]) = 1
          /\ LetThrough(r)' \subseteq CallsOf(r)
      BY <1>2, <2>2, <2>4, CallStep DEF LetThrough, CallsOf
    <3>2. Affords(c) /\ RaiserOf[AboutOf[c]] = r
      BY <1>2, <3>1, CallStep DEF CallsOf
    <3>3. spent[r] \in Nat /\ Limit \in Nat
      BY IntBoundsAssumption DEF IntTyped
    <3>4. spent[r] + 1 <= Limit
      BY <3>1, <3>2, <3>3 DEF Affords
    <3>5. IsFiniteSet(LetThrough(r)') /\ Cardinality(LetThrough(r)') <= Cardinality(CallsOf(r))
          /\ Cardinality(LetThrough(r)') \in Nat
      BY <3>1, Counted, FS_Subset, FS_CardinalityType
    <3>6. Cardinality(CallsOf(r)) \in Nat /\ Cardinality(Lowered) \in Nat
      BY Counted
    <3>7. spent'[r] = spent[r] /\ Cardinality(Lowered') = Cardinality(Lowered)
      BY <2>1
    <3> QED BY <3>3, <3>4, <3>5, <3>6, <3>7
  <2> QED BY <2>3, <2>4
<1>3. ASSUME NEW c \in Calls, AppendRaised(c) PROVE Goal
  <2>1. /\ raise[c].pc = "append" /\ raise'[c].pc = "next" /\ \A u \in Calls : u # c => raise'[u] = raise[u]
        /\ UNCHANGED lower /\ Lowered' = Lowered
    BY <1>3, CallStep DEF AppendRaised, Lowered
  <2>2. spent' = [spent EXCEPT ![RaiserOf[AboutOf[c]]] = spent[RaiserOf[AboutOf[c]]] + Cost(UrgencyOf[c])]
    BY <1>3 DEF AppendRaised
  <2>3. LetThrough(r)' = LetThrough(r) \ {c}
    BY <2>1 DEF LetThrough, CallsOf
  <2>4. CASE c \in LetThrough(r)
    <3>1. spent'[r] = spent[r] + 1 /\ spent[r] \in Nat
      BY <2>2, <2>4 DEF LetThrough, CallsOf, IntTyped
    <3>2. Cardinality(LetThrough(r)') = Cardinality(LetThrough(r)) - 1 /\ Cardinality(LetThrough(r)) \in Nat
      BY <2>3, <2>4, Counted, FS_RemoveElement
    <3>3. /\ spent[r] + Cardinality(LetThrough(r)) <= Limit + Cardinality(CallsOf(r)) - 1 + Cardinality(Lowered)
          /\ LetThrough(r) # {} => Limit > 0
      BY DEF BudgetInv
    <3>4. Cardinality(Lowered') = Cardinality(Lowered)
      BY <2>1
    <3> QED BY <2>3, <2>4, <3>1, <3>2, <3>3, <3>4
  <2>5. CASE c \notin LetThrough(r)
    <3>1. spent'[r] = spent[r]
      BY <2>1, <2>2, <2>5 DEF LetThrough, CallsOf, IntTyped, Cost
    <3> QED BY <2>1, <2>3, <3>1, BudgetKept
  <2> QED BY <2>4, <2>5
<1>4. ASSUME NEW d \in Lowerings, AppendLowered(d) PROVE Goal
  <2> DEFINE k == lower[d].key
  <2>1. /\ lower[d].pc = "append" /\ lower'[d].pc = "write" /\ \A e \in Lowerings : e # d => lower'[e] = lower[e]
        /\ UNCHANGED raise /\ spent' = [spent EXCEPT ![RaiserOf[k[1]]] = spent[RaiserOf[k[1]]] + 1]
    BY <1>4, LowerMoves DEF AppendLowered
  <2>2. d \notin Lowered /\ Lowered' = Lowered \cup {d}
    BY <2>1 DEF Lowered
  <2>3. Cardinality(Lowered') = Cardinality(Lowered) + 1
    BY <2>2, Counted, FS_AddElement
  <2>4. spent'[r] \in {spent[r], spent[r] + 1} /\ spent[r] \in Nat
    BY <2>1 DEF IntTyped
  <2>5. LetThrough(r)' = LetThrough(r)
    BY <2>1 DEF LetThrough, CallsOf
  <2>6. /\ spent[r] + Cardinality(LetThrough(r)) <= Limit + Cardinality(CallsOf(r)) - 1 + Cardinality(Lowered)
        /\ LetThrough(r) # {} => Limit > 0
    BY DEF BudgetInv
  <2>7. Cardinality(LetThrough(r)) \in Nat /\ Cardinality(CallsOf(r)) \in Nat /\ Cardinality(Lowered) \in Nat
        /\ Limit \in Nat
    BY Counted, IntBoundsAssumption
  <2>8. Cardinality(LetThrough(r)') = Cardinality(LetThrough(r))
    BY <2>5
  <2> QED BY <2>3, <2>4, <2>5, <2>6, <2>7, <2>8
<1>5. ASSUME NEW d \in Lowerings, ReadClaim(d) \/ WriteLowered(d) PROVE Goal
  <2>1. UNCHANGED <<spent, raise>>
    BY <1>5 DEF ReadClaim, WriteLowered
  <2>2. (lower[d].pc \in {"write", "over"} => lower'[d].pc \in {"write", "over"})
        /\ \A e \in Lowerings : e # d => lower'[e] = lower[e]
    BY <1>5, LowerMoves
  <2>3. LetThrough(r)' = LetThrough(r) /\ Lowered \subseteq Lowered'
    BY <2>1, <2>2 DEF LetThrough, CallsOf, Lowered
  <2> QED BY <2>1, <2>3, BudgetKept
<1>6. CASE Midnight
  <2>1. spent'[r] = 0 /\ UNCHANGED <<raise, lower>>
    BY <1>6 DEF Midnight
  <2>2. LetThrough(r)' = LetThrough(r) /\ Lowered' = Lowered
    BY <2>1 DEF LetThrough, CallsOf, Lowered
  <2> QED BY <2>1, <2>2, BudgetKept
<1>7. CASE IntCrash
  <2>1. UNCHANGED spent /\ \A c \in Calls : raise'[c].pc \in {"none", "over"}
    BY <1>7 DEF IntCrash
  <2>2. \A d \in Lowerings : lower[d].pc \in {"write", "over"} => lower'[d].pc = "over"
    BY <1>7, ThroughIsOver DEF IntCrash
  <2>3. LetThrough(r)' \subseteq LetThrough(r) /\ Lowered \subseteq Lowered'
    BY <2>1, <2>2 DEF LetThrough, CallsOf, Lowered
  <2> QED BY <2>1, <2>3, BudgetKept
<1>8. CASE UNCHANGED intVars
  <2>1. UNCHANGED <<spent, raise, lower>>
    BY <1>8 DEF intVars
  <2>2. LetThrough(r)' = LetThrough(r) /\ Lowered' = Lowered
    BY <2>1 DEF LetThrough, CallsOf, Lowered
  <2> QED BY <2>1, <2>2, BudgetKept
<1> QED BY <1>1, <1>2, <1>3, <1>4, <1>5, <1>6, <1>7, <1>8 DEF IntNext

\* As many told and lowered and no more spent.
LEMMA ChargeKept ==
    ASSUME IntTyped, IntTyped', NEW r \in Raisers,
           spent[r] <= Cardinality(ToldOf(r)) + Cardinality(Lowered),
           spent'[r] = spent[r], ToldOf(r) \subseteq ToldOf(r)', Lowered \subseteq Lowered'
    PROVE  spent'[r] <= Cardinality(ToldOf(r)') + Cardinality(Lowered')
<1>1. Lowered' \subseteq Lowerings /\ ToldOf(r)' \subseteq Abouts \X Humans
  BY DEF Lowered, ToldOf, IntTyped, Keys
<1>2. /\ IsFiniteSet(Lowered') /\ Cardinality(Lowered') \in Nat
      /\ IsFiniteSet(ToldOf(r)') /\ Cardinality(ToldOf(r)') \in Nat
  BY <1>1, FiniteAssumption, FS_Subset, FS_CardinalityType
<1>3. Cardinality(Lowered) <= Cardinality(Lowered')
  BY <1>2, FS_Subset
<1>4. Cardinality(ToldOf(r)) <= Cardinality(ToldOf(r)')
  BY <1>2, FS_Subset
<1>5. Cardinality(ToldOf(r)) \in Nat /\ Cardinality(Lowered) \in Nat /\ spent[r] \in Nat
  BY Counted DEF IntTyped
<1> QED BY <1>2, <1>3, <1>4, <1>5

\* A claim is charged when it is told, and not again.
LEMMA ChargeStep == IntTyped /\ AppendIsFirst /\ ChargeInv /\ [IntNext]_intVars => ChargeInv'
<1> SUFFICES ASSUME IntTyped, IntTyped', AppendIsFirst, ChargeInv, [IntNext]_intVars, days' = 0, NEW r \in Raisers
             PROVE  spent'[r] <= Cardinality(ToldOf(r)') + Cardinality(Lowered')
  BY IntTypeStep DEF ChargeInv
<1> DEFINE Goal == spent'[r] <= Cardinality(ToldOf(r)') + Cardinality(Lowered')
<1>0. ~Midnight /\ days = 0
  <2>1. days \in Nat
    BY IntBoundsAssumption DEF IntTyped
  <2>2. ~Midnight
    BY <2>1 DEF Midnight
  <2>3. UNCHANGED days
    BY <2>2 DEF IntNext, intVars, StartRaising, ReadBudget, InsertClaim, AppendRaised, RaisingEnds,
                ReadClaim, AppendLowered, WriteLowered, IntCrash
  <2> QED BY <2>2, <2>3
<1>1. spent[r] <= Cardinality(ToldOf(r)) + Cardinality(Lowered)
  BY <1>0 DEF ChargeInv
<1>2. ASSUME NEW c \in Calls, AppendRaised(c) PROVE Goal
  <2> DEFINE k == Key(c)
  <2>1. raise[c].pc = "append" /\ raised' = raised \cup {k} /\ Lowered' = Lowered
        /\ spent' = [spent EXCEPT ![RaiserOf[AboutOf[c]]] = spent[RaiserOf[AboutOf[c]]] + Cost(UrgencyOf[c])]
    BY <1>2 DEF AppendRaised, Lowered
  <2>2. k \notin raised /\ k[1] = AboutOf[c]
    BY <2>1, KeyIsKey DEF AppendIsFirst
  <2>3. CASE RaiserOf[AboutOf[c]] = r
    <3>1. ToldOf(r)' = ToldOf(r) \cup {k} /\ k \notin ToldOf(r)
      BY <2>1, <2>2, <2>3 DEF ToldOf
    <3>2. Cardinality(ToldOf(r)') = Cardinality(ToldOf(r)) + 1
      BY <3>1, Counted, FS_AddElement
    <3>3. spent'[r] \in {spent[r], spent[r] + 1} /\ spent[r] \in Nat
      BY <2>1, <2>3 DEF IntTyped, Cost
    <3>4. Cardinality(Lowered') = Cardinality(Lowered) /\ Cardinality(Lowered) \in Nat
          /\ Cardinality(ToldOf(r)) \in Nat
      BY <2>1, Counted
    <3> QED BY <1>1, <3>2, <3>3, <3>4
  <2>4. CASE RaiserOf[AboutOf[c]] # r
    <3>1. spent'[r] = spent[r] /\ ToldOf(r) \subseteq ToldOf(r)'
      BY <2>1, <2>4 DEF IntTyped, ToldOf
    <3> QED BY <1>1, <2>1, <3>1, ChargeKept
  <2> QED BY <2>3, <2>4
<1>3. ASSUME NEW d \in Lowerings, AppendLowered(d) PROVE Goal
  <2> DEFINE k == lower[d].key
  <2>1. /\ lower[d].pc = "append" /\ lower'[d].pc = "write" /\ \A e \in Lowerings : e # d => lower'[e] = lower[e]
        /\ UNCHANGED raised /\ spent' = [spent EXCEPT ![RaiserOf[k[1]]] = spent[RaiserOf[k[1]]] + 1]
    BY <1>3, LowerMoves DEF AppendLowered
  <2>2. d \notin Lowered /\ Lowered' = Lowered \cup {d}
    BY <2>1 DEF Lowered
  <2>3. Cardinality(Lowered') = Cardinality(Lowered) + 1
    BY <2>2, Counted, FS_AddElement
  <2>4. spent'[r] \in {spent[r], spent[r] + 1} /\ spent[r] \in Nat
    BY <2>1 DEF IntTyped
  <2>5. ToldOf(r)' = ToldOf(r)
    BY <2>1 DEF ToldOf
  <2>6. Cardinality(ToldOf(r)') = Cardinality(ToldOf(r)) /\ Cardinality(ToldOf(r)) \in Nat
        /\ Cardinality(Lowered) \in Nat
    BY <2>5, Counted
  <2> QED BY <1>1, <2>3, <2>4, <2>6
<1>4. ASSUME NEW d \in Lowerings, ReadClaim(d) \/ WriteLowered(d) PROVE Goal
  <2>1. UNCHANGED <<spent, raised>>
    BY <1>4 DEF ReadClaim, WriteLowered
  <2>2. (lower[d].pc \in {"write", "over"} => lower'[d].pc \in {"write", "over"})
        /\ \A e \in Lowerings : e # d => lower'[e] = lower[e]
    BY <1>4, LowerMoves
  <2>3. ToldOf(r)' = ToldOf(r) /\ Lowered \subseteq Lowered'
    BY <2>1, <2>2 DEF ToldOf, Lowered
  <2> QED BY <1>1, <2>1, <2>3, ChargeKept
<1>5. CASE IntCrash
  <2>1. UNCHANGED <<spent, raised>>
    BY <1>5 DEF IntCrash
  <2>2. \A d \in Lowerings : lower[d].pc \in {"write", "over"} => lower'[d].pc = "over"
    BY <1>5, ThroughIsOver DEF IntCrash
  <2>3. ToldOf(r)' = ToldOf(r) /\ Lowered \subseteq Lowered'
    BY <2>1, <2>2 DEF ToldOf, Lowered
  <2> QED BY <1>1, <2>1, <2>3, ChargeKept
<1>6. CASE UNCHANGED <<spent, raised, lower>>
  <2>1. ToldOf(r)' = ToldOf(r) /\ Lowered' = Lowered
    BY <1>6 DEF ToldOf, Lowered
  <2> QED BY <1>1, <1>6, <2>1, ChargeKept
<1> QED BY <1>0, <1>2, <1>3, <1>4, <1>5, <1>6
        DEF IntNext, intVars, StartRaising, RaisingEnds, ReadBudget, InsertClaim

\* The invariant holds from the first state on.
LEMMA IntInvariant == IntSpec => [](IntTyped /\ Telling /\ Lowering /\ Paying)
<1>1. ASSUME IntInit PROVE Telling /\ Lowering /\ Paying
  <2>1. Telling
    BY <1>1 DEF IntInit, Telling, AppendIsFirst, LowersClaims, ClaimIsTold, AnswerIsClaim, Through
  <2>2. Lowering
    BY <1>1 DEF IntInit, Lowering, StepIsCharged, LoweringIsCharged, Through
  <2>3. \A r \in Raisers : LetThrough(r) = {} /\ Lowered = {} /\ ToldOf(r) = {} /\ spent[r] = 0
    BY <1>1 DEF IntInit, LetThrough, Lowered, ToldOf, CallsOf, Through
  <2>4. \A r \in Raisers : Cardinality(CallsOf(r)) \in Nat \ {0}
    <3>1. \A r \in Raisers : CallsOf(r) \subseteq Calls /\ CallsOf(r) # {}
      BY RaisersAssumption DEF CallsOf
    <3>2. ASSUME NEW r \in Raisers PROVE Cardinality(CallsOf(r)) \in Nat \ {0}
      <4>1. IsFiniteSet(CallsOf(r))
        BY <3>1, FiniteAssumption, FS_Subset
      <4> QED BY <3>1, <4>1, FS_EmptySet, FS_CardinalityType
    <3> QED BY <3>2
  <2>5. BudgetInv
    <3> SUFFICES ASSUME NEW r \in Raisers
                 PROVE  /\ spent[r] + Cardinality(LetThrough(r)) <= Limit + Cardinality(CallsOf(r)) - 1 + Cardinality(Lowered)
                        /\ LetThrough(r) # {} => Limit > 0
      BY DEF BudgetInv
    <3>1. LetThrough(r) = {} /\ Lowered = {} /\ spent[r] = 0
      BY <2>3
    <3>2. Cardinality(LetThrough(r)) = 0 /\ Cardinality(Lowered) = 0
      BY <3>1, FS_EmptySet
    <3>3. Cardinality(CallsOf(r)) \in Nat \ {0} /\ Limit \in Nat
      BY <2>4, IntBoundsAssumption
    <3> QED BY <3>1, <3>2, <3>3
  <2>6. ChargeInv
    BY <2>3, FS_EmptySet DEF ChargeInv
  <2> QED BY <2>1, <2>2, <2>5, <2>6 DEF Paying
<1>2. IntTyped /\ Telling /\ Paying /\ [IntNext]_intVars => Paying'
  BY BudgetStep, ChargeStep DEF Paying, Telling
<1> QED BY <1>1, <1>2, TellStep, LowerStep, IntTypes, PTL DEF IntSpec

\* For every number of calls, humans, downgrades, days and restarts: a claim has its event unless a
\* restart took it, an answer is about a claim that was told, the day's budget is overspent by one
\* claim at most for each other call, a claim is charged once, and every step down is charged.
THEOREM InterruptsHoldAlways == IntSpec => []InterruptsHold
<1>1. ASSUME IntTyped, Telling, Lowering, Paying PROVE InterruptsHold
  <2>1. BudgetHolds
    <3> SUFFICES ASSUME NEW r \in Raisers
                 PROVE  spent[r] <= Limit + Cardinality(CallsOf(r)) - 1 + Cardinality(Lowerings)
      BY DEF BudgetHolds, CallsOf
    <3>1. Lowered \subseteq Lowerings
      BY DEF Lowered
    <3>2. Cardinality(Lowered) <= Cardinality(Lowerings) /\ Cardinality(Lowerings) \in Nat
      BY <3>1, FiniteAssumption, FS_Subset, FS_CardinalityType
    <3>3. spent[r] + Cardinality(LetThrough(r)) <= Limit + Cardinality(CallsOf(r)) - 1 + Cardinality(Lowered)
      BY <1>1 DEF Paying, BudgetInv
    <3>4. /\ Cardinality(LetThrough(r)) \in Nat /\ Cardinality(CallsOf(r)) \in Nat /\ Cardinality(Lowered) \in Nat
          /\ Limit \in Nat /\ spent[r] \in Nat
      BY <1>1, Counted, IntBoundsAssumption DEF IntTyped
    <3> QED BY <3>2, <3>3, <3>4
  <2>2. ChargedOnce
    <3> SUFFICES ASSUME days = 0, NEW r \in Raisers
                 PROVE  spent[r] <= Cardinality({k \in Keys : RaiserOf[k[1]] = r /\ claim[k] # "none"})
                                      + Cardinality({d \in Lowerings : lower[d].pc \in {"write", "over"}})
      BY DEF ChargedOnce
    <3> DEFINE mine == {k \in Keys : RaiserOf[k[1]] = r /\ claim[k] # "none"}
    <3>1. ToldOf(r) \subseteq mine
      BY <1>1 DEF ToldOf, Telling, ClaimIsTold, IntTyped
    <3>2. mine \subseteq Abouts \X Humans
      BY DEF Keys
    <3> HIDE DEF mine
    <3>3. IsFiniteSet(mine) /\ Cardinality(mine) \in Nat
      BY <3>2, FiniteAssumption, FS_Subset, FS_CardinalityType
    <3>4. Cardinality(ToldOf(r)) <= Cardinality(mine)
      BY <3>1, <3>3, FS_Subset
    <3>5. spent[r] <= Cardinality(ToldOf(r)) + Cardinality(Lowered)
      BY <1>1 DEF Paying, ChargeInv
    <3>6. Cardinality(ToldOf(r)) \in Nat /\ Cardinality(Lowered) \in Nat /\ spent[r] \in Nat
      BY <1>1, Counted DEF IntTyped
    <3>7. spent[r] <= Cardinality(mine) + Cardinality(Lowered)
      BY <3>3, <3>4, <3>5, <3>6
    <3> QED BY <3>7 DEF mine, Lowered
  <2>3. LoweringIsCharged /\ ClaimIsTold /\ AnswerIsClaim
    BY <1>1 DEF Lowering, Telling
  <2> QED BY <2>1, <2>2, <2>3 DEF InterruptsHold, ToldOnce, PaidOnce
<1> QED BY <1>1, IntInvariant, PTL

-----------------------------------------------------------------------------
(* Standing orders. *)

OrderRows == [status : Statuses \cup {"none"}, cycles : Nat, unattended : Nat, open : Nat, terms : Terms]
TurnRecords == [pc : {"none", "queued", "over", "failed"} \cup Streaming \cup Stopping \cup Walking,
                member : Members, order : Orders \cup {NoOrder}, trigger : Nat,
                done : Nat, todo : SUBSET Orders, cur : Orders \cup {NoOrder},
                want : Statuses, back : {"over", "next", "running"}, terms : Terms]
CtlRecords == [pc : {"none", "append", "write", "over"},
               op : {"create", "edit"} \cup Statuses, order : Orders, terms : Terms]

\* A turn that is counted has an order; one that stops or claims an order is at one.
AtAnOrder(r) ==
    /\ r.pc \in {"started", "counting", "cycled"} => r.order \in Orders
    /\ r.pc \in Stopping \cup {"claim", "summon"} => r.cur \in Orders
    /\ r.pc \in Stopping => r.want # "ACTIVE"
    /\ r.pc = "cycled" \/ (r.pc \in Stopping /\ r.back = "running") => r.order \in Orders /\ r.cur = r.order
    /\ r.pc = "cycled" => r.back = "running"

OrderTyped ==
    /\ row \in [Orders -> OrderRows]
    /\ hist \in [Orders -> Seq(Statuses \cup {"edit"})]
    /\ cycled \in [Orders -> SUBSET Nat]
    /\ turn \in [Turns -> TurnRecords] /\ ctl \in [Controls -> CtlRecords]
    /\ inFlight \subseteq Members /\ trailing \subseteq Turns /\ crowded \in [Orders -> Nat]
    /\ seq \in Nat /\ faults \in 0..MaxFaults
    /\ \A t \in Turns : AtAnOrder(turn[t])
    /\ \A c \in Controls : ctl[c].pc = "append" => ctl[c].op # "create"

Said(o) == {hist[o][i] : i \in DOMAIN hist[o]}

\* What a writer goes on to do to an order is said of it, and it is done to orders that are there.
RowsBacked == \A o \in Orders :
    IF Live(o) THEN row[o].status \in Said(o)
    ELSE row[o].cycles = 0 /\ row[o].unattended = 0 /\ row[o].open = 0
TurnBacked(r) ==
    /\ r.pc # "none" /\ r.order # NoOrder => Live(r.order) /\ r.member = ActOf[r.order]
    /\ r.pc \in Stopping \cup {"claim", "summon"} => Live(r.cur)
    /\ r.pc = "stopped" => r.want \in Said(r.cur)
    /\ \A o \in r.todo : Live(o)
CtlBacked(r) ==
    /\ r.pc = "append" => Live(r.order)
    /\ r.pc = "write" => /\ (IF r.op = "create" THEN "ACTIVE" ELSE r.op) \in Said(r.order)
                         /\ r.op = "create" <=> ~Live(r.order)
Creating(c) == ctl[c].pc = "write" /\ ctl[c].op = "create"
Backed ==
    /\ RowsBacked
    /\ \A t \in Turns : TurnBacked(turn[t])
    /\ \A c \in Controls : CtlBacked(ctl[c])
    /\ \A c, d \in Controls : Creating(c) /\ Creating(d) /\ ctl[c].order = ctl[d].order => c = d

\* A trigger makes one turn of an order, and is logged when that turn has been counted.
OfOrder(t) == turn[t].pc # "none" /\ turn[t].order # NoOrder
Uncounted == {"none", "queued", "started", "counting", "cycled"}
OnePerTrigger == \A t, u \in Turns :
    OfOrder(t) /\ OfOrder(u) /\ turn[t].member = turn[u].member /\ turn[t].trigger = turn[u].trigger => t = u
LogIsTurns == \A o \in Orders : \A n \in cycled[o] :
    \E t \in Turns : turn[t].order = o /\ turn[t].trigger = n /\ turn[t].pc \notin Uncounted

\* Terms: as read, if nobody has edited since.
EditIsSaid == \A c \in Controls : ctl[c].pc = "write" /\ ctl[c].op = "edit" => Says(ctl[c].order, "edit") > 0
TermsAreRead == \A t \in Turns :
    turn[t].pc = "counting" /\ Unedited(turn[t].order) => turn[t].terms = row[turn[t].order].terms

Resuming(o) == {c \in Controls : ctl[c].pc = "write" /\ ctl[c].op = "ACTIVE" /\ ctl[c].order = o}
OnItsWay(t, o) == Handling(t, o) /\ turn[t].want # "ACTIVE"
Spent(o) == row[o].terms.cap # NoCap /\ row[o].cycles >= row[o].terms.cap
\* An order that is ACTIVE with no turn on its way to stop it at its cap, or at its dial.
Open(o) == row[o].status = "ACTIVE" /\ ~\E t \in Turns : OnItsWay(t, o) /\ turn[t].want = "LIMIT_REACHED"
Loose(o) == row[o].status = "ACTIVE" /\ row[o].unattended >= row[o].terms.dial /\ ~\E t \in Turns : OnItsWay(t, o)

\* A resume on its way pays for a cycle past the cap, as one that was made has paid; a count
\* made beside a turn on its way pays for itself.
CapInv == \A o \in Orders : Unedited(o) =>
    /\ Cardinality(Resuming(o)) <= Says(o, "ACTIVE")
    /\ Spent(o) => row[o].cycles + Cardinality(Resuming(o)) + (IF Open(o) THEN 1 ELSE 0)
                     <= row[o].terms.cap + faults + Says(o, "ACTIVE") + crowded[o]
    /\ Spent(o) /\ Open(o) => faults > 0 \/ Says(o, "ACTIVE") > Cardinality(Resuming(o))
DialInv == \A o \in Orders : Unedited(o) =>
    row[o].unattended + (IF Loose(o) THEN 1 ELSE 0) <= row[o].terms.dial + faults + crowded[o]

\* The type invariant of the standing orders follows from the typing with the record sets named.
LEMMA OrderTyping == OrderTyped => OrderTypeOK
BY DEF OrderTyped, OrderTypeOK, OrderRows, TurnRecords, CtlRecords

\* The default terms are terms a creator may set.
LEMMA DefaultIsTerms == Default \in Terms
BY TermsAssumption, Zenon DEF Default

\* A command that is through.
LEMMA DoneIsCtl == Done \in CtlRecords /\ Done.pc = "over" /\ Done.op = "create"
<1> DEFINE some == CHOOSE o \in Orders : TRUE
<1>1. some \in Orders
  BY OrdersAssumption, Zenon
<1>2. Done = [pc |-> "over", op |-> "create", order |-> some, terms |-> Default]
  BY DEF Done
<1> HIDE DEF some
<1> QED BY <1>1, <1>2, DefaultIsTerms DEF CtlRecords

\* Where a turn is put, and what that leaves of its record.
Places == {"none", "queued", "over", "failed"} \cup Streaming \cup Stopping \cup Walking
\* A turn is put at a place: it keeps what it is of, and what it carries unless it is over.
LEMMA PutTyping ==
    ASSUME NEW r \in TurnRecords, NEW place \in Places
    PROVE  /\ Put(r, place) \in TurnRecords /\ Put(r, place).pc = place
           /\ Put(r, place).member = r.member /\ Put(r, place).order = r.order /\ Put(r, place).trigger = r.trigger
           /\ place # "over" => Put(r, place) = [r EXCEPT !.pc = place]
           /\ place # "over" => /\ Put(r, place).cur = r.cur /\ Put(r, place).want = r.want
                                /\ Put(r, place).back = r.back /\ Put(r, place).todo = r.todo
                                /\ Put(r, place).done = r.done /\ Put(r, place).terms = r.terms
           /\ place = "over" => Put(r, place).todo = {} /\ Put(r, place).cur = NoOrder
BY DefaultIsTerms DEF Put, TurnRecords, Places, Statuses, Terminal

\* A turn put on its way to stop an order.
StopRecord(r, o, status, back) ==
    [r EXCEPT !.pc = "stop", !.cur = o, !.want = status, !.back = back, !.todo = @ \ {o}]
\* It is at the order it stops, and knows where to come back to.
LEMMA StopTyping ==
    ASSUME NEW r \in TurnRecords, NEW o \in Orders, NEW status \in Statuses, NEW back \in {"over", "next", "running"}
    PROVE  LET s == StopRecord(r, o, status, back) IN
           /\ s \in TurnRecords /\ s.pc = "stop" /\ s.cur = o /\ s.want = status /\ s.back = back
           /\ s.todo = r.todo \ {o} /\ s.member = r.member /\ s.order = r.order /\ s.trigger = r.trigger
BY DEF StopRecord, TurnRecords, Stopping

\* A free turn is the next to be used.
LEMMA FreeIsTurn == Free # {} => Min(Free) \in Turns /\ turn[Min(Free)].pc = "none"
<1>1. Free \subseteq Nat
  BY DEF Free, Turns
<1> QED BY <1>1, FirstOfNumbers DEF Free

\* A new turn is queued with the member, the order and the trigger it is made for.
LEMMA NewTyping ==
    ASSUME OrderTyped, Free # {}, NEW m \in Members, NEW o \in Orders \cup {NoOrder}, NEW trigger \in Nat
    PROVE  LET s == New(m, o, trigger) IN
           /\ s \in TurnRecords /\ s.pc = "queued" /\ s.member = m /\ s.order = o /\ s.trigger = trigger
           /\ s.todo = turn[Min(Free)].todo
<1>1. Min(Free) \in Turns
  BY FreeIsTurn
<1>2. turn[Min(Free)] \in TurnRecords
  BY <1>1 DEF OrderTyped
<1> DEFINE r == turn[Min(Free)]
<1>3. New(m, o, trigger) = [r EXCEPT !.pc = "queued", !.member = m, !.order = o, !.trigger = trigger]
  BY DEF New
<1> HIDE DEF r
<1>4. r \in TurnRecords
  BY <1>2 DEF r
<1> QED BY <1>3, <1>4 DEF TurnRecords, r

\* One of the first orders is an order that is there.
LEMMA FirstOrder == ASSUME NEW todo \in SUBSET Orders, todo # {} PROVE Min(todo) \in todo /\ Min(todo) \in Orders
BY OrdersAssumption, FirstOfNumbers

\* A turn's record holds its member's slot; is on its way to stop the order it counted for.
Slot(r) == r.pc \in Streaming \/ (r.pc \in Stopping /\ r.back = "running")
OnWay(r) == r.back = "running" /\ r.want # "ACTIVE" /\ r.pc \in {"cycled", "stop", "stopping", "stopped"}

\* What every step of a turn keeps of its record, whatever the step.
Steps(r, s) ==
    /\ s \in TurnRecords /\ AtAnOrder(s) /\ r.pc # "none" /\ s.pc # "none"
    /\ s.member = r.member /\ s.order = r.order /\ s.trigger = r.trigger
    /\ r.pc \notin Uncounted => s.pc \notin Uncounted
    /\ s.todo \subseteq r.todo \/ r.pc = "list"
    /\ Slot(s) => Slot(r) \/ r.pc = "queued"
    /\ s.pc = "cycled" => r.pc = "counting"
    /\ s.pc = "counting" => r.pc = "started"
    /\ s.pc = "stopping" => r.pc = "stop" /\ s.cur = r.cur
    /\ s.pc = "stopped" => r.pc = "stopping" /\ s.cur = r.cur /\ s.want = r.want
    /\ s.pc \in Stopping \cup {"claim", "summon"} =>
          \/ r.pc \in Stopping \cup {"claim"} /\ s.cur = r.cur
          \/ s.cur \in r.todo
          \/ s.cur = r.order

Moves(t, s) == turn' = [turn EXCEPT ![t] = s]

\* A step of Turn moves the record of one turn.
LEMMA PutMoves ==
    ASSUME OrderTyped, NEW t \in Turns, NEW from, NEW to \in Places, Turn(t, from, to)
    PROVE  turn[t].pc = from /\ Moves(t, Put(turn[t], to)) /\ turn[t] \in TurnRecords /\ AtAnOrder(turn[t])
BY DEF Turn, Moves, OrderTyped

\* Steps that put a turn at its next place.
LEMMA PutGoes ==
    ASSUME OrderTyped, NEW t \in Turns
    PROVE  /\ Admit(t) => \E to \in {"running", "started"} :
                 Moves(t, Put(turn[t], to)) /\ Steps(turn[t], Put(turn[t], to)) /\ turn[t].pc = "queued"
           /\ Refuse(t) => Moves(t, Put(turn[t], "over")) /\ Steps(turn[t], Put(turn[t], "over")) /\ turn[t].pc = "queued"
           /\ AppendCycled(t) => \E to \in {"running", "stop"} :
                 /\ Moves(t, Put(turn[t], to)) /\ Steps(turn[t], Put(turn[t], to)) /\ turn[t].pc = "cycled"
                 /\ to = "stop" <=> turn[t].want # "ACTIVE"
           /\ ReadForStop(t) => \E to \in {"stopping", turn[t].back} :
                 /\ Moves(t, Put(turn[t], to)) /\ Steps(turn[t], Put(turn[t], to)) /\ turn[t].pc = "stop"
                 /\ to = "stopping" <=> row[turn[t].cur].status = "ACTIVE"
           /\ AppendStop(t) => Moves(t, Put(turn[t], "stopped")) /\ Steps(turn[t], Put(turn[t], "stopped")) /\ turn[t].pc = "stopping"
           /\ WriteStop(t) => Moves(t, Put(turn[t], "telling")) /\ Steps(turn[t], Put(turn[t], "telling")) /\ turn[t].pc = "stopped"
           /\ TellStopped(t) => Moves(t, Put(turn[t], turn[t].back)) /\ Steps(turn[t], Put(turn[t], turn[t].back)) /\ turn[t].pc = "telling"
           /\ ClaimTrigger(t) => \E to \in {"summon", "next"} :
                 /\ Moves(t, Put(turn[t], to)) /\ Steps(turn[t], Put(turn[t], to)) /\ turn[t].pc = "claim"
                 /\ to = "summon" <=> NewTrigger(turn[t].cur, turn[t].done)
           /\ Walked(t) => Moves(t, Put(turn[t], "over")) /\ Steps(turn[t], Put(turn[t], "over")) /\ turn[t].pc = "next"
<1> DEFINE r == turn[t]
<1>0. r \in TurnRecords /\ AtAnOrder(r) /\ r.back \in {"over", "next", "running"} /\ r.back \in Places
  BY DEF OrderTyped, TurnRecords, Places, Streaming, Walking
<1> HIDE DEF r
<1>1. ASSUME NEW from \in Places, NEW to \in Places, Turn(t, from, to)
      PROVE  r.pc = from /\ Moves(t, Put(r, to)) /\ r \in TurnRecords /\ AtAnOrder(r)
  BY <1>1, PutMoves DEF r
<1>2. ASSUME NEW to \in Places, r.pc # "none", to # "none",
             r.pc \notin Uncounted => to \notin Uncounted,
             to \in Streaming \cup Stopping => Slot(r) \/ r.pc = "queued" \/ (r.pc \in Stopping /\ to \in Stopping),
             to \notin {"counting", "cycled"}, to = "started" => r.order # NoOrder,
             to = "stopped" => r.pc = "stopping", to = "stopping" => r.pc = "stop",
             to \in Stopping \cup {"claim", "summon"} => r.pc \in Stopping \cup {"claim"} \/ r.pc = "cycled",
             to \in Stopping => r.want # "ACTIVE" /\ r.pc # "claim"
      PROVE  Steps(r, Put(r, to))
  <2> DEFINE s == Put(r, to)
  <2>1. /\ s \in TurnRecords /\ s.pc = to /\ s.member = r.member /\ s.order = r.order /\ s.trigger = r.trigger
        /\ to # "over" => s.cur = r.cur /\ s.want = r.want /\ s.back = r.back /\ s.todo = r.todo
        /\ to = "over" => s.todo = {} /\ s.cur = NoOrder
    BY <1>0, <1>2, PutTyping
  <2> HIDE DEF s
  <2>2. r.order \in Orders \cup {NoOrder} /\ r.todo \subseteq Orders
    BY <1>0 DEF TurnRecords
  <2>3. AtAnOrder(s)
    BY <1>0, <1>2, <2>1, <2>2 DEF AtAnOrder, Streaming, Stopping
  <2>4. s.todo \subseteq r.todo
    BY <2>1
  <2>5. Slot(s) => Slot(r) \/ r.pc = "queued"
    BY <1>2, <2>1 DEF Slot, Streaming, Stopping
  <2>6. s.pc \in Stopping \cup {"claim", "summon"} =>
          (r.pc \in Stopping \cup {"claim"} /\ s.cur = r.cur) \/ s.cur = r.order
    BY <1>0, <1>2, <2>1 DEF AtAnOrder, Stopping
  <2> QED BY <1>2, <2>1, <2>3, <2>4, <2>5, <2>6 DEF Steps, s, Stopping
<1>3. ASSUME Admit(t) PROVE \E to \in {"running", "started"} : Moves(t, Put(r, to)) /\ Steps(r, Put(r, to)) /\ r.pc = "queued"
  <2>1. PICK to \in {"running", "started"} : Turn(t, "queued", to) /\ (to = "started" => r.order # NoOrder)
    BY <1>3 DEF Admit, r
  <2> QED BY <1>1, <1>2, <2>1 DEF Uncounted, Streaming, Stopping, Places
<1>4. ASSUME Refuse(t) PROVE Moves(t, Put(r, "over")) /\ Steps(r, Put(r, "over")) /\ r.pc = "queued"
  BY <1>1, <1>2, <1>4 DEF Refuse, Uncounted, Streaming, Stopping, Places
<1>5. ASSUME AppendCycled(t)
      PROVE \E to \in {"running", "stop"} : Moves(t, Put(r, to)) /\ Steps(r, Put(r, to)) /\ r.pc = "cycled"
              /\ (to = "stop" <=> r.want # "ACTIVE")
  <2>1. PICK to \in {"running", "stop"} : Turn(t, "cycled", to) /\ (to = "stop" <=> r.want # "ACTIVE")
    BY <1>5 DEF AppendCycled, r
  <2>2. r.pc = "cycled" /\ Moves(t, Put(r, to)) /\ Slot(r)
    BY <1>1, <2>1 DEF Streaming, Stopping, Places, Slot
  <2> QED BY <1>2, <2>1, <2>2 DEF Uncounted, Streaming, Stopping, Places
<1>6. ASSUME ReadForStop(t)
      PROVE \E to \in {"stopping", r.back} : Moves(t, Put(r, to)) /\ Steps(r, Put(r, to)) /\ r.pc = "stop"
              /\ (to = "stopping" <=> row[r.cur].status = "ACTIVE")
  <2>1. PICK to \in {"stopping", r.back} : Turn(t, "stop", to) /\ (to = "stopping" <=> row[r.cur].status = "ACTIVE")
    BY <1>0, <1>6 DEF ReadForStop, r
  <2>2. r.pc = "stop" /\ Moves(t, Put(r, to)) /\ to \in Places
    BY <1>0, <1>1, <2>1 DEF Streaming, Stopping, Places
  <2>3. r.want # "ACTIVE" /\ (to \in Streaming => Slot(r))
    BY <1>0, <2>1, <2>2 DEF AtAnOrder, Slot, Stopping, Streaming
  <2> QED BY <1>0, <1>2, <2>1, <2>2, <2>3 DEF Uncounted, Streaming, Stopping
<1>7. ASSUME AppendStop(t) PROVE Moves(t, Put(r, "stopped")) /\ Steps(r, Put(r, "stopped")) /\ r.pc = "stopping"
  BY <1>0, <1>1, <1>2, <1>7 DEF AppendStop, Uncounted, Streaming, Stopping, Places, AtAnOrder
<1>8. ASSUME WriteStop(t) PROVE Moves(t, Put(r, "telling")) /\ Steps(r, Put(r, "telling")) /\ r.pc = "stopped"
  BY <1>0, <1>1, <1>2, <1>8 DEF WriteStop, Uncounted, Streaming, Stopping, Places, AtAnOrder
<1>9. ASSUME TellStopped(t) PROVE Moves(t, Put(r, r.back)) /\ Steps(r, Put(r, r.back)) /\ r.pc = "telling"
  <2>1. Turn(t, "telling", r.back)
    BY <1>9 DEF TellStopped, r
  <2>2. r.pc = "telling" /\ Moves(t, Put(r, r.back)) /\ (r.back \in Streaming => Slot(r))
    BY <1>0, <1>1, <2>1 DEF Streaming, Stopping, Places, Slot
  <2> QED BY <1>0, <1>2, <2>2 DEF Uncounted, Streaming, Stopping
<1>10. ASSUME ClaimTrigger(t)
       PROVE \E to \in {"summon", "next"} : Moves(t, Put(r, to)) /\ Steps(r, Put(r, to)) /\ r.pc = "claim"
               /\ (to = "summon" <=> NewTrigger(r.cur, r.done))
  <2>1. PICK to \in {"summon", "next"} : Turn(t, "claim", to) /\ (to = "summon" <=> NewTrigger(r.cur, r.done))
    BY <1>10 DEF ClaimTrigger, r
  <2> QED BY <1>1, <1>2, <2>1 DEF Uncounted, Streaming, Stopping, Walking, Places
<1>11. ASSUME Walked(t) PROVE Moves(t, Put(r, "over")) /\ Steps(r, Put(r, "over")) /\ r.pc = "next"
  BY <1>1, <1>2, <1>11 DEF Walked, Uncounted, Streaming, Stopping, Walking, Places
<1> QED BY <1>3, <1>4, <1>5, <1>6, <1>7, <1>8, <1>9, <1>10, <1>11 DEF r

\* Steps that also change what the record knows.
LEMMA TermsGo ==
    ASSUME OrderTyped, NEW t \in Turns, ReadTerms(t)
    PROVE  LET s == [turn[t] EXCEPT !.pc = "counting", !.terms = row[turn[t].order].terms]
           IN  Moves(t, s) /\ Steps(turn[t], s) /\ turn[t].pc = "started" /\ s.pc = "counting"
                 /\ s.terms = row[turn[t].order].terms
<1> DEFINE r == turn[t] terms == row[r.order].terms s == [r EXCEPT !.pc = "counting", !.terms = terms]
<1>0. r \in TurnRecords /\ AtAnOrder(r) /\ r.pc = "started" /\ Moves(t, s)
  BY DEF ReadTerms, OrderTyped, Moves
<1>1. terms \in Terms
  <2>1. r.order \in Orders
    BY <1>0 DEF AtAnOrder
  <2> QED BY <2>1 DEF OrderTyped, OrderRows
<1> HIDE DEF r, terms
<1>2. /\ s \in TurnRecords /\ s.pc = "counting" /\ s.member = r.member /\ s.order = r.order /\ s.trigger = r.trigger
      /\ s.todo = r.todo /\ s.terms = terms
  BY <1>0, <1>1 DEF TurnRecords, Streaming
<1>3. AtAnOrder(s) /\ Slot(r)
  BY <1>0, <1>2 DEF AtAnOrder, Slot, Streaming, Stopping
<1>4. Steps(r, s)
  BY <1>0, <1>2, <1>3 DEF Steps, Uncounted, Stopping
<1> QED BY <1>0, <1>2, <1>4 DEF r, terms

\* The count: of an order that is ACTIVE, and then with what it calls for.
CycledRecord(r, want) == [r EXCEPT !.pc = "cycled", !.cur = r.order, !.back = "running", !.want = want]
Reached(o, terms) == Judge(terms, row[o].cycles + 1, row[o].unattended + 1)
\* A count calls for the cap, for the dial or for nothing.
LEMMA JudgeIsStatus == \A terms, cycles, unattended : Judge(terms, cycles, unattended) \in {"LIMIT_REACHED", "PAUSED", "ACTIVE"}
BY DEF Judge

\* A count: nothing where the order is not ACTIVE, and else one more cycle and a judgement of it.
LEMMA CountGoes ==
    ASSUME OrderTyped, NEW t \in Turns, Count(t)
    PROVE  LET r == turn[t] IN
           /\ r.pc = "counting" /\ r.order \in Orders /\ UNCHANGED <<hist, cycled, ctl, inFlight, seq, faults>>
           /\ \/ /\ row[r.order].status # "ACTIVE" /\ UNCHANGED row
                 /\ Moves(t, [r EXCEPT !.pc = "running"]) /\ Steps(r, [r EXCEPT !.pc = "running"])
                 /\ [r EXCEPT !.pc = "running"].pc = "running"
              \/ LET s == CycledRecord(r, Reached(r.order, r.terms)) IN
                 /\ row[r.order].status = "ACTIVE"
                 /\ row' = [row EXCEPT ![r.order] = [row[r.order] EXCEPT !.cycles = @ + 1, !.unattended = @ + 1]]
                 /\ Moves(t, s) /\ Steps(r, s) /\ s.pc = "cycled" /\ s.want = Reached(r.order, r.terms) /\ s.back = "running"
<1> DEFINE r == turn[t]
<1>0. r \in TurnRecords /\ AtAnOrder(r) /\ r.pc = "counting" /\ r.order \in Orders
  BY DEF Count, OrderTyped, AtAnOrder
<1>1. row[r.order] \in OrderRows
  BY <1>0 DEF OrderTyped
<1> DEFINE o == r.order  q == [row[o] EXCEPT !.cycles = @ + 1, !.unattended = @ + 1]
<1>2. q.status = row[o].status /\ q.cycles = row[o].cycles + 1 /\ q.unattended = row[o].unattended + 1
  BY <1>1 DEF OrderRows
<1>3. \/ row[o].status # "ACTIVE" /\ UNCHANGED row /\ Moves(t, [r EXCEPT !.pc = "running"])
      \/ /\ row[o].status = "ACTIVE" /\ row' = [row EXCEPT ![o] = q]
         /\ Moves(t, CycledRecord(r, Reached(o, r.terms)))
  <2>1. CASE q.status # "ACTIVE"
    BY <1>0, <1>2, <2>1 DEF Count, Moves, OrderTyped
  <2>2. CASE q.status = "ACTIVE"
    <3>1. row' = [row EXCEPT ![o] = q]
      BY <2>2 DEF Count
    <3>2. turn' = [turn EXCEPT ![t].pc = "cycled", ![t].cur = o, ![t].back = "running",
                               ![t].want = Judge(turn[t].terms, q.cycles, q.unattended)]
      BY <2>2 DEF Count
    <3>3. Moves(t, CycledRecord(r, Judge(r.terms, q.cycles, q.unattended)))
      <4> DEFINE want == Judge(r.terms, q.cycles, q.unattended)
      <4>1. turn' = [turn EXCEPT ![t].pc = "cycled", ![t].cur = o, ![t].back = "running", ![t].want = want]
        BY <3>2
      <4> HIDE DEF want, q
      <4>2. turn \in [Turns -> TurnRecords]
        BY DEF OrderTyped
      <4> QED BY <4>1, <4>2 DEF Moves, CycledRecord, want
    <3>4. Judge(r.terms, q.cycles, q.unattended) = Reached(o, r.terms) /\ row[o].status = "ACTIVE"
      BY <1>2, <2>2 DEF Reached
    <3>5. Moves(t, CycledRecord(r, Reached(o, r.terms)))
      BY <3>3, <3>4
    <3> QED BY <3>1, <3>4, <3>5
  <2> QED BY <2>1, <2>2
<1> HIDE DEF r, q
<1>4. ASSUME NEW want \in Statuses
      PROVE  /\ Steps(r, CycledRecord(r, want)) /\ CycledRecord(r, want).pc = "cycled"
             /\ CycledRecord(r, want).want = want /\ CycledRecord(r, want).back = "running"
  <2> DEFINE s == CycledRecord(r, want)
  <2>1. /\ s \in TurnRecords /\ s.pc = "cycled" /\ s.cur = r.order /\ s.order = r.order /\ s.back = "running"
        /\ s.member = r.member /\ s.trigger = r.trigger /\ s.todo = r.todo /\ s.want = want
    BY <1>0 DEF CycledRecord, TurnRecords, Streaming
  <2> HIDE DEF s
  <2>2. AtAnOrder(s) /\ Slot(r)
    BY <1>0, <2>1 DEF AtAnOrder, Slot, Streaming, Stopping
  <2>3. Steps(r, s)
    BY <1>0, <2>1, <2>2 DEF Steps, Uncounted, Stopping
  <2> QED BY <2>1, <2>3 DEF s
<1>5. Steps(r, [r EXCEPT !.pc = "running"]) /\ [r EXCEPT !.pc = "running"].pc = "running"
  <2> DEFINE s == [r EXCEPT !.pc = "running"]
  <2>1. /\ s \in TurnRecords /\ s.pc = "running" /\ s.cur = r.cur /\ s.order = r.order /\ s.back = r.back
        /\ s.member = r.member /\ s.trigger = r.trigger /\ s.todo = r.todo
    BY <1>0 DEF TurnRecords, Streaming
  <2> HIDE DEF s
  <2>2. AtAnOrder(s) /\ Slot(r)
    BY <1>0, <2>1 DEF AtAnOrder, Slot, Streaming, Stopping
  <2>3. Steps(r, s)
    BY <1>0, <2>1, <2>2 DEF Steps, Uncounted, Stopping
  <2> QED BY <2>1, <2>3 DEF s
<1>6. Reached(o, r.terms) \in Statuses
  BY JudgeIsStatus DEF Reached, Statuses, Terminal
<1>7. UNCHANGED <<hist, cycled, ctl, inFlight, seq, faults>>
  BY DEF Count
<1> QED BY <1>0, <1>3, <1>4, <1>5, <1>6, <1>7 DEF r, q

\* The end of a turn, and of one that throws with its slot.
EndRecord(r, place) == [r EXCEPT !.pc = place, !.done = seq + 1]
\* A turn ends and leaves its slot.
LEMMA EndGoes ==
    ASSUME OrderTyped, NEW t \in Turns, NEW place \in {"list", "failed"},
           turn' = [turn EXCEPT ![t].pc = place, ![t].done = seq + 1], Slot(turn[t]) \/ turn[t].pc = "list"
    PROVE  LET s == EndRecord(turn[t], place) IN
           Moves(t, s) /\ Steps(turn[t], s) /\ s.pc = place /\ s.todo = turn[t].todo
<1> DEFINE r == turn[t]  s == EndRecord(r, place)
<1>0. r \in TurnRecords /\ AtAnOrder(r) /\ seq \in Nat
  BY DEF OrderTyped
<1>1. Moves(t, s)
  BY DEF Moves, EndRecord, OrderTyped
<1> HIDE DEF r
<1>2. /\ s \in TurnRecords /\ s.pc = place /\ s.order = r.order
      /\ s.member = r.member /\ s.trigger = r.trigger /\ s.todo = r.todo
  <2>1. seq + 1 \in Nat
    BY <1>0
  <2>2. CASE place = "list"
    BY <1>0, <2>1, <2>2 DEF EndRecord, TurnRecords, Walking
  <2>3. CASE place = "failed"
    BY <1>0, <2>1, <2>3 DEF EndRecord, TurnRecords, Walking
  <2> QED BY <2>2, <2>3
<1> HIDE DEF s
<1>3. AtAnOrder(s) /\ r.pc # "none"
  BY <1>0, <1>2 DEF AtAnOrder, Slot, Streaming, Stopping, r
<1>4. Steps(r, s)
  BY <1>0, <1>2, <1>3 DEF Steps, Uncounted, Stopping, Slot, Streaming
<1> QED BY <1>1, <1>2, <1>4 DEF r, s

\* The walk, and the way to a stop.
LEMMA StopGoes ==
    ASSUME OrderTyped, NEW t \in Turns, NEW o \in Orders, NEW status \in Statuses \ {"ACTIVE"}, NEW back \in {"over", "next"},
           turn[t].pc \in {"failed", "next"}, Stop(t, o, status, back), o \in turn[t].todo \/ o = turn[t].order
    PROVE  LET s == StopRecord(turn[t], o, status, back) IN Moves(t, s) /\ Steps(turn[t], s) /\ s.pc = "stop" /\ s.back = back
<1> DEFINE r == turn[t]  s == StopRecord(r, o, status, back)
<1>0. r \in TurnRecords /\ AtAnOrder(r)
  BY DEF OrderTyped
<1>1. Moves(t, s)
  BY DEF Moves, Stop, StopRecord, OrderTyped
<1>2. r.pc \in {"failed", "next"} /\ (o \in r.todo \/ o = r.order)
  OBVIOUS
<1> HIDE DEF r
<1>3. /\ s \in TurnRecords /\ s.pc = "stop" /\ s.cur = o /\ s.want = status /\ s.back = back
      /\ s.todo = r.todo \ {o} /\ s.member = r.member /\ s.order = r.order /\ s.trigger = r.trigger
  BY <1>0, StopTyping
<1> HIDE DEF s
<1>4. AtAnOrder(s)
  BY <1>3 DEF AtAnOrder, Stopping
<1>5. Steps(r, s)
  BY <1>0, <1>2, <1>3, <1>4 DEF Steps, Uncounted, Stopping, Slot, Streaming
<1> QED BY <1>1, <1>3, <1>5 DEF r, s

\* A failed turn ends, or goes on to pause its order.
LEMMA FailureGoes ==
    ASSUME OrderTyped, NEW t \in Turns, AfterFailure(t)
    PROVE  \E s : Moves(t, s) /\ Steps(turn[t], s) /\ s.pc \in {"over", "stop"} /\ (s.pc = "stop" => s.back = "over")
                    /\ turn[t].pc = "failed"
<1>0. turn[t] \in TurnRecords /\ turn[t].pc = "failed" /\ turn[t].order \in Orders \cup {NoOrder}
  BY DEF AfterFailure, OrderTyped, TurnRecords
<1>1. CASE turn[t].order = NoOrder
  <2> DEFINE s == Put(turn[t], "over")
  <2>1. Moves(t, s)
    BY <1>1 DEF AfterFailure, Moves
  <2>2. /\ s \in TurnRecords /\ s.pc = "over" /\ s.member = turn[t].member /\ s.order = turn[t].order
        /\ s.trigger = turn[t].trigger /\ s.todo = {}
    BY <1>0, PutTyping DEF Places
  <2> HIDE DEF s
  <2>3. Steps(turn[t], s)
    BY <1>0, <2>2 DEF Steps, AtAnOrder, Uncounted, Stopping, Slot, Streaming
  <2> QED BY <1>0, <2>1, <2>2, <2>3
<1>2. CASE turn[t].order # NoOrder
  <2>1. Stop(t, turn[t].order, "PAUSED", "over")
    BY <1>2 DEF AfterFailure
  <2> QED BY <1>0, <1>2, <2>1, StopGoes DEF Statuses, Terminal
<1> QED BY <1>1, <1>2

\* A gate that is shut stops the first order of the walk.
LEMMA GateGoes ==
    ASSUME OrderTyped, NEW t \in Turns, Gate(t)
    PROVE  \E s : Moves(t, s) /\ Steps(turn[t], s) /\ s.pc = "stop" /\ s.back = "next" /\ turn[t].pc = "next"
<1>0. turn[t].pc = "next" /\ turn[t].todo # {} /\ turn[t].todo \in SUBSET Orders
  BY DEF Gate, OrderTyped, TurnRecords
<1>1. Min(turn[t].todo) \in turn[t].todo /\ Min(turn[t].todo) \in Orders
  BY <1>0, FirstOrder
<1>2. \E status \in {"PAUSED", "EXPIRED"} : Stop(t, Min(turn[t].todo), status, "next")
  BY DEF Gate
<1> QED BY <1>0, <1>1, <1>2, StopGoes DEF Statuses, Terminal

\* The walk lists the orders that are ACTIVE, and takes them one by one.
LEMMA WalkGoes ==
    ASSUME OrderTyped, NEW t \in Turns, List(t) \/ Busy(t) \/ Idle(t)
    PROVE  \E s : /\ Moves(t, s) /\ Steps(turn[t], s) /\ s.pc \in {"next", "claim"} /\ turn[t].pc \in {"list", "next"}
                  /\ \A o \in s.todo : o \in turn[t].todo \/ row[o].status = "ACTIVE"
<1> DEFINE r == turn[t]
<1>0. r \in TurnRecords /\ AtAnOrder(r)
  BY DEF OrderTyped
<1>1. CASE List(t)
  <2> DEFINE active == {o \in Orders : row[o].status = "ACTIVE" /\ TrigOf[o] = r.member}
             s == [r EXCEPT !.pc = "next", !.todo = active]
  <2>1. Moves(t, s) /\ r.pc = "list"
    BY <1>1 DEF List, Moves, OrderTyped
  <2>2. active \in SUBSET Orders /\ \A o \in active : row[o].status = "ACTIVE"
    OBVIOUS
  <2> HIDE DEF r, active
  <2>3. /\ s \in TurnRecords /\ s.pc = "next" /\ s.todo = active /\ s.member = r.member /\ s.order = r.order /\ s.trigger = r.trigger
    BY <1>0, <2>2 DEF TurnRecords, Walking
  <2> HIDE DEF s
  <2>4. Steps(r, s)
    BY <2>1, <2>3 DEF Steps, AtAnOrder, Uncounted, Stopping, Slot, Streaming
  <2> QED BY <2>1, <2>2, <2>3, <2>4 DEF r
<1>2. ASSUME NEW place \in {"next", "claim"}, NEW o \in r.todo, NEW cur \in Orders \cup {NoOrder},
             r.pc = "next", place = "claim" => cur = o,
             Moves(t, [r EXCEPT !.pc = place, !.cur = cur, !.todo = @ \ {o}])
      PROVE  \E s : /\ Moves(t, s) /\ Steps(r, s) /\ s.pc \in {"next", "claim"} /\ \A p \in s.todo : p \in r.todo
  <2> DEFINE s == [r EXCEPT !.pc = place, !.cur = cur, !.todo = @ \ {o}]
  <2> HIDE DEF r
  <2>1. /\ s \in TurnRecords /\ s.pc = place /\ s.cur = cur /\ s.todo = r.todo \ {o}
        /\ s.member = r.member /\ s.order = r.order /\ s.trigger = r.trigger
    BY <1>0, <1>2 DEF TurnRecords, Walking
  <2>2. o \in Orders
    BY <1>0, <1>2 DEF TurnRecords
  <2>3. Moves(t, s)
    BY <1>2
  <2> HIDE DEF s
  <2>4. Steps(r, s)
    BY <1>2, <2>1, <2>2 DEF Steps, AtAnOrder, Uncounted, Stopping, Slot, Streaming
  <2> QED BY <2>1, <2>3, <2>4
<1>3. CASE Busy(t)
  <2>1. r.pc = "next" /\ r.todo # {} /\ r.todo \in SUBSET Orders /\ r.cur \in Orders \cup {NoOrder}
    BY <1>0, <1>3 DEF Busy, TurnRecords
  <2>2. Min(r.todo) \in r.todo
    BY <2>1, FirstOrder
  <2>3. turn' = [turn EXCEPT ![t].todo = @ \ {Min(r.todo)}]
    BY <1>3 DEF Busy
  <2>4. Moves(t, [r EXCEPT !.pc = "next", !.cur = r.cur, !.todo = @ \ {Min(r.todo)}])
    <3>1. [r EXCEPT !.todo = @ \ {Min(r.todo)}] = [r EXCEPT !.pc = "next", !.cur = r.cur, !.todo = @ \ {Min(r.todo)}]
      <4> HIDE DEF r
      <4> QED BY <1>0, <2>1 DEF TurnRecords
    <3> QED BY <2>3, <3>1 DEF Moves, OrderTyped
  <2> QED BY <1>2, <2>1, <2>2, <2>4
<1>4. CASE Idle(t)
  <2>1. r.pc = "next" /\ r.todo # {} /\ r.todo \in SUBSET Orders
    BY <1>0, <1>4 DEF Idle, TurnRecords
  <2>2. Min(r.todo) \in r.todo /\ Min(r.todo) \in Orders
    BY <2>1, FirstOrder
  <2>3. Moves(t, [r EXCEPT !.pc = "claim", !.cur = Min(r.todo), !.todo = @ \ {Min(r.todo)}])
    BY <1>4 DEF Idle, Moves, OrderTyped
  <2> QED BY <1>2, <2>1, <2>2, <2>3
<1> QED BY <1>1, <1>3, <1>4

\* What one turn's step leaves of the turns.
LEMMA MovesOne ==
    ASSUME OrderTyped, NEW t \in Turns, NEW s, Moves(t, s), Steps(turn[t], s)
    PROVE  /\ turn' \in [Turns -> TurnRecords] /\ \A u \in Turns : AtAnOrder(turn'[u])
           /\ turn'[t] = s /\ \A u \in Turns : u # t => turn'[u] = turn[u]
<1>1. turn \in [Turns -> TurnRecords] /\ s \in TurnRecords /\ AtAnOrder(s) /\ \A u \in Turns : AtAnOrder(turn[u])
  BY DEF OrderTyped, Steps
<1> QED BY <1>1 DEF Moves

\* A new turn takes a free place; nothing else moves but the turn that summons.
Begins(u, m, o, trigger) ==
    /\ u \in Turns /\ turn[u].pc = "none" /\ turn'[u] \in TurnRecords /\ AtAnOrder(turn'[u])
    /\ turn'[u].pc = "queued" /\ turn'[u].member = m /\ turn'[u].order = o /\ turn'[u].trigger = trigger
    /\ turn'[u].todo = turn[u].todo

\* A turn asked for by a human begins for no order.
LEMMA AskBegins ==
    ASSUME OrderTyped, NEW m \in Members, Ask(m)
    PROVE  \E u \in Turns : /\ Begins(u, m, NoOrder, 0) /\ \A v \in Turns : v # u => turn'[v] = turn[v]
                            /\ turn' \in [Turns -> TurnRecords] /\ \A v \in Turns : AtAnOrder(turn'[v])
<1> DEFINE u == Min(Free)  s == New(m, NoOrder, 0)
<1>1. Free # {} /\ turn' = [turn EXCEPT ![u] = s] /\ turn \in [Turns -> TurnRecords] /\ \A v \in Turns : AtAnOrder(turn[v])
  BY DEF Ask, OrderTyped
<1>2. u \in Turns /\ turn[u].pc = "none"
  BY <1>1, FreeIsTurn
<1>3. /\ s \in TurnRecords /\ s.pc = "queued" /\ s.member = m /\ s.order = NoOrder /\ s.trigger = 0 /\ s.todo = turn[u].todo
  BY <1>1, NewTyping
<1> HIDE DEF u, s
<1>4. AtAnOrder(s)
  BY <1>3 DEF AtAnOrder, Stopping
<1>5. turn'[u] = s /\ turn' \in [Turns -> TurnRecords] /\ \A v \in Turns : v # u => turn'[v] = turn[v]
  BY <1>1, <1>2, <1>3
<1>6. Begins(u, m, NoOrder, 0)
  BY <1>2, <1>3, <1>4, <1>5 DEF Begins
<1> QED BY <1>1, <1>2, <1>4, <1>5, <1>6

\* The summon: the turn walks on, and if nothing was summoned on this trigger a new one begins.
NextRecord(r) == [r EXCEPT !.pc = "next"]
\* A summon goes on with the walk, and begins a turn unless the trigger has one.
LEMMA SummonGoes ==
    ASSUME OrderTyped, NEW t \in Turns, Summon(t)
    PROVE  LET r == turn[t]  o == r.cur IN
           /\ r.pc = "summon" /\ o \in Orders /\ Steps(r, NextRecord(r)) /\ NextRecord(r).pc = "next" /\ turn'[t] = NextRecord(r)
           /\ turn' \in [Turns -> TurnRecords] /\ \A v \in Turns : AtAnOrder(turn'[v])
           /\ \/ Summoned(ActOf[o], r.done) /\ Moves(t, NextRecord(r))
              \/ \E u \in Turns \ {t} : /\ ~Summoned(ActOf[o], r.done) /\ Begins(u, ActOf[o], o, r.done)
                                        /\ \A v \in Turns : v \notin {t, u} => turn'[v] = turn[v]
<1> DEFINE r == turn[t]  o == r.cur  s == NextRecord(r)
<1>0. r \in TurnRecords /\ AtAnOrder(r) /\ r.pc = "summon" /\ turn \in [Turns -> TurnRecords] /\ \A v \in Turns : AtAnOrder(turn[v])
  BY DEF OrderTyped, Summon
<1>1. o \in Orders /\ r.done \in Nat /\ ActOf[o] \in Members
  BY <1>0, WiringAssumption DEF AtAnOrder, TurnRecords
<1>2. Steps(r, s) /\ s.pc = "next" /\ s \in TurnRecords /\ AtAnOrder(s)
  <2> HIDE DEF r
  <2>1. /\ s \in TurnRecords /\ s.pc = "next" /\ s.todo = r.todo /\ s.member = r.member /\ s.order = r.order /\ s.trigger = r.trigger
    BY <1>0 DEF NextRecord, TurnRecords, Walking
  <2> HIDE DEF s
  <2>2. Steps(r, s)
    BY <1>0, <2>1 DEF Steps, AtAnOrder, Uncounted, Stopping, Slot, Streaming
  <2> QED BY <2>1, <2>2 DEF Steps
<1>3. CASE Summoned(ActOf[o], r.done)
  <2>1. Moves(t, s)
    BY <1>0, <1>3 DEF Summon, Moves, NextRecord
  <2>2. turn'[t] = s /\ turn' \in [Turns -> TurnRecords] /\ \A v \in Turns : AtAnOrder(turn'[v])
    BY <1>2, <2>1, MovesOne
  <2> QED BY <1>0, <1>1, <1>2, <1>3, <2>1, <2>2
<1>4. CASE ~Summoned(ActOf[o], r.done)
  <2> DEFINE u == Min(Free)  n == New(ActOf[o], o, r.done)
  <2>1. Free # {} /\ turn' = [[turn EXCEPT ![t].pc = "next"] EXCEPT ![u] = n]
    BY <1>4 DEF Summon
  <2>2. u \in Turns /\ turn[u].pc = "none"
    BY <2>1, FreeIsTurn
  <2>3. /\ n \in TurnRecords /\ n.pc = "queued" /\ n.member = ActOf[o] /\ n.order = o /\ n.trigger = r.done
        /\ n.todo = turn[u].todo
    BY <1>1, <2>1, NewTyping
  <2>4. u # t
    BY <1>0, <2>2
  <2> HIDE DEF u, n
  <2>5. turn' = [turn EXCEPT ![t] = s, ![u] = n]
    BY <1>0, <2>1, <2>2, <2>4 DEF NextRecord
  <2> HIDE DEF r, o, s
  <2>6. AtAnOrder(n)
    BY <2>3 DEF AtAnOrder, Stopping
  <2>7. /\ turn'[t] = s /\ turn'[u] = n /\ turn' \in [Turns -> TurnRecords]
        /\ \A v \in Turns : v \notin {t, u} => turn'[v] = turn[v]
    BY <1>0, <1>2, <2>2, <2>3, <2>4, <2>5
  <2>8. \A v \in Turns : AtAnOrder(turn'[v])
    BY <1>0, <1>2, <2>6, <2>7
  <2>9. Begins(u, ActOf[o], o, r.done)
    BY <2>2, <2>3, <2>6, <2>7 DEF Begins
  <2> QED BY <1>0, <1>1, <1>2, <1>4, <2>2, <2>4, <2>7, <2>8, <2>9 DEF r, o, s
<1> QED BY <1>3, <1>4

\* A throw: the turn fails, goes on with its walk, or ends in its set-up.
LEMMA ThrowGoes ==
    ASSUME OrderTyped, NEW t \in Turns, Throw(t)
    PROVE  /\ UNCHANGED <<row, hist, cycled, ctl, crowded>> /\ faults' = faults + 1 /\ faults' \in 0..MaxFaults
           /\ seq' \in Nat /\ inFlight' \subseteq Members /\ trailing' \subseteq Turns
           /\ \E s : /\ Moves(t, s) /\ Steps(turn[t], s) /\ s.pc \in {"failed", "next", "over"}
                     /\ s.todo \subseteq turn[t].todo
<1> DEFINE r == turn[t]
<1>0. r \in TurnRecords /\ AtAnOrder(r) /\ seq \in Nat /\ inFlight \subseteq Members /\ trailing \subseteq Turns
  BY DEF OrderTyped
<1>1. UNCHANGED <<row, hist, cycled, ctl, crowded>> /\ faults' = faults + 1 /\ faults' \in 0..MaxFaults
  BY BoundsAssumption DEF Throw, OrderTyped
<1>2. CASE FailTurn(t)
  <2>1. turn' = [turn EXCEPT ![t].pc = "failed", ![t].done = seq + 1] /\ (Slot(r) \/ r.pc = "list")
    BY <1>2 DEF FailTurn, Running, Slot
  <2>2. LET s == EndRecord(r, "failed") IN Moves(t, s) /\ Steps(r, s) /\ s.pc = "failed" /\ s.todo = r.todo
    BY <2>1, EndGoes
  <2>3. seq' \in Nat /\ inFlight' \subseteq Members /\ trailing' \subseteq Turns
    BY <1>0, <1>2 DEF FailTurn
  <2> QED BY <1>1, <2>2, <2>3
<1>3. CASE SkipOrder(t)
  <2> DEFINE to == IF r.pc \in Stopping THEN r.back ELSE "next"  s == Put(r, to)
  <2>1. turn' = [turn EXCEPT ![t] = Put(@, IF @.pc \in Stopping THEN @.back ELSE "next")] /\ UNCHANGED <<seq, trailing, inFlight>>
    BY <1>3 DEF SkipOrder
  <2>2. Moves(t, s)
    BY <2>1 DEF Moves, OrderTyped
  <2>3. ~Slot(r) /\ r.pc \in Stopping \cup {"claim", "summon"}
    BY <1>3 DEF SkipOrder, Running, Slot
  <2>4. to \in {"over", "next"}
    BY <1>0, <2>3 DEF Slot, TurnRecords
  <2>5. to \in Places /\ r.pc \notin Streaming
    BY <2>3, <2>4 DEF Places, Walking, Slot
  <2> HIDE DEF r, to
  <2>6. /\ s \in TurnRecords /\ s.pc = to /\ s.member = r.member /\ s.order = r.order /\ s.trigger = r.trigger
        /\ s.todo \subseteq r.todo
    BY <1>0, <2>5, PutTyping
  <2> HIDE DEF s
  <2>7. Steps(r, s)
    BY <1>0, <2>3, <2>4, <2>5, <2>6 DEF Steps, AtAnOrder, Uncounted, Stopping, Slot, Streaming
  <2> QED BY <1>0, <1>1, <2>1, <2>2, <2>4, <2>6, <2>7 DEF r
<1>4. CASE Strand(t)
  <2> DEFINE s == Put(r, "over")
  <2>1. r.pc = "queued" /\ Moves(t, s) /\ UNCHANGED <<seq, trailing>> /\ inFlight' = inFlight \cup {r.member}
    BY <1>4, PutMoves DEF Strand, Places
  <2>2. r.member \in Members
    BY <1>0 DEF TurnRecords
  <2> HIDE DEF r
  <2>3. /\ s \in TurnRecords /\ s.pc = "over" /\ s.member = r.member /\ s.order = r.order /\ s.trigger = r.trigger
        /\ s.todo = {}
    BY <1>0, PutTyping DEF Places
  <2> HIDE DEF s
  <2>4. Steps(r, s)
    BY <1>0, <2>1, <2>3 DEF Steps, AtAnOrder, Uncounted, Stopping, Slot, Streaming
  <2> QED BY <1>0, <1>1, <2>1, <2>2, <2>3, <2>4 DEF r
<1> QED BY <1>2, <1>3, <1>4 DEF Throw

\* After a restart no turn goes on.
LEMMA RestartEnds ==
    ASSUME OrderTyped, Restart
    PROVE  /\ turn' \in [Turns -> TurnRecords]
           /\ \A t \in Turns :
                /\ AtAnOrder(turn'[t]) /\ turn'[t].pc \in {"none", "over"}
                /\ turn'[t].pc = "none" <=> turn[t].pc = "none"
                /\ turn'[t].member = turn[t].member /\ turn'[t].order = turn[t].order /\ turn'[t].trigger = turn[t].trigger
                /\ turn'[t].todo \subseteq turn[t].todo
           /\ ctl' \in [Controls -> CtlRecords] /\ \A c \in Controls : ctl'[c].pc \in {"none", "over"}
<1>1. ASSUME NEW t \in Turns
      PROVE  /\ turn'[t] \in TurnRecords /\ AtAnOrder(turn'[t]) /\ turn'[t].pc \in {"none", "over"}
             /\ turn'[t].pc = "none" <=> turn[t].pc = "none"
             /\ turn'[t].member = turn[t].member /\ turn'[t].order = turn[t].order /\ turn'[t].trigger = turn[t].trigger
             /\ turn'[t].todo \subseteq turn[t].todo
  <2> DEFINE r == turn[t] s == Put(r, "over")
  <2>1. r \in TurnRecords /\ AtAnOrder(r) /\ turn'[t] = IF r.pc = "none" THEN r ELSE s
    BY DEF OrderTyped, Restart
  <2> HIDE DEF r
  <2>2. s \in TurnRecords /\ s.pc = "over" /\ s.member = r.member /\ s.order = r.order /\ s.trigger = r.trigger /\ s.todo = {}
    BY <2>1, PutTyping DEF Places
  <2> HIDE DEF s
  <2>3. AtAnOrder(s)
    BY <2>2 DEF AtAnOrder, Stopping
  <2> QED BY <2>1, <2>2, <2>3 DEF r
<1>2. turn' \in [Turns -> TurnRecords]
  <2>1. DOMAIN turn' = Turns /\ turn' = [t \in Turns |-> turn'[t]]
    BY DEF Restart
  <2> QED BY <1>1, <2>1
<1>3. ctl' \in [Controls -> CtlRecords] /\ \A c \in Controls : ctl'[c].pc \in {"none", "over"}
  BY DoneIsCtl DEF Restart, OrderTyped
<1> QED BY <1>1, <1>2, <1>3

\* Finish, well or badly.
LEMMA FinishGoes ==
    ASSUME OrderTyped, NEW t \in Turns, NEW ok \in BOOLEAN, Finish(t, ok)
    PROVE  \E s : /\ Moves(t, s) /\ Steps(turn[t], s) /\ s.pc \in {"list", "failed"} /\ turn[t].pc = "running"
                  /\ UNCHANGED <<row, hist, cycled, ctl, crowded, faults>>
<1>1. PICK place \in {"list", "failed"} : turn' = [turn EXCEPT ![t].pc = place, ![t].done = seq + 1]
  BY DEF Finish
<1>2. turn[t].pc = "running" /\ Slot(turn[t])
  BY DEF Finish, Slot, Streaming
<1>3. Moves(t, EndRecord(turn[t], place)) /\ Steps(turn[t], EndRecord(turn[t], place)) /\ EndRecord(turn[t], place).pc = place
  BY <1>1, <1>2, EndGoes
<1> QED BY <1>2, <1>3 DEF Finish

\* Every step of a turn but a summon moves that turn's record and no other.
LEMMA TurnSteps ==
    ASSUME OrderTyped, NEW t \in Turns, TurnStep(t) \/ Throw(t), ~Summon(t)
    PROVE  \E s : Moves(t, s) /\ Steps(turn[t], s)
<1>1. ASSUME NEW ok \in BOOLEAN, Finish(t, ok) PROVE \E s : Moves(t, s) /\ Steps(turn[t], s)
  BY <1>1, FinishGoes
<1>2. CASE ReadTerms(t)
  BY <1>2, TermsGo
<1>3. CASE Count(t)
  BY <1>3, CountGoes
<1>4. CASE AfterFailure(t) \/ Gate(t)
  BY <1>4, FailureGoes, GateGoes
<1>5. CASE List(t) \/ Busy(t) \/ Idle(t)
  BY <1>5, WalkGoes
<1>6. CASE Throw(t)
  BY <1>6, ThrowGoes
<1>7. CASE \/ Admit(t) \/ Refuse(t) \/ AppendCycled(t) \/ ReadForStop(t) \/ AppendStop(t) \/ WriteStop(t)
           \/ TellStopped(t) \/ ClaimTrigger(t) \/ Walked(t)
  BY <1>7, PutGoes
<1> QED BY <1>1, <1>2, <1>3, <1>4, <1>5, <1>6, <1>7 DEF TurnStep

\* An order that is there and not at its end is ACTIVE or PAUSED.
LEMMA StatusOfLive ==
    ASSUME OrderTyped, NEW o \in Orders, Live(o) PROVE row[o].status \in {"ACTIVE", "PAUSED"} \cup Terminal
BY DEF OrderTyped, OrderRows, Live, Statuses

\* A command's record, and what the steps of commands do to it.
CtlGoes(c, s) == /\ ctl' = [ctl EXCEPT ![c] = s] /\ s \in CtlRecords /\ (s.pc = "append" => s.op # "create")
                 /\ UNCHANGED <<cycled, turn, inFlight, trailing, crowded, seq, faults>>
\* What each step of a command makes of it.
LEMMA CtlSteps ==
    ASSUME OrderTyped, NEW c \in Controls
    PROVE  /\ ctl[c] \in CtlRecords
           /\ Create(c) => \E o \in Orders, terms \in Terms :
                LET s == [pc |-> "write", op |-> "create", order |-> o, terms |-> terms]
                IN  CtlGoes(c, s) /\ ctl[c].pc = "none" /\ ~Live(o) /\ hist[o] = <<>>
                      /\ hist' = [hist EXCEPT ![o] = <<"ACTIVE">>] /\ UNCHANGED row
           /\ ReadControl(c) \/ ReadEdit(c) => \E s :
                /\ CtlGoes(c, s) /\ ctl[c].pc = "none" /\ s.pc = "append" /\ row[s.order].status \in {"ACTIVE", "PAUSED"} /\ UNCHANGED <<row, hist>>
           /\ AppendControl(c) => \E s :
                /\ CtlGoes(c, s) /\ ctl[c].pc = "append" /\ ctl[c].op # "create" /\ s.pc = "write"
                /\ s.op = ctl[c].op /\ s.order = ctl[c].order
                /\ hist' = [hist EXCEPT ![ctl[c].order] = Append(@, ctl[c].op)] /\ UNCHANGED row
           /\ WriteControl(c) => \E s :
                /\ CtlGoes(c, s) /\ ctl[c].pc = "write" /\ s.pc = "over" /\ UNCHANGED hist
<1>0. ctl \in [Controls -> CtlRecords] /\ ctl[c] \in CtlRecords /\ (ctl[c].pc = "append" => ctl[c].op # "create")
  BY DEF OrderTyped
<1>1. ASSUME Create(c) PROVE \E o \in Orders, terms \in Terms :
                LET s == [pc |-> "write", op |-> "create", order |-> o, terms |-> terms]
                IN  CtlGoes(c, s) /\ ctl[c].pc = "none" /\ ~Live(o) /\ hist[o] = <<>>
                      /\ hist' = [hist EXCEPT ![o] = <<"ACTIVE">>] /\ UNCHANGED row
  BY <1>1 DEF Create, CtlGoes, CtlKeeps, CtlRecords
<1>2. ASSUME ReadControl(c) PROVE \E s :
                CtlGoes(c, s) /\ ctl[c].pc = "none" /\ s.pc = "append" /\ row[s.order].status \in {"ACTIVE", "PAUSED"} /\ UNCHANGED <<row, hist>>
  <2>1. PICK o \in Orders, op \in {"PAUSED", "ACTIVE", "REVOKED"} :
          /\ ctl[c].pc = "none" /\ row[o].status \in {"ACTIVE", "PAUSED"}
          /\ ctl' = [ctl EXCEPT ![c] = [Done EXCEPT !.pc = "append", !.op = op, !.order = o]]
    BY <1>2, StatusOfLive DEF ReadControl, Legal
  <2> DEFINE s == [Done EXCEPT !.pc = "append", !.op = op, !.order = o]
  <2>2. s \in CtlRecords /\ s.pc = "append" /\ s.op = op /\ s.order = o
    BY DoneIsCtl DEF CtlRecords, Statuses, Terminal
  <2> HIDE DEF s
  <2> QED BY <1>2, <2>1, <2>2 DEF ReadControl, CtlGoes, CtlKeeps, s
<1>3. ASSUME ReadEdit(c) PROVE \E s :
                CtlGoes(c, s) /\ ctl[c].pc = "none" /\ s.pc = "append" /\ row[s.order].status \in {"ACTIVE", "PAUSED"} /\ UNCHANGED <<row, hist>>
  <2>1. PICK o \in Orders, terms \in Terms :
          /\ ctl[c].pc = "none" /\ row[o].status \in {"ACTIVE", "PAUSED"}
          /\ ctl' = [ctl EXCEPT ![c] = [pc |-> "append", op |-> "edit", order |-> o, terms |-> terms]]
    BY <1>3, StatusOfLive DEF ReadEdit, Legal
  <2>2. [pc |-> "append", op |-> "edit", order |-> o, terms |-> terms] \in CtlRecords
    BY DEF CtlRecords
  <2> DEFINE s == [pc |-> "append", op |-> "edit", order |-> o, terms |-> terms]
  <2>3. CtlGoes(c, s) /\ s.pc = "append" /\ s.order = o
    BY <1>3, <2>1, <2>2 DEF ReadEdit, CtlGoes, CtlKeeps
  <2> HIDE DEF s
  <2> QED BY <1>3, <2>1, <2>3 DEF ReadEdit
<1>4. ASSUME AppendControl(c) PROVE \E s :
                /\ CtlGoes(c, s) /\ ctl[c].pc = "append" /\ ctl[c].op # "create" /\ s.pc = "write"
                /\ s.op = ctl[c].op /\ s.order = ctl[c].order
                /\ hist' = [hist EXCEPT ![ctl[c].order] = Append(@, ctl[c].op)] /\ UNCHANGED row
  <2> DEFINE r == ctl[c] s == [r EXCEPT !.pc = "write"]
  <2>1. ctl' = [ctl EXCEPT ![c] = s] /\ r.pc = "append"
    BY <1>0, <1>4 DEF AppendControl, Ctl
  <2>2. s \in CtlRecords /\ s.pc = "write" /\ s.op = r.op /\ s.order = r.order
    BY <1>0 DEF CtlRecords
  <2> HIDE DEF s
  <2> QED BY <1>0, <1>4, <2>1, <2>2 DEF AppendControl, CtlGoes, CtlKeeps
<1>5. ASSUME WriteControl(c) PROVE \E s : CtlGoes(c, s) /\ ctl[c].pc = "write" /\ s.pc = "over" /\ UNCHANGED hist
  <2>1. ctl' = [ctl EXCEPT ![c] = Done] /\ ctl[c].pc = "write"
    BY <1>5 DEF WriteControl, Ctl
  <2> QED BY <1>5, <2>1, DoneIsCtl DEF WriteControl, CtlGoes, CtlKeeps
<1> QED BY <1>0, <1>1, <1>2, <1>3, <1>4, <1>5

\* A row that is counted, claimed or attended to stays a row.
LEMMA RowTyping ==
    ASSUME OrderTyped, NEW o \in Orders, NEW trigger \in Nat
    PROVE  /\ [row[o] EXCEPT !.unattended = 0] \in OrderRows
           /\ [row[o] EXCEPT !.cycles = @ + 1, !.unattended = @ + 1] \in OrderRows
           /\ [row[o] EXCEPT !.open = trigger] \in OrderRows
<1> DEFINE r == row[o]
<1>1. r \in OrderRows
  BY DEF OrderTyped
<1> HIDE DEF r
<1>2. [r EXCEPT !.unattended = 0] \in OrderRows
  BY <1>1 DEF OrderRows
<1>3. [r EXCEPT !.cycles = @ + 1, !.unattended = @ + 1] \in OrderRows
  <2> DEFINE n == r.cycles + 1  m == r.unattended + 1
  <2>1. n \in Nat /\ m \in Nat
    BY <1>1 DEF OrderRows
  <2>2. [r EXCEPT !.cycles = @ + 1, !.unattended = @ + 1] = [r EXCEPT !.cycles = n, !.unattended = m]
    BY <1>1 DEF OrderRows
  <2> HIDE DEF n, m
  <2> QED BY <1>1, <2>1, <2>2 DEF OrderRows
<1>4. [r EXCEPT !.open = trigger] \in OrderRows
  BY <1>1 DEF OrderRows
<1> QED BY <1>2, <1>3, <1>4 DEF r

\* What a write of a status or of terms does to a row.
LEMMA WriteControlRow ==
    ASSUME OrderTyped, NEW c \in Controls, WriteControl(c)
    PROVE  LET o == ctl[c].order  r == row[ctl[c].order]  p == row'[ctl[c].order]  op == ctl[c].op IN
           /\ o \in Orders /\ row' \in [Orders -> OrderRows] /\ \A q \in Orders : q # o => row'[q] = row[q]
           /\ p.cycles = r.cycles /\ p.open = r.open
           /\ op \in {"create", "edit"} => p.unattended = r.unattended /\ p.terms = ctl[c].terms
           /\ op = "create" => p.status = "ACTIVE"
           /\ op = "edit" => p.status = r.status
           /\ op \notin {"create", "edit"} =>
                p.status = op /\ p.terms = r.terms /\ p.unattended = IF op = "ACTIVE" THEN 0 ELSE r.unattended
<1> DEFINE o == ctl[c].order  r == row[o]  op == ctl[c].op
<1>0. /\ ctl[c] \in CtlRecords /\ o \in Orders /\ r \in OrderRows /\ op \in {"create", "edit"} \cup Statuses
      /\ ctl[c].terms \in Terms /\ row \in [Orders -> OrderRows]
  BY DEF OrderTyped, CtlRecords
<1>1. CASE op = "create"
  <2>1. row' = [row EXCEPT ![o] = [r EXCEPT !.status = "ACTIVE", !.terms = ctl[c].terms]]
    BY <1>0, <1>1 DEF WriteControl
  <2> HIDE DEF r
  <2>2. [r EXCEPT !.status = "ACTIVE", !.terms = ctl[c].terms] \in OrderRows
    BY <1>0 DEF OrderRows, Statuses
  <2> QED BY <1>0, <1>1, <2>1, <2>2 DEF OrderRows, r
<1>2. CASE op = "edit"
  <2>1. row' = [row EXCEPT ![o] = [r EXCEPT !.terms = ctl[c].terms]]
    BY <1>0, <1>2 DEF WriteControl
  <2>2. [r EXCEPT !.terms = ctl[c].terms] \in OrderRows
    BY <1>0 DEF OrderRows
  <2> QED BY <1>0, <1>2, <2>1, <2>2 DEF OrderRows
<1>3. CASE op \notin {"create", "edit"}
  <2> DEFINE p == [r EXCEPT !.status = op, !.unattended = IF op = "ACTIVE" THEN 0 ELSE @]
  <2>1. row' = [row EXCEPT ![o] = p]
    BY <1>0, <1>3 DEF WriteControl, SetOrderStatus
  <2>2. op \in Statuses
    BY <1>0, <1>3
  <2>3. /\ p \in OrderRows /\ p.status = op /\ p.terms = r.terms /\ p.cycles = r.cycles /\ p.open = r.open
        /\ p.unattended = IF op = "ACTIVE" THEN 0 ELSE r.unattended
    BY <1>0, <2>2 DEF OrderRows
  <2> HIDE DEF p
  <2> QED BY <1>0, <1>3, <2>1, <2>3
<1> QED BY <1>1, <1>2, <1>3

\* What stopOrder writes to the row of the order.
LEMMA WriteStopRow ==
    ASSUME OrderTyped, NEW t \in Turns, WriteStop(t)
    PROVE  LET o == turn[t].cur  r == row[turn[t].cur]  p == row'[turn[t].cur] IN
           /\ o \in Orders /\ row' \in [Orders -> OrderRows] /\ \A q \in Orders : q # o => row'[q] = row[q]
           /\ p.status = turn[t].want /\ turn[t].want # "ACTIVE" /\ turn[t].want \in Statuses
           /\ p.cycles = r.cycles /\ p.open = r.open /\ p.unattended = r.unattended /\ p.terms = r.terms
<1> DEFINE o == turn[t].cur  r == row[o]  want == turn[t].want
           p == [r EXCEPT !.status = want, !.unattended = IF want = "ACTIVE" THEN 0 ELSE @]
<1>1. turn[t] \in TurnRecords /\ AtAnOrder(turn[t]) /\ turn[t].pc = "stopped"
  BY DEF OrderTyped, WriteStop, Turn
<1>2. o \in Orders /\ want # "ACTIVE" /\ want \in Statuses
  BY <1>1 DEF AtAnOrder, TurnRecords, Stopping
<1>3. row' = [row EXCEPT ![o] = p] /\ row \in [Orders -> OrderRows] /\ r \in OrderRows
  BY <1>2 DEF WriteStop, SetOrderStatus, OrderTyped
<1>4. /\ p \in OrderRows /\ p.status = want /\ p.terms = r.terms /\ p.cycles = r.cycles /\ p.open = r.open
      /\ p.unattended = r.unattended
  BY <1>2, <1>3 DEF OrderRows
<1> HIDE DEF p
<1> QED BY <1>2, <1>3, <1>4

\* And what the count and the claim of a trigger do to it.
LEMMA CountRow ==
    ASSUME OrderTyped, NEW t \in Turns, Count(t)
    PROVE  LET o == turn[t].order  r == row[turn[t].order]  p == row'[turn[t].order] IN
           /\ o \in Orders /\ UNCHANGED <<hist, cycled, ctl, inFlight, seq, faults>>
           /\ \A q \in Orders : q # o => row'[q] = row[q]
           /\ p.status = r.status /\ p.open = r.open /\ p.terms = r.terms
           /\ \/ UNCHANGED row /\ r.status # "ACTIVE"
              \/ r.status = "ACTIVE" /\ p.cycles = r.cycles + 1 /\ p.unattended = r.unattended + 1
<1> DEFINE o == turn[t].order  r == row[o]  n == r.cycles + 1  m == r.unattended + 1
<1>1. o \in Orders /\ row \in [Orders -> OrderRows] /\ UNCHANGED <<hist, cycled, ctl, inFlight, seq, faults>>
  BY CountGoes DEF OrderTyped
<1>2. r \in OrderRows
  BY <1>1
<1>3. \/ UNCHANGED row /\ r.status # "ACTIVE"
      \/ r.status = "ACTIVE" /\ row' = [row EXCEPT ![o] = [r EXCEPT !.cycles = n, !.unattended = m]]
  <2>1. CASE r.status # "ACTIVE"
    BY <2>1, CountGoes
  <2>2. CASE r.status = "ACTIVE"
    <3>1. row' = [row EXCEPT ![o] = [r EXCEPT !.cycles = @ + 1, !.unattended = @ + 1]]
      BY <2>2, CountGoes
    <3>2. [r EXCEPT !.cycles = @ + 1, !.unattended = @ + 1] = [r EXCEPT !.cycles = n, !.unattended = m]
      BY <1>2 DEF OrderRows
    <3> HIDE DEF r, n, m
    <3> QED BY <2>2, <3>1, <3>2
  <2> QED BY <2>1, <2>2
<1> DEFINE p == [r EXCEPT !.cycles = n, !.unattended = m]
<1>4. p.status = r.status /\ p.open = r.open /\ p.terms = r.terms /\ p.cycles = n /\ p.unattended = m
  <2> HIDE DEF n, m
  <2> QED BY <1>2 DEF OrderRows
<1> HIDE DEF p
<1> QED BY <1>1, <1>3, <1>4 DEF p

\* What claimTrigger writes to it.
LEMMA ClaimRow ==
    ASSUME OrderTyped, NEW t \in Turns, ClaimTrigger(t)
    PROVE  LET o == turn[t].cur  r == row[turn[t].cur]  p == row'[turn[t].cur] IN
           /\ o \in Orders /\ \A q \in Orders : q # o => row'[q] = row[q]
           /\ p.status = r.status /\ p.cycles = r.cycles /\ p.unattended = r.unattended /\ p.terms = r.terms
           /\ \/ UNCHANGED row /\ ~NewTrigger(o, turn[t].done)
              \/ NewTrigger(o, turn[t].done) /\ p.open = turn[t].done
           /\ UNCHANGED <<hist, cycled, ctl, inFlight, seq, faults>>
<1> DEFINE o == turn[t].cur  r == row[o]  n == turn[t].done  p == [r EXCEPT !.open = n]
<1>1. turn[t] \in TurnRecords /\ AtAnOrder(turn[t]) /\ turn[t].pc = "claim" /\ row \in [Orders -> OrderRows]
  BY PutGoes DEF OrderTyped
<1>2. o \in Orders /\ r \in OrderRows
  BY <1>1 DEF AtAnOrder
<1>3. row' = IF NewTrigger(o, n) THEN [row EXCEPT ![o] = p] ELSE row
  BY DEF ClaimTrigger, Claimed
<1>4. p.status = r.status /\ p.cycles = r.cycles /\ p.unattended = r.unattended /\ p.terms = r.terms /\ p.open = n
  BY <1>2 DEF OrderRows
<1> HIDE DEF p
<1> QED BY <1>1, <1>2, <1>3, <1>4 DEF ClaimTrigger

\* A post in the room: an order's count of what went unattended starts again.
LEMMA AttendRow ==
    ASSUME OrderTyped, Attend, NEW o \in Orders
    PROVE  /\ row'[o].status = row[o].status /\ row'[o].cycles = row[o].cycles /\ row'[o].open = row[o].open
           /\ row'[o].terms = row[o].terms /\ row'[o].unattended = IF row[o].status = "ACTIVE" THEN 0 ELSE row[o].unattended
           /\ UNCHANGED <<hist, cycled, turn, ctl, inFlight, seq, faults>>
<1>1. row[o] \in OrderRows
  BY DEF OrderTyped
<1> QED BY <1>1 DEF Attend, OrderRows

\* A count says whether it was made beside another's.
LEMMA CountCrowds ==
    ASSUME OrderTyped, NEW t \in Turns, Count(t)
    PROVE  /\ crowded' \in [Orders -> Nat]
           /\ \A o \in Orders : crowded'[o] \in {crowded[o], crowded[o] + 1}
           /\ row[turn[t].order].status = "ACTIVE" /\ (\E u \in Turns : Handling(u, turn[t].order))
                => crowded'[turn[t].order] = crowded[turn[t].order] + 1
<1> DEFINE o == turn[t].order
<1>1. o \in Orders /\ crowded \in [Orders -> Nat]
  BY CountGoes DEF OrderTyped
<1>2. [row[o] EXCEPT !.cycles = @ + 1, !.unattended = @ + 1].status = row[o].status
  BY <1>1 DEF OrderTyped, OrderRows
<1>3. CASE row[o].status # "ACTIVE"
  <2>1. crowded' = crowded
    BY <1>2, <1>3 DEF Count
  <2> QED BY <1>1, <1>3, <2>1
<1>4. CASE row[o].status = "ACTIVE"
  <2> DEFINE some == \E u \in Turns : Handling(u, o)
  <2>1. crowded' = [crowded EXCEPT ![o] = IF some THEN @ + 1 ELSE @]
    BY <1>2, <1>4 DEF Count
  <2> HIDE DEF some
  <2>2. crowded' = [crowded EXCEPT ![o] = IF some THEN crowded[o] + 1 ELSE crowded[o]]
    BY <1>1, <2>1
  <2>3. (some => crowded'[o] = crowded[o] + 1) /\ \A p \in Orders : crowded'[p] \in {crowded[p], crowded[p] + 1}
    BY <1>1, <2>2
  <2>4. crowded' \in [Orders -> Nat]
    BY <1>1, <2>2
  <2> QED BY <2>3, <2>4 DEF some
<1> QED BY <1>3, <1>4


\* Every step keeps every variable's type.
LEMMA OrderTypeStep == OrderTyped /\ [OrderNext]_orderVars => OrderTyped'
<1> SUFFICES ASSUME OrderTyped, [OrderNext]_orderVars PROVE OrderTyped'
  OBVIOUS
<1>0. /\ row \in [Orders -> OrderRows] /\ hist \in [Orders -> Seq(Statuses \cup {"edit"})] /\ cycled \in [Orders -> SUBSET Nat]
      /\ turn \in [Turns -> TurnRecords] /\ ctl \in [Controls -> CtlRecords]
      /\ inFlight \subseteq Members /\ trailing \subseteq Turns /\ crowded \in [Orders -> Nat]
      /\ seq \in Nat /\ faults \in 0..MaxFaults
      /\ \A t \in Turns : AtAnOrder(turn[t])
      /\ \A c \in Controls : ctl[c].pc = "append" => ctl[c].op # "create"
  BY DEF OrderTyped
<1>1. ASSUME NEW c \in Controls, Create(c) \/ ReadControl(c) \/ ReadEdit(c) \/ CtlStep(c) PROVE OrderTyped'
  <2>1. PICK s : CtlGoes(c, s)
    BY <1>1, CtlSteps DEF CtlStep
  <2>2. ctl' \in [Controls -> CtlRecords] /\ \A d \in Controls : ctl'[d].pc = "append" => ctl'[d].op # "create"
    BY <1>0, <2>1 DEF CtlGoes
  <2>3. hist' \in [Orders -> Seq(Statuses \cup {"edit"})]
    <3>1. CASE Create(c)
      <4>1. "ACTIVE" \in Statuses \cup {"edit"}
        BY DEF Statuses
      <4> QED BY <1>0, <3>1, <4>1 DEF Create
    <3>2. CASE AppendControl(c)
      <4>1. PICK op \in Statuses \cup {"edit"}, o \in Orders : hist' = [hist EXCEPT ![o] = Append(@, op)]
        BY <3>2, CtlSteps DEF CtlRecords
      <4> QED BY <1>0, <4>1
    <3>3. CASE ~Create(c) /\ ~AppendControl(c)
      BY <1>0, <1>1, <3>3 DEF ReadControl, ReadEdit, CtlStep, WriteControl
    <3> QED BY <3>1, <3>2, <3>3
  <2>4. row' \in [Orders -> OrderRows]
    <3>1. CASE WriteControl(c)
      BY <3>1, WriteControlRow
    <3>2. CASE ~WriteControl(c)
      BY <1>0, <1>1, <3>2 DEF Create, ReadControl, ReadEdit, CtlStep, AppendControl
    <3> QED BY <3>1, <3>2
  <2> QED BY <1>0, <2>1, <2>2, <2>3, <2>4 DEF OrderTyped, CtlGoes
<1>2. CASE Attend
  <2>1. row' \in [Orders -> OrderRows]
    BY <1>0, <1>2, RowTyping DEF Attend
  <2> QED BY <1>0, <1>2, <2>1 DEF OrderTyped, Attend
<1>3. ASSUME NEW m \in Members, Ask(m) PROVE OrderTyped'
  BY <1>0, <1>3, AskBegins DEF OrderTyped, Ask
<1>4. ASSUME NEW t \in Turns, TurnStep(t) \/ Throw(t) PROVE OrderTyped'
  <2>1. turn' \in [Turns -> TurnRecords] /\ \A u \in Turns : AtAnOrder(turn'[u])
    <3>1. CASE Summon(t)
      BY <3>1, SummonGoes
    <3>2. CASE ~Summon(t)
      BY <1>4, <3>2, TurnSteps, MovesOne
    <3> QED BY <3>1, <3>2
  <2>2. turn[t] \in TurnRecords /\ AtAnOrder(turn[t])
    BY <1>0
  <2>3. turn[t].member \in Members /\ turn[t].trigger \in Nat /\ turn[t].done \in Nat /\ turn[t].want \in Statuses
    BY <2>2 DEF TurnRecords
  <2>4. ctl' = ctl
    BY <1>4, ThrowGoes DEF TurnStep, Admit, Refuse, ReadTerms, Count, AppendCycled, Finish, ReadForStop, AppendStop, WriteStop,
         TellStopped, AfterFailure, List, Gate, Busy, Idle, ClaimTrigger, Summon, Walked
  <2>5. row' \in [Orders -> OrderRows]
    <3>1. CASE Count(t)
      <4>1. turn[t].order \in Orders
        BY <3>1, CountGoes
      <4> DEFINE p == [row[turn[t].order] EXCEPT !.cycles = @ + 1, !.unattended = @ + 1]
      <4>2. UNCHANGED row \/ row' = [row EXCEPT ![turn[t].order] = p]
        BY <3>1, CountGoes
      <4>3. p \in OrderRows
        BY <2>3, <4>1, RowTyping
      <4> HIDE DEF p
      <4> QED BY <1>0, <4>1, <4>2, <4>3
    <3>2. CASE WriteStop(t)
      BY <3>2, WriteStopRow
    <3>3. CASE ClaimTrigger(t)
      <4>1. turn[t].cur \in Orders
        BY <2>2, <3>3, PutGoes DEF AtAnOrder
      <4>2. UNCHANGED row \/ row' = [row EXCEPT ![turn[t].cur] = [row[turn[t].cur] EXCEPT !.open = turn[t].done]]
        BY <3>3 DEF ClaimTrigger, Claimed
      <4> DEFINE p == [row[turn[t].cur] EXCEPT !.open = turn[t].done]
      <4>3. p \in OrderRows
        BY <2>3, <4>1, RowTyping
      <4> HIDE DEF p
      <4> QED BY <1>0, <4>1, <4>2, <4>3 DEF p
    <3>4. CASE ~Count(t) /\ ~WriteStop(t) /\ ~ClaimTrigger(t)
      BY <1>0, <1>4, <3>4, ThrowGoes DEF TurnStep, Admit, Refuse, ReadTerms, AppendCycled, Finish, ReadForStop, AppendStop,
           TellStopped, AfterFailure, List, Gate, Busy, Idle, Summon, Walked
    <3> QED BY <3>1, <3>2, <3>3, <3>4
  <2>6. hist' \in [Orders -> Seq(Statuses \cup {"edit"})]
    <3>1. CASE AppendStop(t)
      <4>1. PICK want \in Statuses \cup {"edit"}, o \in Orders : hist' = [hist EXCEPT ![o] = Append(@, want)]
        <5>1. turn[t].cur \in Orders
          BY <2>2, <3>1, PutGoes DEF AtAnOrder, Stopping
        <5> QED BY <2>3, <3>1, <5>1 DEF AppendStop
      <4> QED BY <1>0, <4>1
    <3>2. CASE ~AppendStop(t)
      BY <1>0, <1>4, <3>2, ThrowGoes DEF TurnStep, Admit, Refuse, ReadTerms, Count, AppendCycled, Finish, ReadForStop, WriteStop,
           TellStopped, AfterFailure, List, Gate, Busy, Idle, ClaimTrigger, Summon, Walked
    <3> QED BY <3>1, <3>2
  <2>7. cycled' \in [Orders -> SUBSET Nat]
    <3>1. CASE AppendCycled(t)
      BY <1>0, <2>3, <3>1 DEF AppendCycled
    <3>2. CASE ~AppendCycled(t)
      BY <1>0, <1>4, <3>2, ThrowGoes DEF TurnStep, Admit, Refuse, ReadTerms, Count, Finish, ReadForStop, AppendStop, WriteStop,
           TellStopped, AfterFailure, List, Gate, Busy, Idle, ClaimTrigger, Summon, Walked
    <3> QED BY <3>1, <3>2
  <2>8. inFlight' \subseteq Members /\ seq' \in Nat /\ faults' \in 0..MaxFaults
    <3>1. CASE Throw(t)
      BY <1>0, <3>1, ThrowGoes
    <3>2. ASSUME NEW ok \in BOOLEAN, Finish(t, ok) PROVE inFlight' \subseteq Members /\ seq' \in Nat /\ faults' \in 0..MaxFaults
      BY <1>0, <3>2 DEF Finish
    <3>3. CASE Admit(t)
      BY <1>0, <2>3, <3>3 DEF Admit
    <3>4. CASE UNCHANGED <<inFlight, seq, faults>>
      BY <1>0, <3>4
    <3> QED BY <1>4, <3>1, <3>2, <3>3, <3>4 DEF TurnStep, Refuse, ReadTerms, Count, AppendCycled, ReadForStop, AppendStop, WriteStop,
           TellStopped, AfterFailure, List, Gate, Busy, Idle, ClaimTrigger, Summon, Walked
  <2>9. trailing' \subseteq Turns /\ crowded' \in [Orders -> Nat]
    <3>1. CASE Throw(t)
      BY <1>0, <3>1, ThrowGoes
    <3>2. ASSUME NEW ok \in BOOLEAN, Finish(t, ok) PROVE trailing' \subseteq Turns /\ crowded' \in [Orders -> Nat]
      BY <1>0, <3>2 DEF Finish
    <3>3. CASE Count(t)
      BY <1>0, <3>3, CountCrowds DEF Count
    <3>4. CASE UNCHANGED <<trailing, crowded>>
      BY <1>0, <3>4
    <3> QED BY <1>4, <3>1, <3>2, <3>3, <3>4 DEF TurnStep, Admit, Refuse, ReadTerms, AppendCycled, ReadForStop, AppendStop, WriteStop,
           TellStopped, AfterFailure, List, Gate, Busy, Idle, ClaimTrigger, Summon, Walked
  <2> QED BY <1>0, <2>1, <2>4, <2>5, <2>6, <2>7, <2>8, <2>9 DEF OrderTyped
<1>7. ASSUME NEW t \in Turns, Finally(t) PROVE OrderTyped'
  BY <1>0, <1>7 DEF OrderTyped, Finally
<1>5. CASE Restart
  <2>1. /\ turn' \in [Turns -> TurnRecords] /\ \A t \in Turns : AtAnOrder(turn'[t])
        /\ ctl' \in [Controls -> CtlRecords] /\ \A c \in Controls : ctl'[c].pc # "append"
    BY <1>5, RestartEnds
  <2>2. faults' \in 0..MaxFaults /\ inFlight' = {} /\ trailing' = {} /\ UNCHANGED <<row, hist, cycled, crowded, seq>>
    BY <1>0, <1>5, BoundsAssumption DEF Restart
  <2> QED BY <1>0, <2>1, <2>2 DEF OrderTyped
<1>6. CASE UNCHANGED orderVars
  BY <1>0, <1>6 DEF OrderTyped, orderVars
<1> QED BY <1>1, <1>2, <1>3, <1>4, <1>5, <1>6, <1>7 DEF OrderNext

\* The types at the start.
LEMMA OrderTypedInit == OrderInit => OrderTyped
<1> SUFFICES ASSUME OrderInit PROVE OrderTyped
  OBVIOUS
<1>1. (CHOOSE m \in Members : TRUE) \in Members
  BY WiringAssumption, OrdersAssumption, Zenon
<1> DEFINE m0 == CHOOSE m \in Members : TRUE
           rec == [pc |-> "none", member |-> m0, order |-> NoOrder, trigger |-> 0, done |-> 0, todo |-> {},
                   cur |-> NoOrder, want |-> "PAUSED", back |-> "over", terms |-> Default]
<1>2. turn = [t \in Turns |-> rec]
  BY DEF OrderInit
<1> HIDE DEF m0
<1>3. rec \in TurnRecords /\ AtAnOrder(rec) /\ rec.pc = "none"
  BY <1>1, DefaultIsTerms DEF m0, TurnRecords, Statuses, AtAnOrder, Stopping
<1> HIDE DEF rec
<1>4. turn \in [Turns -> TurnRecords] /\ \A t \in Turns : AtAnOrder(turn[t])
  BY <1>2, <1>3
<1>5. row \in [Orders -> OrderRows]
  <2>1. ASSUME NEW status \in {"ACTIVE", "none"}
        PROVE  [status |-> status, cycles |-> 0, unattended |-> 0, open |-> 0, terms |-> Default] \in OrderRows
    BY DefaultIsTerms DEF OrderRows, Statuses
  <2> DEFINE first(o) == [status |-> IF o \in Existing THEN "ACTIVE" ELSE "none", cycles |-> 0, unattended |-> 0,
                          open |-> 0, terms |-> Default]
  <2>2. row = [o \in Orders |-> first(o)]
    BY DEF OrderInit
  <2>3. ASSUME NEW o \in Orders PROVE first(o) \in OrderRows
    <3>1. CASE o \in Existing
      BY <2>1, <3>1
    <3>2. CASE o \notin Existing
      BY <2>1, <3>2
    <3> QED BY <3>1, <3>2
  <2> HIDE DEF first
  <2> QED BY <2>2, <2>3
<1>6. hist \in [Orders -> Seq(Statuses \cup {"edit"})]
  <2>1. "ACTIVE" \in Statuses \cup {"edit"}
    BY DEF Statuses
  <2>2. hist = [o \in Orders |-> IF o \in Existing THEN <<"ACTIVE">> ELSE <<>>]
    BY DEF OrderInit
  <2> DEFINE said == Seq(Statuses \cup {"edit"})
  <2>3. <<"ACTIVE">> \in said /\ <<>> \in said
    BY <2>1
  <2> HIDE DEF said
  <2>4. hist \in [Orders -> said]
    BY <2>2, <2>3
  <2> QED BY <2>4 DEF said
<1>7. ctl \in [Controls -> CtlRecords] /\ \A c \in Controls : ctl[c].pc = "none"
  <2>1. [Done EXCEPT !.pc = "none"] \in CtlRecords /\ [Done EXCEPT !.pc = "none"].pc = "none"
    BY DoneIsCtl DEF CtlRecords
  <2> QED BY <2>1 DEF OrderInit
<1>8. /\ cycled \in [Orders -> SUBSET Nat] /\ inFlight \subseteq Members /\ trailing \subseteq Turns
      /\ crowded \in [Orders -> Nat] /\ seq \in Nat /\ faults \in 0..MaxFaults
  BY BoundsAssumption DEF OrderInit
<1> QED BY <1>4, <1>5, <1>6, <1>7, <1>8 DEF OrderTyped

\* The types of the standing orders are kept.
LEMMA OrderTypes == OrderSpec => []OrderTyped
BY OrderTypeStep, OrderTypedInit, PTL DEF OrderSpec

\* An order that is settled stays so, and its row is not written again.
LEMMA SettledStep ==
    ASSUME OrderTyped, [OrderNext]_orderVars, NEW o \in Orders, Settled(o)
    PROVE  Settled(o)' /\ row'[o] = row[o]
<1>0. /\ row[o].status \in Terminal
      /\ \A c \in Controls : ctl[c].order = o => ctl[c].pc \in {"none", "over"}
      /\ \A t \in Turns : turn[t].cur = o => turn[t].pc \notin {"stopping", "stopped"}
      /\ ctl \in [Controls -> CtlRecords] /\ turn \in [Turns -> TurnRecords] /\ row \in [Orders -> OrderRows]
  BY DEF Settled, OrderTyped
<1>1. SUFFICES /\ row'[o] = row[o]
               /\ \A c \in Controls : ctl'[c].order = o => ctl'[c].pc \in {"none", "over"}
               /\ \A t \in Turns : turn'[t].cur = o => turn'[t].pc \notin {"stopping", "stopped"}
  BY <1>0 DEF Settled
<1>2. ASSUME NEW c \in Controls, Create(c) \/ ReadControl(c) \/ ReadEdit(c) \/ CtlStep(c)
      PROVE  /\ row'[o] = row[o] /\ UNCHANGED turn
             /\ \A d \in Controls : ctl'[d].order = o => ctl'[d].pc \in {"none", "over"}
  <2>1. CASE Create(c)
    <3>1. PICK q \in Orders, terms \in Terms :
            CtlGoes(c, [pc |-> "write", op |-> "create", order |-> q, terms |-> terms]) /\ ~Live(q) /\ UNCHANGED row
      BY <2>1, CtlSteps
    <3>2. q # o
      BY <1>0, <3>1 DEF Live, Terminal
    <3> QED BY <1>0, <3>1, <3>2 DEF CtlGoes
  <2>2. CASE ReadControl(c) \/ ReadEdit(c)
    <3>1. PICK s : CtlGoes(c, s) /\ row[s.order].status \in {"ACTIVE", "PAUSED"} /\ UNCHANGED row
      BY <2>2, CtlSteps
    <3>2. s.order # o
      BY <1>0, <3>1 DEF Terminal
    <3> QED BY <1>0, <3>1, <3>2 DEF CtlGoes
  <2>3. CASE AppendControl(c)
    <3>1. PICK s : CtlGoes(c, s) /\ ctl[c].pc = "append" /\ s.order = ctl[c].order /\ UNCHANGED row
      BY <2>3, CtlSteps
    <3> QED BY <1>0, <3>1 DEF CtlGoes
  <2>4. CASE WriteControl(c)
    <3>1. PICK s : CtlGoes(c, s) /\ ctl[c].pc = "write" /\ s.pc = "over"
      BY <2>4, CtlSteps
    <3>2. ctl[c].order # o
      BY <1>0, <3>1
    <3>3. row'[o] = row[o]
      BY <2>4, <3>2, WriteControlRow
    <3> QED BY <1>0, <3>1, <3>3 DEF CtlGoes
  <2> QED BY <1>2, <2>1, <2>2, <2>3, <2>4 DEF CtlStep
<1>3. CASE Attend
  BY <1>0, <1>3 DEF Attend, Terminal
<1>4. ASSUME NEW m \in Members, Ask(m)
      PROVE  UNCHANGED <<row, ctl>> /\ \A t \in Turns : turn'[t].cur = o => turn'[t].pc \notin {"stopping", "stopped"}
  <2>1. PICK u \in Turns : turn'[u].pc = "queued" /\ \A v \in Turns : v # u => turn'[v] = turn[v]
    BY <1>4, AskBegins DEF Begins
  <2> QED BY <1>0, <1>4, <2>1 DEF Ask
<1>5. ASSUME NEW t \in Turns, TurnStep(t) \/ Throw(t)
      PROVE  /\ row'[o] = row[o] /\ UNCHANGED ctl
             /\ \A u \in Turns : turn'[u].cur = o => turn'[u].pc \notin {"stopping", "stopped"}
  <2>1. UNCHANGED ctl
    BY <1>5, ThrowGoes DEF TurnStep, Admit, Refuse, ReadTerms, Count, AppendCycled, Finish, ReadForStop, AppendStop, WriteStop,
       TellStopped, AfterFailure, List, Gate, Busy, Idle, ClaimTrigger, Summon, Walked
  <2>2. row'[o] = row[o]
    <3>1. CASE Count(t)
      BY <1>0, <3>1, CountGoes DEF Terminal
    <3>2. CASE WriteStop(t)
      <4>1. turn[t].cur # o
        BY <1>0, <3>2, PutGoes
      <4> QED BY <3>2, <4>1, WriteStopRow
    <3>3. CASE ClaimTrigger(t)
      BY <1>0, <3>3 DEF ClaimTrigger, NewTrigger, Terminal
    <3>4. CASE ~Count(t) /\ ~WriteStop(t) /\ ~ClaimTrigger(t)
      BY <1>5, <3>4, ThrowGoes DEF TurnStep, Admit, Refuse, ReadTerms, AppendCycled, Finish, ReadForStop, AppendStop,
         TellStopped, AfterFailure, List, Gate, Busy, Idle, Summon, Walked
    <3> QED BY <3>1, <3>2, <3>3, <3>4
  <2>3. \A u \in Turns : turn'[u].cur = o => turn'[u].pc \notin {"stopping", "stopped"}
    <3>1. CASE Summon(t)
      BY <1>0, <3>1, SummonGoes DEF Begins, Moves
    <3>2. CASE ~Summon(t)
      <4>1. PICK s : Moves(t, s) /\ Steps(turn[t], s)
        BY <1>5, <3>2, TurnSteps
      <4>2. turn'[t] = s /\ \A u \in Turns : u # t => turn'[u] = turn[u]
        BY <4>1, MovesOne
      <4>3. s.cur = o => s.pc \notin {"stopping", "stopped"}
        <5>1. CASE turn[t].pc # "stop"
          BY <1>0, <4>1, <5>1 DEF Steps
        <5>2. CASE turn[t].pc = "stop"
          <6>1. ReadForStop(t) \/ Throw(t)
            BY <1>5, <3>2, <5>2 DEF TurnStep, Turn, Admit, Refuse, ReadTerms, Count, AppendCycled, Finish, AppendStop, WriteStop,
               TellStopped, AfterFailure, List, Gate, Busy, Idle, ClaimTrigger, Walked
          <6>2. CASE Throw(t)
            BY <4>1, <4>2, <6>2, ThrowGoes, MovesOne
          <6>3. CASE ReadForStop(t)
            <7>1. row[turn[t].cur].status = "ACTIVE" \/ turn'[t].pc # "stopping"
              <8>1. PICK to \in {"stopping", turn[t].back} :
                      /\ Moves(t, Put(turn[t], to)) /\ Steps(turn[t], Put(turn[t], to))
                      /\ to = "stopping" <=> row[turn[t].cur].status = "ACTIVE"
                BY <6>3, PutGoes
              <8>2. turn'[t] = Put(turn[t], to)
                BY <8>1, MovesOne
              <8>3. turn[t] \in TurnRecords /\ to \in Places
                BY <1>0 DEF TurnRecords, Places, Streaming, Stopping, Walking
              <8> QED BY <8>1, <8>2, <8>3, PutTyping
            <7> QED BY <1>0, <4>1, <4>2, <5>2, <7>1 DEF Steps, Terminal
          <6> QED BY <6>1, <6>2, <6>3
        <5> QED BY <5>1, <5>2
      <4> QED BY <1>0, <4>2, <4>3
    <3> QED BY <3>1, <3>2
  <2> QED BY <2>1, <2>2, <2>3
<1>6. CASE Restart
  <2>1. /\ \A t \in Turns : turn'[t].pc \in {"none", "over"}
        /\ \A c \in Controls : ctl'[c].pc \in {"none", "over"}
    BY <1>6, RestartEnds
  <2> QED BY <1>6, <2>1 DEF Restart
<1>7. CASE UNCHANGED orderVars
  BY <1>0, <1>7 DEF orderVars
<1> QED BY <1>0, <1>2, <1>3, <1>4, <1>5, <1>6, <1>7 DEF OrderNext, Attend, Finally

\* For every number of orders, turns, commands and faults: an order that is terminal, with every
\* writer that judged it earlier through, is over for good.
THEOREM SettledIsOverHolds == OrderSpec => SettledIsOver
<1>1. OrderTyped /\ [OrderNext]_orderVars => [\A o \in Orders : Settled(o) => Settled(o)' /\ row'[o] = row[o]]_orderVars
  BY SettledStep
<1> QED BY <1>1, OrderTypes, PTL DEF OrderSpec, SettledIsOver

\* What is appended to an order's history is said, and what was said stays.
LEMMA SaidAppend ==
    ASSUME OrderTyped, NEW o \in Orders, NEW what \in Statuses \cup {"edit"}, hist' = [hist EXCEPT ![o] = Append(@, what)]
    PROVE  Said(o)' = Said(o) \cup {what} /\ \A q \in Orders : q # o => Said(q)' = Said(q)
<1>1. hist \in [Orders -> Seq(Statuses \cup {"edit"})]
  BY DEF OrderTyped
<1>2. hist'[o] = Append(hist[o], what) /\ \A q \in Orders : q # o => hist'[q] = hist[q]
  BY <1>1
<1>3. hist[o] \in Seq(Statuses \cup {"edit"})
  BY <1>1
<1>4. /\ DOMAIN Append(hist[o], what) = DOMAIN hist[o] \cup {Len(hist[o]) + 1}
      /\ \A i \in DOMAIN hist[o] : Append(hist[o], what)[i] = hist[o][i]
      /\ Append(hist[o], what)[Len(hist[o]) + 1] = what
  BY <1>3
<1>5. {Append(hist[o], what)[i] : i \in DOMAIN Append(hist[o], what)} = {hist[o][i] : i \in DOMAIN hist[o]} \cup {what}
  BY <1>4
<1> QED BY <1>2, <1>5 DEF Said

\* An order that is there stays there, and its history keeps what it says.
LEMMA OrdersStay ==
    ASSUME OrderTyped, [OrderNext]_orderVars
    PROVE  \A o \in Orders : (Live(o) => Live(o)') /\ Said(o) \subseteq Said(o)'
<1>0. row \in [Orders -> OrderRows]
  BY DEF OrderTyped
<1>1. ASSUME NEW c \in Controls, Create(c) PROVE \A o \in Orders : (Live(o) => Live(o)') /\ Said(o) \subseteq Said(o)'
  <2>1. PICK q \in Orders : hist[q] = <<>> /\ hist' = [hist EXCEPT ![q] = <<"ACTIVE">>] /\ UNCHANGED row
    BY <1>1, CtlSteps
  <2>2. Said(q) = {} /\ \A o \in Orders : o # q => Said(o)' = Said(o)
    BY <2>1 DEF Said, OrderTyped
  <2> QED BY <2>1, <2>2 DEF Live
<1>2. ASSUME NEW o \in Orders, NEW what \in Statuses \cup {"edit"}, hist' = [hist EXCEPT ![o] = Append(@, what)], UNCHANGED row
      PROVE \A q \in Orders : (Live(q) => Live(q)') /\ Said(q) \subseteq Said(q)'
  BY <1>2, SaidAppend DEF Live
<1>3. ASSUME NEW c \in Controls, AppendControl(c) PROVE \A o \in Orders : (Live(o) => Live(o)') /\ Said(o) \subseteq Said(o)'
  <2>1. ctl[c].order \in Orders /\ ctl[c].op \in Statuses \cup {"edit"} /\ UNCHANGED row
        /\ hist' = [hist EXCEPT ![ctl[c].order] = Append(@, ctl[c].op)]
    BY <1>3, CtlSteps DEF CtlRecords
  <2> QED BY <1>2, <2>1
<1>4. ASSUME NEW t \in Turns, AppendStop(t) PROVE \A o \in Orders : (Live(o) => Live(o)') /\ Said(o) \subseteq Said(o)'
  <2>1. turn[t] \in TurnRecords /\ AtAnOrder(turn[t]) /\ turn[t].pc = "stopping"
    BY <1>4 DEF OrderTyped, AppendStop, Turn
  <2>2. turn[t].cur \in Orders /\ turn[t].want \in Statuses \cup {"edit"}
    BY <2>1 DEF AtAnOrder, TurnRecords, Stopping
  <2> QED BY <1>2, <1>4, <2>2 DEF AppendStop
<1>5. ASSUME UNCHANGED hist, \A o \in Orders : Live(o) => row'[o].status # "none"
      PROVE  \A o \in Orders : (Live(o) => Live(o)') /\ Said(o) \subseteq Said(o)'
  BY <1>5 DEF Live, Said
<1>6. ASSUME NEW c \in Controls, WriteControl(c) PROVE UNCHANGED hist /\ \A o \in Orders : Live(o) => row'[o].status # "none"
  <2>1. ctl[c].op \in {"create", "edit"} \cup Statuses
    BY CtlSteps DEF CtlRecords
  <2> QED BY <1>6, <2>1, WriteControlRow DEF WriteControl, Live, Statuses, Terminal
<1>7. ASSUME NEW t \in Turns, WriteStop(t) PROVE UNCHANGED hist /\ \A o \in Orders : Live(o) => row'[o].status # "none"
  BY <1>7, WriteStopRow DEF WriteStop, Live, Statuses, Terminal
<1>8. ASSUME NEW t \in Turns, Count(t) PROVE UNCHANGED hist /\ \A o \in Orders : Live(o) => row'[o].status # "none"
  BY <1>8, CountRow DEF Live
<1>9. ASSUME NEW t \in Turns, ClaimTrigger(t) PROVE UNCHANGED hist /\ \A o \in Orders : Live(o) => row'[o].status # "none"
  BY <1>9, ClaimRow DEF ClaimTrigger, Live
<1>10. CASE Attend
  <2>1. \A o \in Orders : row'[o].status = row[o].status
    BY <1>10, AttendRow
  <2> QED BY <1>5, <1>10, <2>1 DEF Attend, Live
<1>11. CASE UNCHANGED <<row, hist>>
  BY <1>5, <1>11 DEF Live
<1>12. ASSUME NEW t \in Turns, Throw(t) PROVE UNCHANGED <<row, hist>>
  BY <1>12, ThrowGoes
<1> QED BY <1>1, <1>3, <1>4, <1>5, <1>6, <1>7, <1>8, <1>9, <1>10, <1>11, <1>12 DEF OrderNext, TurnStep, CtlStep, ReadControl, ReadEdit,
           Ask, Admit, Refuse, ReadTerms, AppendCycled, Finish, ReadForStop, TellStopped, AfterFailure, List, Gate, Busy, Idle,
           Summon, Walked, Restart, Finally, orderVars

\* What was backed stays backed while orders and what is said of them stay.
LEMMA BackedStays ==
    ASSUME OrderTyped, Backed, [OrderNext]_orderVars
    PROVE  /\ \A t \in Turns : turn'[t] = turn[t] => TurnBacked(turn[t])'
           /\ \A c \in Controls, o \in Orders :
                 ctl'[c] = ctl[c] /\ ctl[c].order = o /\ (Creating(c) => ~Live(o)') => CtlBacked(ctl[c])'
<1>1. \A o \in Orders : (Live(o) => Live(o)') /\ Said(o) \subseteq Said(o)'
  BY OrdersStay
<1>2. ASSUME NEW t \in Turns, turn'[t] = turn[t] PROVE TurnBacked(turn[t])'
  <2>1. PICK r \in TurnRecords : r = turn[t] /\ r = turn'[t] /\ AtAnOrder(r) /\ TurnBacked(r)
    BY <1>2 DEF OrderTyped, Backed
  <2>2. r.order \in Orders \cup {NoOrder} /\ r.todo \subseteq Orders /\ (r.pc \in Stopping \cup {"claim", "summon"} => r.cur \in Orders)
    BY <2>1 DEF TurnRecords, AtAnOrder
  <2>3. r.pc = "stopped" => r.cur \in Orders
    BY <2>2 DEF Stopping
  <2> QED BY <1>1, <2>1, <2>2, <2>3 DEF TurnBacked
<1>3. ASSUME NEW c \in Controls, NEW o \in Orders, ctl'[c] = ctl[c], ctl[c].order = o, Creating(c) => ~Live(o)'
      PROVE  CtlBacked(ctl[c])'
  <2>1. PICK r \in CtlRecords : r = ctl[c] /\ r = ctl'[c] /\ CtlBacked(r) /\ r.order = o
    BY <1>3 DEF OrderTyped, Backed
  <2> QED BY <1>1, <1>3, <2>1 DEF CtlBacked, Creating
<1> QED BY <1>2, <1>3

\* A step of a turn keeps its record backed.
LEMMA TurnBackedStep ==
    ASSUME OrderTyped, Backed, [OrderNext]_orderVars, NEW t \in Turns, TurnStep(t) \/ Throw(t), NEW s, Moves(t, s) \/ turn'[t] = s, Steps(turn[t], s)
    PROVE  TurnBacked(s)'
<1> DEFINE r == turn[t]
<1>0. r \in TurnRecords /\ AtAnOrder(r) /\ TurnBacked(r) /\ Steps(r, s) /\ s \in TurnRecords /\ AtAnOrder(s) /\ r.pc # "none"
  BY DEF OrderTyped, Backed, Steps
<1>1. \A o \in Orders : (Live(o) => Live(o)') /\ Said(o) \subseteq Said(o)'
  BY OrdersStay
<1>2. s.pc # "none" /\ s.order # NoOrder => Live(s.order)' /\ s.member = ActOf[s.order]
  BY <1>0, <1>1 DEF Steps, TurnBacked, TurnRecords
<1>3. s.pc \in Stopping \cup {"claim", "summon"} => Live(s.cur)'
  <2>1. ASSUME s.pc \in Stopping \cup {"claim", "summon"} PROVE Live(s.cur)
    <3>1. s.cur \in Orders /\ NoOrder \notin Orders
      BY <1>0, <2>1, OrdersAssumption DEF AtAnOrder
    <3> QED BY <1>0, <2>1, <3>1 DEF Steps, TurnBacked
  <2>2. s.pc \in Stopping \cup {"claim", "summon"} => s.cur \in Orders
    BY <1>0 DEF AtAnOrder
  <2> QED BY <1>1, <2>1, <2>2
<1>4. s.pc = "stopped" => s.want \in Said(s.cur)'
  <2> SUFFICES ASSUME s.pc = "stopped" PROVE s.want \in Said(s.cur)'
    OBVIOUS
  <2>1. r.pc = "stopping" /\ s.cur = r.cur /\ s.want = r.want /\ s.pc = "stopped"
    BY <1>0 DEF Steps
  <2>2. ~Throw(t) /\ ~Summon(t)
    <3>1. ~Summon(t)
      BY <2>1 DEF Summon
    <3>2. ASSUME Throw(t) PROVE turn'[t].pc # "stopped"
      BY <3>2, ThrowGoes, MovesOne
    <3>3. turn'[t] = s
      BY <1>0, MovesOne
    <3> QED BY <2>1, <3>1, <3>2, <3>3
  <2>3. AppendStop(t)
    BY <2>1, <2>2 DEF TurnStep, Turn, Admit, Refuse, ReadTerms, Count, AppendCycled, Finish, ReadForStop, WriteStop,
       TellStopped, AfterFailure, List, Gate, Busy, Idle, ClaimTrigger, Walked
  <2>4. PICK o \in Orders, want \in Statuses \cup {"edit"} : o = r.cur /\ want = r.want
    BY <1>0, <2>1 DEF AtAnOrder, TurnRecords, Stopping
  <2>5. hist' = [hist EXCEPT ![o] = Append(@, want)]
    BY <2>3, <2>4 DEF AppendStop
  <2>6. Said(o)' = Said(o) \cup {want}
    BY <2>5, SaidAppend
  <2> QED BY <2>1, <2>4, <2>6
<1>5. \A o \in s.todo : Live(o)'
  <2>1. \A o \in s.todo : Live(o)
    <3>1. CASE s.todo \subseteq r.todo
      BY <1>0, <3>1 DEF TurnBacked
    <3>2. CASE Throw(t)
      <4>1. PICK q : Moves(t, q) /\ Steps(turn[t], q) /\ q.todo \subseteq r.todo
        BY <3>2, ThrowGoes
      <4>2. q = s
        <5>1. turn'[t] = s /\ turn'[t] = q
          BY <1>0, <4>1, MovesOne
        <5> QED BY <5>1
      <4> QED BY <1>0, <4>1, <4>2 DEF TurnBacked
    <3>3. CASE r.pc = "list" /\ ~Throw(t)
      <4>1. List(t)
        <5>1. ~Summon(t)
          BY <3>3 DEF Summon
        <5> QED BY <3>3, <5>1 DEF TurnStep, Turn, Admit, Refuse, ReadTerms, Count, AppendCycled, Finish, ReadForStop, WriteStop, AppendStop,
              TellStopped, AfterFailure, Gate, Busy, Idle, ClaimTrigger, Walked
      <4>2. turn'[t] = s
        BY <1>0, MovesOne
      <4>3. \A o \in turn'[t].todo : o \in r.todo \/ row[o].status = "ACTIVE"
        BY <4>1, WalkGoes, MovesOne
      <4> QED BY <1>0, <4>2, <4>3 DEF TurnBacked, Live
    <3> QED BY <1>0, <3>1, <3>2, <3>3 DEF Steps
  <2>2. s.todo \subseteq Orders
    BY <1>0 DEF TurnRecords
  <2> QED BY <1>1, <2>1, <2>2
<1> QED BY <1>2, <1>3, <1>4, <1>5 DEF TurnBacked

\* Every row that is written says what its history says.
LEMMA RowsBackedStep ==
    ASSUME OrderTyped, Backed, [OrderNext]_orderVars PROVE RowsBacked'
<1>0. /\ \A o \in Orders : IF Live(o) THEN row[o].status \in Said(o)
                           ELSE row[o].cycles = 0 /\ row[o].unattended = 0 /\ row[o].open = 0
      /\ row \in [Orders -> OrderRows] /\ \A t \in Turns : TurnBacked(turn[t]) /\ AtAnOrder(turn[t])
      /\ \A c \in Controls : CtlBacked(ctl[c])
  BY DEF Backed, OrderTyped, RowsBacked
<1>1. \A o \in Orders : (Live(o) => Live(o)') /\ Said(o) \subseteq Said(o)'
  BY OrdersStay
<1>2. ASSUME NEW o \in Orders, row'[o].status = row[o].status, row'[o].cycles = row[o].cycles, row'[o].open = row[o].open,
             row'[o].unattended = row[o].unattended \/ Live(o)
      PROVE  IF Live(o)' THEN row'[o].status \in Said(o)'
             ELSE row'[o].cycles = 0 /\ row'[o].unattended = 0 /\ row'[o].open = 0
  BY <1>0, <1>1, <1>2 DEF Live
<1>3. SUFFICES ASSUME NEW o \in Orders
               PROVE  IF Live(o)' THEN row'[o].status \in Said(o)'
                      ELSE row'[o].cycles = 0 /\ row'[o].unattended = 0 /\ row'[o].open = 0
  BY DEF RowsBacked
<1>4. CASE UNCHANGED row
  BY <1>2, <1>4
<1>5. ASSUME NEW c \in Controls, WriteControl(c)
      PROVE  IF Live(o)' THEN row'[o].status \in Said(o)'
             ELSE row'[o].cycles = 0 /\ row'[o].unattended = 0 /\ row'[o].open = 0
  <2>1. ctl[c].pc = "write" /\ ctl[c].op \in {"create", "edit"} \cup Statuses /\ CtlBacked(ctl[c])
    BY <1>0, <1>5, CtlSteps DEF CtlRecords
  <2>2. CASE ctl[c].order # o
    BY <1>2, <1>5, <2>2, WriteControlRow
  <2>3. CASE ctl[c].order = o /\ ctl[c].op = "edit"
    <3>1. Live(o)
      BY <2>1, <2>3 DEF CtlBacked
    <3> QED BY <1>2, <1>5, <2>3, <3>1, WriteControlRow
  <2>4. CASE ctl[c].order = o /\ ctl[c].op # "edit"
    <3>1. row'[o].status = (IF ctl[c].op = "create" THEN "ACTIVE" ELSE ctl[c].op)
      BY <1>5, <2>1, <2>4, WriteControlRow
    <3>2. row'[o].status \in Said(o)
      BY <2>1, <2>4, <3>1 DEF CtlBacked
    <3>3. row'[o].status # "none"
      BY <2>1, <2>4, <3>1 DEF Statuses, Terminal
    <3> QED BY <1>1, <3>2, <3>3 DEF Live
  <2> QED BY <2>2, <2>3, <2>4
<1>6. ASSUME NEW t \in Turns, WriteStop(t)
      PROVE  IF Live(o)' THEN row'[o].status \in Said(o)'
             ELSE row'[o].cycles = 0 /\ row'[o].unattended = 0 /\ row'[o].open = 0
  <2>1. CASE turn[t].cur # o
    BY <1>2, <1>6, <2>1, WriteStopRow
  <2>2. CASE turn[t].cur = o
    <3>1. turn[t].pc = "stopped" /\ turn[t].want \in Said(o)
      BY <1>0, <1>6, <2>2, PutGoes DEF TurnBacked
    <3>2. row'[o].status = turn[t].want /\ turn[t].want # "none"
      BY <1>6, <2>2, WriteStopRow DEF Statuses, Terminal
    <3> QED BY <1>1, <3>1, <3>2 DEF Live
  <2> QED BY <2>1, <2>2
<1>7. ASSUME NEW t \in Turns, Count(t)
      PROVE  IF Live(o)' THEN row'[o].status \in Said(o)'
             ELSE row'[o].cycles = 0 /\ row'[o].unattended = 0 /\ row'[o].open = 0
  <2>1. CASE turn[t].order # o
    BY <1>2, <1>7, <2>1, CountRow
  <2>2. CASE turn[t].order = o
    <3>1. (row[o].status = "ACTIVE" /\ row'[o].status = "ACTIVE") \/ UNCHANGED row
      BY <1>7, <2>2, CountRow
    <3> QED BY <1>0, <1>1, <1>4, <3>1 DEF Live
  <2> QED BY <2>1, <2>2
<1>8. ASSUME NEW t \in Turns, ClaimTrigger(t)
      PROVE  IF Live(o)' THEN row'[o].status \in Said(o)'
             ELSE row'[o].cycles = 0 /\ row'[o].unattended = 0 /\ row'[o].open = 0
  <2>1. CASE turn[t].cur # o
    BY <1>2, <1>8, <2>1, ClaimRow
  <2>2. CASE turn[t].cur = o
    <3>1. (row[o].status = "ACTIVE" /\ row'[o].status = "ACTIVE") \/ UNCHANGED row
      BY <1>8, <2>2, ClaimRow DEF NewTrigger
    <3> QED BY <1>0, <1>1, <1>4, <3>1 DEF Live
  <2> QED BY <2>1, <2>2
<1>9. CASE Attend
  BY <1>2, <1>9, AttendRow DEF Live
<1>10. ASSUME NEW t \in Turns, Throw(t) PROVE UNCHANGED row
  BY <1>10, ThrowGoes
<1> QED BY <1>4, <1>5, <1>6, <1>7, <1>8, <1>9, <1>10 DEF OrderNext, TurnStep, CtlStep, Create, ReadControl, ReadEdit, AppendControl,
           Ask, Admit, Refuse, ReadTerms, AppendCycled, Finish, ReadForStop, AppendStop, TellStopped, AfterFailure, List, Gate,
           Busy, Idle, Summon, Walked, Restart, Finally, orderVars

\* So are the turns and the commands that go on to write one.
LEMMA TurnsBackedStep ==
    ASSUME OrderTyped, Backed, [OrderNext]_orderVars PROVE \A t \in Turns : TurnBacked(turn[t])'
<1>0. \A t \in Turns : turn[t] \in TurnRecords /\ AtAnOrder(turn[t]) /\ TurnBacked(turn[t])
  BY DEF OrderTyped, Backed
<1>1. \A t \in Turns : turn'[t] = turn[t] => TurnBacked(turn[t])'
  BY BackedStays
<1>2. CASE UNCHANGED turn
  BY <1>0, <1>1, <1>2
<1>3. \A o \in Orders : Live(o) => Live(o)'
  BY OrdersStay
<1>4. ASSUME NEW m \in Members, Ask(m) PROVE \A t \in Turns : TurnBacked(turn[t])'
  <2>1. PICK u \in Turns : Begins(u, m, NoOrder, 0) /\ \A v \in Turns : v # u => turn'[v] = turn[v]
    BY <1>4, AskBegins DEF Begins
  <2>2. TurnBacked(turn[u])'
    <3>1. \A o \in turn[u].todo : o \in Orders /\ Live(o)
      BY <1>0 DEF TurnRecords, TurnBacked
    <3>2. turn'[u].pc = "queued" /\ turn'[u].order = NoOrder /\ turn'[u].todo = turn[u].todo
      BY <2>1 DEF Begins
    <3> QED BY <1>3, <3>1, <3>2 DEF TurnBacked, Stopping
  <2> QED BY <1>0, <1>1, <2>1, <2>2
<1>5. ASSUME NEW t \in Turns, Summon(t) PROVE \A u \in Turns : TurnBacked(turn[u])'
  <2>1. turn'[t] = NextRecord(turn[t]) /\ Steps(turn[t], turn'[t]) /\ turn[t].cur \in Orders /\ turn[t].pc = "summon"
    BY <1>5, SummonGoes
  <2>2. TurnBacked(turn[t])'
    <3>1. PICK s : s = turn'[t] /\ Steps(turn[t], s)
      BY <2>1
    <3>2. TurnBacked(s)'
      BY <1>5, <3>1, TurnBackedStep DEF TurnStep
    <3> QED BY <3>1, <3>2 DEF TurnBacked
  <2>3. ASSUME NEW u \in Turns, Begins(u, ActOf[turn[t].cur], turn[t].cur, turn[t].done) PROVE TurnBacked(turn[u])'
    <3>1. \A o \in turn[u].todo : o \in Orders /\ Live(o)
      BY <1>0 DEF TurnRecords, TurnBacked
    <3>2. /\ turn'[u].pc = "queued" /\ turn'[u].order = turn[t].cur /\ turn'[u].todo = turn[u].todo
          /\ turn'[u].member = ActOf[turn[t].cur]
      BY <2>3 DEF Begins
    <3>3. Live(turn[t].cur)
      BY <1>0, <2>1 DEF TurnBacked
    <3>4. PICK o \in Orders : o = turn[t].cur /\ Live(o)'
      BY <1>3, <2>1, <3>3
    <3> QED BY <1>3, <3>1, <3>2, <3>4 DEF TurnBacked, Stopping
  <2>4. \A u \in Turns : \/ u = t \/ turn'[u] = turn[u] \/ Begins(u, ActOf[turn[t].cur], turn[t].cur, turn[t].done)
    BY <1>5, SummonGoes, MovesOne
  <2> QED BY <1>0, <1>1, <2>2, <2>3, <2>4
<1>6. ASSUME NEW t \in Turns, TurnStep(t) \/ Throw(t), ~Summon(t) PROVE \A u \in Turns : TurnBacked(turn[u])'
  <2>1. PICK s : Moves(t, s) /\ Steps(turn[t], s)
    BY <1>6, TurnSteps
  <2>2. TurnBacked(s)'
    BY <1>6, <2>1, TurnBackedStep
  <2>3. turn'[t] = s /\ \A u \in Turns : u # t => turn'[u] = turn[u]
    BY <2>1, MovesOne
  <2>4. TurnBacked(turn[t])'
    BY <2>2, <2>3 DEF TurnBacked
  <2> QED BY <1>1, <2>3, <2>4
<1>7. CASE Restart
  <2> SUFFICES ASSUME NEW t \in Turns PROVE TurnBacked(turn[t])'
    OBVIOUS
  <2>1. /\ turn'[t].pc \in {"none", "over"} /\ turn'[t].todo \subseteq turn[t].todo
        /\ turn'[t].pc = "none" <=> turn[t].pc = "none"
        /\ turn'[t].member = turn[t].member /\ turn'[t].order = turn[t].order
    BY <1>7, RestartEnds
  <2>2. /\ \A o \in turn[t].todo : o \in Orders /\ Live(o)
        /\ turn[t].order \in Orders \cup {NoOrder}
        /\ turn[t].pc # "none" /\ turn[t].order # NoOrder => Live(turn[t].order) /\ turn[t].member = ActOf[turn[t].order]
    BY <1>0 DEF TurnRecords, TurnBacked
  <2> QED BY <1>3, <2>1, <2>2 DEF TurnBacked, Stopping
<1> QED BY <1>2, <1>4, <1>5, <1>6, <1>7 DEF OrderNext, Create, ReadControl, ReadEdit, CtlStep, AppendControl, WriteControl,
           CtlKeeps, Attend, Finally, orderVars

\* What a command goes on to do stays backed: its event is in the log before its write.
LEMMA CtlBackedStep ==
    ASSUME OrderTyped, Backed, [OrderNext]_orderVars
    PROVE  /\ \A c \in Controls : CtlBacked(ctl[c])'
           /\ \A c, d \in Controls : Creating(c)' /\ Creating(d)' /\ ctl'[c].order = ctl'[d].order => c = d
<1>0. /\ ctl \in [Controls -> CtlRecords] /\ row \in [Orders -> OrderRows]
      /\ \A c \in Controls : ctl[c] \in CtlRecords /\ CtlBacked(ctl[c]) /\ ctl[c].order \in Orders
      /\ \A c, d \in Controls : Creating(c) /\ Creating(d) /\ ctl[c].order = ctl[d].order => c = d
  BY DEF OrderTyped, Backed, CtlRecords
<1>1. \A o \in Orders : (Live(o) => Live(o)') /\ Said(o) \subseteq Said(o)'
  BY OrdersStay
<1>2. \A c \in Controls, o \in Orders :
         ctl'[c] = ctl[c] /\ ctl[c].order = o /\ (Creating(c) => ~Live(o)') => CtlBacked(ctl[c])'
  BY BackedStays
<1> DEFINE Goal == /\ \A c \in Controls : CtlBacked(ctl[c])'
                   /\ \A c, d \in Controls : Creating(c)' /\ Creating(d)' /\ ctl'[c].order = ctl'[d].order => c = d
\* No command moves, and no order comes to be.
<1>3. ASSUME UNCHANGED ctl, \A o \in Orders : ~Live(o) => ~Live(o)' PROVE Goal
  <2>1. \A c \in Controls : Creating(c) => ~Live(ctl[c].order)
    BY <1>0 DEF CtlBacked, Creating
  <2>2. ASSUME NEW c \in Controls PROVE CtlBacked(ctl[c])'
    <3>1. PICK o \in Orders : o = ctl[c].order
      BY <1>0
    <3> QED BY <1>2, <1>3, <2>1, <3>1
  <2> QED BY <1>0, <1>3, <2>2 DEF Creating
\* One command moves.
<1>4. ASSUME NEW c \in Controls, NEW s, ctl' = [ctl EXCEPT ![c] = s], s.order \in Orders,
             s.pc = "append" => Live(s.order)',
             s.pc = "write" => (IF s.op = "create" THEN "ACTIVE" ELSE s.op) \in Said(s.order)' /\ (s.op = "create" <=> ~Live(s.order)'),
             \A d \in Controls : d # c /\ Creating(d) => ctl[d].order # s.order \/ ~(s.pc = "write" /\ s.op = "create"),
             \A d \in Controls, o \in Orders : d # c /\ Creating(d) /\ ctl[d].order = o => ~Live(o)'
      PROVE  Goal
  <2>1. ctl'[c] = s /\ \A d \in Controls : d # c => ctl'[d] = ctl[d]
    BY <1>0, <1>4
  <2>2. CtlBacked(ctl[c])'
    BY <1>4, <2>1 DEF CtlBacked
  <2>3. ASSUME NEW d \in Controls, d # c PROVE CtlBacked(ctl[d])'
    <3>1. PICK o \in Orders : o = ctl[d].order
      BY <1>0
    <3> QED BY <1>2, <1>4, <2>1, <2>3, <3>1
  <2>4. ASSUME NEW d \in Controls, NEW e \in Controls, Creating(d)', Creating(e)', ctl'[d].order = ctl'[e].order PROVE d = e
    BY <1>0, <1>4, <2>1, <2>4 DEF Creating
  <2> QED BY <2>2, <2>3, <2>4
<1> HIDE DEF Goal
<1>5. \A d \in Controls, o \in Orders : Creating(d) /\ ctl[d].order = o => ~Live(o) /\ "ACTIVE" \in Said(o)
  BY <1>0 DEF CtlBacked, Creating
<1>6. ASSUME NEW c \in Controls, Create(c) PROVE Goal
  <2>1. PICK o \in Orders, terms \in Terms :
          /\ CtlGoes(c, [pc |-> "write", op |-> "create", order |-> o, terms |-> terms])
          /\ ~Live(o) /\ hist[o] = <<>> /\ hist' = [hist EXCEPT ![o] = <<"ACTIVE">>] /\ UNCHANGED row
    BY <1>6, CtlSteps
  <2> DEFINE s == [pc |-> "write", op |-> "create", order |-> o, terms |-> terms]
  <2>2. ctl' = [ctl EXCEPT ![c] = s] /\ s.order = o /\ s.pc = "write" /\ s.op = "create"
    BY <2>1 DEF CtlGoes
  <2>3. "ACTIVE" \in Said(o)' /\ "ACTIVE" \notin Said(o)
    <3>1. hist'[o] = <<"ACTIVE">>
      BY <2>1 DEF OrderTyped
    <3> QED BY <2>1, <3>1 DEF Said
  <2>4. \A q \in Orders : ~Live(q) => ~Live(q)'
    BY <2>1 DEF Live
  <2> HIDE DEF s
  <2> QED BY <1>4, <1>5, <2>1, <2>2, <2>3, <2>4
<1>7. ASSUME NEW c \in Controls, ReadControl(c) \/ ReadEdit(c) PROVE Goal
  <2>1. PICK s : CtlGoes(c, s) /\ s.pc = "append" /\ row[s.order].status \in {"ACTIVE", "PAUSED"} /\ UNCHANGED <<row, hist>>
    BY <1>7, CtlSteps
  <2>2. PICK o \in Orders : o = s.order
    BY <2>1 DEF CtlGoes, CtlRecords
  <2>3. Live(o)' /\ \A q \in Orders : ~Live(q) => ~Live(q)'
    BY <2>1, <2>2 DEF Live
  <2>4. ctl' = [ctl EXCEPT ![c] = s]
    BY <2>1 DEF CtlGoes
  <2> QED BY <1>4, <1>5, <2>1, <2>2, <2>3, <2>4
<1>8. ASSUME NEW c \in Controls, AppendControl(c) PROVE Goal
  <2>1. PICK s : /\ CtlGoes(c, s) /\ ctl[c].pc = "append" /\ ctl[c].op # "create" /\ s.pc = "write"
                 /\ s.op = ctl[c].op /\ s.order = ctl[c].order
                 /\ hist' = [hist EXCEPT ![ctl[c].order] = Append(@, ctl[c].op)] /\ UNCHANGED row
    BY <1>8, CtlSteps
  <2>2. PICK o \in Orders, op \in Statuses \cup {"edit"} : o = s.order /\ op = s.op
    BY <2>1 DEF CtlGoes, CtlRecords
  <2>3. op \in Said(o)'
    <3>1. hist' = [hist EXCEPT ![o] = Append(@, op)]
      BY <2>1, <2>2
    <3>2. Said(o)' = Said(o) \cup {op}
      BY <3>1, SaidAppend
    <3> QED BY <3>2
  <2>4. Live(o)' /\ \A q \in Orders : ~Live(q) => ~Live(q)'
    BY <1>0, <2>1, <2>2 DEF Live, CtlBacked
  <2>5. ctl' = [ctl EXCEPT ![c] = s]
    BY <2>1 DEF CtlGoes
  <2> QED BY <1>4, <1>5, <2>1, <2>2, <2>3, <2>4, <2>5
<1>9. ASSUME NEW c \in Controls, WriteControl(c) PROVE Goal
  <2>1. PICK s : CtlGoes(c, s) /\ ctl[c].pc = "write" /\ s.pc = "over"
    BY <1>9, CtlSteps
  <2>2. s.order \in Orders /\ ctl' = [ctl EXCEPT ![c] = s]
    BY <2>1 DEF CtlGoes, CtlRecords
  <2>3. ASSUME NEW d \in Controls, NEW o \in Orders, d # c, Creating(d), ctl[d].order = o PROVE ~Live(o)'
    <3>1. ~Live(o)
      BY <1>5, <2>3
    <3>2. o # ctl[c].order
      <4>1. CASE ctl[c].op = "create"
        BY <1>0, <2>1, <2>3, <4>1 DEF Creating
      <4>2. CASE ctl[c].op # "create"
        BY <1>0, <2>1, <3>1, <4>2 DEF CtlBacked
      <4> QED BY <4>1, <4>2
    <3> QED BY <1>9, <3>1, <3>2, WriteControlRow DEF Live
  <2> QED BY <1>4, <2>1, <2>2, <2>3
<1>10. CASE Restart
  <2>1. \A c \in Controls : ctl'[c].pc \in {"none", "over"}
    BY <1>10, RestartEnds
  <2> QED BY <2>1 DEF Goal, CtlBacked, Creating
<1>11. CASE Attend
  <2>1. \A o \in Orders : ~Live(o) => ~Live(o)'
    BY <1>11, AttendRow DEF Live
  <2>2. UNCHANGED ctl
    BY <1>11 DEF Attend
  <2> QED BY <1>3, <2>1, <2>2 DEF Goal
<1>12. ASSUME NEW t \in Turns, TurnStep(t) \/ Throw(t) PROVE UNCHANGED ctl /\ \A o \in Orders : ~Live(o) => ~Live(o)'
  <2>1. CASE WriteStop(t)
    <3>1. turn[t].pc = "stopped" /\ TurnBacked(turn[t])
      BY <2>1, PutGoes DEF Backed
    <3>2. Live(turn[t].cur)
      BY <3>1 DEF TurnBacked, Stopping
    <3> QED BY <2>1, <3>2, WriteStopRow DEF WriteStop, Live
  <2>2. CASE Count(t)
    BY <2>2, CountRow DEF Live
  <2>3. CASE ClaimTrigger(t)
    BY <2>3, ClaimRow DEF Live
  <2>4. CASE Throw(t)
    BY <2>4, ThrowGoes DEF Live
  <2>5. CASE UNCHANGED <<row, ctl>>
    BY <2>5 DEF Live
  <2> QED BY <1>12, <2>1, <2>2, <2>3, <2>4, <2>5 DEF TurnStep, Admit, Refuse, ReadTerms, AppendCycled, Finish, ReadForStop,
             AppendStop, TellStopped, AfterFailure, List, Gate, Busy, Idle, Summon, Walked
<1>13. CASE UNCHANGED <<row, ctl>>
  <2>1. \A o \in Orders : ~Live(o) => ~Live(o)'
    BY <1>13 DEF Live
  <2>2. UNCHANGED ctl
    BY <1>13
  <2> QED BY <1>3, <2>1, <2>2 DEF Goal
<1> QED BY <1>3, <1>6, <1>7, <1>8, <1>9, <1>10, <1>11, <1>12, <1>13 DEF OrderNext, CtlStep, Ask, Finally, orderVars, Goal

\* At the start nothing is on its way, and every order there is says that it is ACTIVE.
LEMMA BackedBegins == ASSUME OrderInit PROVE Backed
<1>1. RowsBacked
  <2> SUFFICES ASSUME NEW o \in Orders
               PROVE  IF Live(o) THEN row[o].status \in Said(o)
                      ELSE row[o].cycles = 0 /\ row[o].unattended = 0 /\ row[o].open = 0
    BY DEF RowsBacked
  <2>1. CASE o \in Existing
    <3>1. hist[o] = <<"ACTIVE">> /\ row[o].status = "ACTIVE"
      BY <2>1 DEF OrderInit
    <3> QED BY <3>1 DEF Live, Said
  <2>2. CASE o \notin Existing
    BY <2>2 DEF OrderInit, Live
  <2> QED BY <2>1, <2>2
<1>2. \A t \in Turns : TurnBacked(turn[t])
  <2>1. \A t \in Turns : turn[t].pc = "none" /\ turn[t].todo = {}
    BY DEF OrderInit
  <2> QED BY <2>1 DEF TurnBacked, Stopping
<1>3. \A c \in Controls : ctl[c].pc = "none"
  <2>1. [Done EXCEPT !.pc = "none"].pc = "none"
    BY DoneIsCtl DEF CtlRecords
  <2> QED BY <2>1 DEF OrderInit
<1> QED BY <1>1, <1>2, <1>3 DEF Backed, CtlBacked, Creating

\* Every step keeps all writers backed.
LEMMA BackedStep == ASSUME OrderTyped, Backed, [OrderNext]_orderVars PROVE Backed'
BY RowsBackedStep, TurnsBackedStep, CtlBackedStep DEF Backed

\* How often a history says a thing after its first entry.
Times(h, w) == {i \in DOMAIN h : i > 1 /\ h[i] = w}
\* They are finitely many.
LEMMA TimesAreCounted ==
    ASSUME NEW S, NEW h \in Seq(S), NEW w
    PROVE  IsFiniteSet(Times(h, w)) /\ Cardinality(Times(h, w)) \in Nat
<1>1. Times(h, w) \subseteq 1..Len(h)
  BY DEF Times
<1>2. IsFiniteSet(1..Len(h))
  BY FS_Interval
<1> QED BY <1>1, <1>2, FS_Subset, FS_CardinalityType

\* An entry appended to a history that has begun is one more time that it says it.
LEMMA TimesAppend ==
    ASSUME NEW S, NEW h \in Seq(S), h # <<>>, NEW v \in S, NEW w
    PROVE  Cardinality(Times(Append(h, v), w)) = IF v = w THEN Cardinality(Times(h, w)) + 1 ELSE Cardinality(Times(h, w))
<1> DEFINE n == Len(h) + 1
<1>1. /\ DOMAIN Append(h, v) = DOMAIN h \cup {n} /\ n > 1 /\ n \notin DOMAIN h
      /\ \A i \in DOMAIN h : Append(h, v)[i] = h[i]
      /\ Append(h, v)[n] = v
  BY DEF n
<1> HIDE DEF n
<1>2. CASE v = w
  <2>1. Times(Append(h, v), w) = Times(h, w) \cup {n} /\ n \notin Times(h, w)
    BY <1>1, <1>2 DEF Times
  <2> QED BY <1>2, <2>1, TimesAreCounted, FS_AddElement
<1>3. CASE v # w
  <2>1. Times(Append(h, v), w) = Times(h, w)
    BY <1>1, <1>3 DEF Times
  <2> QED BY <1>3, <2>1
<1> QED BY <1>2, <1>3

\* An order's log says that it resumes, or that it is edited, once for each such event.
LEMMA SaysSteps ==
    ASSUME OrderTyped, Backed, [OrderNext]_orderVars, NEW o \in Orders, NEW w \in {"ACTIVE", "edit"}
    PROVE  /\ Says(o, w) \in Nat
           /\ \/ Says(o, w)' = Says(o, w) /\ \A c \in Controls : AppendControl(c) /\ ctl[c].order = o => ctl[c].op # w
              \/ Says(o, w)' = Says(o, w) + 1 /\ \E c \in Controls : AppendControl(c) /\ ctl[c].order = o /\ ctl[c].op = w
<1>1. Says(o, w) = Cardinality(Times(hist[o], w)) /\ Says(o, w)' = Cardinality(Times(hist'[o], w))
  BY DEF Says, Times
<1>2. hist \in [Orders -> Seq(Statuses \cup {"edit"})] /\ hist[o] \in Seq(Statuses \cup {"edit"})
  BY DEF OrderTyped
<1>3. Says(o, w) \in Nat
  BY <1>1, <1>2, TimesAreCounted
<1>4. ASSUME hist'[o] = hist[o] PROVE Says(o, w)' = Says(o, w)
  BY <1>1, <1>4
<1>5. ASSUME NEW v \in Statuses \cup {"edit"}, hist[o] # <<>>, hist'[o] = Append(hist[o], v)
      PROVE  Says(o, w)' = IF v = w THEN Says(o, w) + 1 ELSE Says(o, w)
  BY <1>1, <1>2, <1>5, TimesAppend
<1>6. ASSUME Live(o) PROVE hist[o] # <<>>
  BY <1>6 DEF Backed, RowsBacked, Said
<1>7. ASSUME NEW c \in Controls, AppendControl(c)
      PROVE  Says(o, w)' = IF ctl[c].order = o /\ ctl[c].op = w THEN Says(o, w) + 1 ELSE Says(o, w)
  <2>1. /\ ctl[c].pc = "append" /\ hist' = [hist EXCEPT ![ctl[c].order] = Append(@, ctl[c].op)]
        /\ ctl[c] \in CtlRecords /\ ctl[c].op # "create"
    BY <1>7, CtlSteps
  <2>2. ctl[c].op \in Statuses \cup {"edit"} /\ ctl[c].order \in Orders
    BY <2>1 DEF CtlRecords
  <2>3. CASE ctl[c].order = o
    <3>1. Live(o)
      BY <2>1, <2>3 DEF Backed, CtlBacked
    <3>2. hist'[o] = Append(hist[o], ctl[c].op)
      BY <1>2, <2>1, <2>3
    <3> QED BY <1>5, <1>6, <2>2, <2>3, <3>1, <3>2
  <2>4. CASE ctl[c].order # o
    BY <1>2, <1>4, <2>1, <2>4
  <2> QED BY <2>3, <2>4
<1>8. ASSUME NEW c \in Controls, Create(c) PROVE Says(o, w)' = Says(o, w)
  <2>1. PICK q \in Orders : hist[q] = <<>> /\ hist' = [hist EXCEPT ![q] = <<"ACTIVE">>]
    BY <1>8, CtlSteps
  <2>2. CASE q = o
    <3>1. hist[o] = <<>> /\ hist'[o] = <<"ACTIVE">>
      BY <1>2, <2>1, <2>2
    <3>2. Times(<<>>, w) = {} /\ Times(<<"ACTIVE">>, w) = {}
      BY DEF Times
    <3> QED BY <1>1, <3>1, <3>2
  <2>3. CASE q # o
    BY <1>2, <1>4, <2>1, <2>3
  <2> QED BY <2>2, <2>3
<1>9. ASSUME NEW t \in Turns, AppendStop(t) PROVE Says(o, w)' = Says(o, w)
  <2>1. /\ turn[t].pc = "stopping" /\ hist' = [hist EXCEPT ![turn[t].cur] = Append(@, turn[t].want)]
        /\ turn[t] \in TurnRecords /\ AtAnOrder(turn[t]) /\ TurnBacked(turn[t])
    BY <1>9 DEF AppendStop, Turn, OrderTyped, Backed
  <2>2. turn[t].want \in Statuses \ {"ACTIVE"} /\ turn[t].cur \in Orders /\ Live(turn[t].cur)
    BY <2>1 DEF TurnRecords, AtAnOrder, TurnBacked, Stopping
  <2>3. turn[t].want # w
    BY <2>2 DEF Statuses, Terminal
  <2>4. CASE turn[t].cur = o
    <3>1. hist'[o] = Append(hist[o], turn[t].want)
      BY <1>2, <2>1, <2>4
    <3> QED BY <1>5, <1>6, <2>2, <2>3, <2>4, <3>1
  <2>5. CASE turn[t].cur # o
    BY <1>2, <1>4, <2>1, <2>5
  <2> QED BY <2>4, <2>5
<1>10. CASE UNCHANGED hist /\ \A c \in Controls : ~AppendControl(c)
  BY <1>3, <1>4, <1>10
<1>11. \A c, d \in Controls : AppendControl(c) /\ AppendControl(d) => ctl[c].order = ctl[d].order /\ ctl[c].op = ctl[d].op
  <2> SUFFICES ASSUME NEW c \in Controls, NEW d \in Controls, AppendControl(c), AppendControl(d)
               PROVE  c = d
    OBVIOUS
  <2>1. PICK s : ctl' = [ctl EXCEPT ![c] = s] /\ s.pc = "write" /\ ctl[c].pc = "append"
    BY CtlSteps DEF CtlGoes
  <2>2. PICK r : ctl' = [ctl EXCEPT ![d] = r] /\ r.pc = "write" /\ ctl[d].pc = "append"
    BY CtlSteps DEF CtlGoes
  <2>3. ctl \in [Controls -> CtlRecords]
    BY DEF OrderTyped
  <2>4. ctl'[c].pc = "write"
    BY <2>1, <2>3
  <2> QED BY <2>1, <2>2, <2>3, <2>4
<1>12. CASE \E c \in Controls : AppendControl(c)
  <2>1. PICK c \in Controls : AppendControl(c)
    BY <1>12
  <2> QED BY <1>3, <1>7, <1>11, <2>1
<1>13. CASE \A c \in Controls : ~AppendControl(c)
  <2>1. CASE \E c \in Controls : Create(c)
    BY <1>3, <1>8, <1>13, <2>1
  <2>2. CASE \E t \in Turns : AppendStop(t)
    BY <1>3, <1>9, <1>13, <2>2
  <2>3. ASSUME \A c \in Controls : ~Create(c), \A t \in Turns : ~AppendStop(t) PROVE UNCHANGED hist
    <3>1. CASE \E c \in Controls : Create(c) \/ ReadControl(c) \/ ReadEdit(c) \/ CtlStep(c)
      BY <1>13, <2>3, <3>1 DEF ReadControl, ReadEdit, CtlStep, WriteControl
    <3>2. CASE \E t \in Turns : TurnStep(t) \/ Throw(t)
      <4>1. PICK t \in Turns : TurnStep(t) \/ Throw(t)
        BY <3>2
      <4>2. CASE Throw(t)
        BY <4>2 DEF Throw
      <4>3. CASE Admit(t) \/ Refuse(t) \/ ReadTerms(t) \/ Count(t) \/ AppendCycled(t)
        BY <4>3 DEF Admit, Refuse, ReadTerms, Count, AppendCycled
      <4>4. CASE (\E ok \in BOOLEAN : Finish(t, ok)) \/ ReadForStop(t) \/ WriteStop(t) \/ TellStopped(t)
        BY <4>4 DEF Finish, ReadForStop, WriteStop, TellStopped
      <4>5. CASE AfterFailure(t) \/ List(t) \/ Gate(t) \/ Busy(t) \/ Idle(t)
        BY <4>5 DEF AfterFailure, List, Gate, Busy, Idle
      <4>6. CASE ClaimTrigger(t) \/ Summon(t) \/ Walked(t)
        BY <4>6 DEF ClaimTrigger, Summon, Walked
      <4> QED BY <2>3, <4>1, <4>2, <4>3, <4>4, <4>5, <4>6 DEF TurnStep
    <3> QED BY <3>1, <3>2 DEF OrderNext, Attend, Ask, Restart, Finally, orderVars
  <2> QED BY <1>10, <1>13, <2>1, <2>2, <2>3
<1> QED BY <1>12, <1>13

\* Nobody has edited it now, so nobody had before, and its terms are the ones it had.
LEMMA TermsStay ==
    ASSUME OrderTyped, Backed, EditIsSaid, [OrderNext]_orderVars, NEW o \in Orders, Live(o), Unedited(o)'
    PROVE  Unedited(o) /\ row'[o].terms = row[o].terms
<1>1. Says(o, "edit") \in Nat /\ (Says(o, "edit")' = Says(o, "edit") \/ Says(o, "edit")' = Says(o, "edit") + 1)
  BY SaysSteps
<1>2. Says(o, "edit")' = 0
  BY DEF Unedited
<1>3. Says(o, "edit") = 0 /\ Unedited(o)
  BY <1>1, <1>2 DEF Unedited
<1>4. ASSUME NEW c \in Controls, WriteControl(c) PROVE row'[o].terms = row[o].terms
  <2>1. CASE ctl[c].order # o
    BY <1>4, <2>1, WriteControlRow
  <2>2. CASE ctl[c].order = o
    <3>1. ctl[c].pc = "write"
      BY <1>4, CtlSteps
    <3>2. ctl[c].op # "create"
      BY <2>2, <3>1 DEF Backed, CtlBacked
    <3>3. ctl[c].op # "edit"
      BY <1>1, <1>3, <2>2, <3>1 DEF EditIsSaid
    <3> QED BY <1>4, <2>2, <3>2, <3>3, WriteControlRow
  <2> QED BY <2>1, <2>2
<1>5. ASSUME NEW t \in Turns, TurnStep(t) \/ Throw(t) PROVE row'[o].terms = row[o].terms
  <2>1. CASE WriteStop(t)
    BY <2>1, WriteStopRow
  <2>2. CASE Count(t)
    BY <2>2, CountRow
  <2>3. CASE ClaimTrigger(t)
    BY <2>3, ClaimRow
  <2>4. CASE UNCHANGED row
    BY <2>4
  <2> QED BY <1>5, <2>1, <2>2, <2>3, <2>4 DEF TurnStep, Throw, Admit, Refuse, ReadTerms, AppendCycled, Finish, ReadForStop,
         AppendStop, TellStopped, AfterFailure, List, Gate, Busy, Idle, Summon, Walked
<1>6. CASE Attend
  BY <1>3, <1>6, AttendRow
<1>7. CASE UNCHANGED row
  BY <1>3, <1>7
<1> QED BY <1>3, <1>4, <1>5, <1>6, <1>7 DEF OrderNext, CtlStep, Create, ReadControl, ReadEdit, AppendControl, Ask, Restart, Finally, orderVars

\* An edit that is about to be written has been said.
LEMMA EditIsSaidStep ==
    ASSUME OrderTyped, Backed, EditIsSaid, [OrderNext]_orderVars PROVE EditIsSaid'
<1>0. ctl \in [Controls -> CtlRecords]
  BY DEF OrderTyped
<1> SUFFICES ASSUME NEW d \in Controls, ctl'[d].pc = "write", ctl'[d].op = "edit" PROVE Says(ctl[d].order, "edit")' > 0
  BY DEF EditIsSaid
<1>1. ASSUME NEW o \in Orders, ctl'[d].order = o, Says(o, "edit") > 0 PROVE Says(ctl[d].order, "edit")' > 0
  <2>1. Says(o, "edit")' > 0
    BY <1>1, SaysSteps
  <2> QED BY <1>1, <2>1 DEF Says
<1>2. CASE ctl'[d] = ctl[d]
  <2>1. Says(ctl[d].order, "edit") > 0 /\ ctl[d].order \in Orders
    BY <1>0, <1>2 DEF EditIsSaid, CtlRecords
  <2> QED BY <1>1, <1>2, <2>1
<1>3. ASSUME NEW c \in Controls, AppendControl(c) PROVE Says(ctl[d].order, "edit")' > 0
  <2>1. PICK s : CtlGoes(c, s) /\ s.op = ctl[c].op /\ s.order = ctl[c].order
    BY <1>3, CtlSteps
  <2>2. CASE d # c
    BY <1>0, <1>2, <2>1, <2>2 DEF CtlGoes
  <2>3. CASE d = c
    <3>1. PICK o \in Orders : o = ctl[c].order
      BY <1>0 DEF CtlRecords
    <3>2. ctl'[d].order = o /\ ctl[c].op = "edit"
      BY <1>0, <2>1, <2>3, <3>1 DEF CtlGoes
    <3>3. Says(o, "edit") \in Nat /\ Says(o, "edit")' = Says(o, "edit") + 1
      BY <1>3, <3>1, <3>2, SaysSteps
    <3>4. Says(o, "edit")' > 0
      BY <3>3
    <3> QED BY <3>2, <3>4 DEF Says
  <2> QED BY <2>2, <2>3
<1>4. ASSUME NEW c \in Controls, NEW s, ctl' = [ctl EXCEPT ![c] = s], s.pc # "write" \/ s.op # "edit"
      PROVE Says(ctl[d].order, "edit")' > 0
  BY <1>0, <1>2, <1>4
<1>5. ASSUME NEW c \in Controls, Create(c) \/ ReadControl(c) \/ ReadEdit(c) \/ WriteControl(c)
      PROVE Says(ctl[d].order, "edit")' > 0
  <2>1. \E s : ctl' = [ctl EXCEPT ![c] = s] /\ (s.pc # "write" \/ s.op # "edit")
    <3>1. CASE Create(c)
      <4>1. PICK o \in Orders, terms \in Terms :
              CtlGoes(c, [pc |-> "write", op |-> "create", order |-> o, terms |-> terms])
        BY <3>1, CtlSteps
      <4> DEFINE s == [pc |-> "write", op |-> "create", order |-> o, terms |-> terms]
      <4>2. s.op # "edit" /\ ctl' = [ctl EXCEPT ![c] = s]
        BY <4>1 DEF CtlGoes
      <4> HIDE DEF s
      <4> QED BY <4>2
    <3>2. CASE ReadControl(c) \/ ReadEdit(c)
      BY <3>2, CtlSteps DEF CtlGoes
    <3>3. CASE WriteControl(c)
      BY <3>3, CtlSteps DEF CtlGoes
    <3> QED BY <1>5, <3>1, <3>2, <3>3
  <2> QED BY <1>4, <2>1
<1>6. CASE Restart
  BY <1>6, RestartEnds
<1>7. CASE UNCHANGED ctl
  BY <1>2, <1>7
<1>8. ASSUME NEW t \in Turns, TurnStep(t) \/ Throw(t) PROVE UNCHANGED ctl
  BY <1>8 DEF TurnStep, Throw, Admit, Refuse, ReadTerms, Count, AppendCycled, Finish, ReadForStop,
     AppendStop, WriteStop, TellStopped, AfterFailure, List, Gate, Busy, Idle, ClaimTrigger, Summon, Walked
<1> QED BY <1>3, <1>5, <1>6, <1>7, <1>8 DEF OrderNext, CtlStep, Attend, Ask, Finally, orderVars

\* A turn keeps its order from the moment it has one.
LEMMA TurnsGo ==
    ASSUME OrderTyped, [OrderNext]_orderVars, NEW t \in Turns
    PROVE  \/ turn'[t] = turn[t]
           \/ turn[t].pc = "none" /\ turn'[t].pc = "queued"
           \/ turn'[t].pc = "over" /\ turn[t].pc # "none" /\ Restart
           \/ Steps(turn[t], turn'[t]) /\ (TurnStep(t) \/ Throw(t))
<1>0. turn \in [Turns -> TurnRecords]
  BY DEF OrderTyped
<1>1. ASSUME NEW m \in Members, Ask(m)
      PROVE  turn'[t] = turn[t] \/ (turn[t].pc = "none" /\ turn'[t].pc = "queued")
  <2>1. PICK u \in Turns : Begins(u, m, NoOrder, 0) /\ \A v \in Turns : v # u => turn'[v] = turn[v]
    BY <1>1, AskBegins
  <2> QED BY <2>1 DEF Begins
<1>2. ASSUME NEW u \in Turns, Summon(u)
      PROVE  \/ turn'[t] = turn[t]
             \/ turn[t].pc = "none" /\ turn'[t].pc = "queued"
             \/ Steps(turn[t], turn'[t]) /\ t = u
  <2>1. Steps(turn[u], NextRecord(turn[u])) /\ turn'[u] = NextRecord(turn[u])
    BY <1>2, SummonGoes
  <2>2. CASE t = u
    BY <2>1, <2>2
  <2>3. CASE t # u
    <3>1. CASE Moves(u, NextRecord(turn[u]))
      BY <2>1, <2>3, <3>1, MovesOne
    <3>2. CASE ~Moves(u, NextRecord(turn[u]))
      <4>1. PICK v \in Turns : turn[v].pc = "none" /\ turn'[v].pc = "queued" /\ \A x1 \in Turns : x1 \notin {u, v} => turn'[x1] = turn[x1]
        BY <1>2, <3>2, SummonGoes DEF Begins
      <4> QED BY <2>3, <4>1
    <3> QED BY <3>1, <3>2
  <2> QED BY <2>2, <2>3
<1>3. ASSUME NEW u \in Turns, TurnStep(u) \/ Throw(u), ~Summon(u)
      PROVE  turn'[t] = turn[t] \/ (Steps(turn[t], turn'[t]) /\ t = u)
  <2>1. PICK s : Moves(u, s) /\ Steps(turn[u], s)
    BY <1>3, TurnSteps
  <2> QED BY <2>1, MovesOne
<1>4. CASE Restart
  BY <1>0, <1>4 , RestartEnds DEF Restart
<1>5. CASE UNCHANGED turn
  BY <1>5
<1> QED BY <1>1, <1>2, <1>3, <1>4, <1>5 DEF OrderNext, Create, ReadControl, ReadEdit, CtlStep, AppendControl, WriteControl,
        CtlKeeps, Attend, Finally, orderVars

\* The terms a count goes by are those of the row, until somebody edits them.
LEMMA TermsAreReadStep ==
    ASSUME OrderTyped, Backed, EditIsSaid, TermsAreRead, [OrderNext]_orderVars PROVE TermsAreRead'
<1>0. turn \in [Turns -> TurnRecords] /\ \A t \in Turns : AtAnOrder(turn[t]) /\ TurnBacked(turn[t])
  BY DEF OrderTyped, Backed
<1>1. ASSUME NEW t \in Turns, NEW o \in Orders, turn'[t].pc = "counting", turn'[t].order = o, Unedited(o)'
      PROVE  turn'[t].terms = row'[o].terms
  <2>1. CASE turn'[t] = turn[t]
    <3>1. Live(o)
      BY <1>0, <1>1, <2>1, OrdersAssumption DEF TurnBacked
    <3>2. Unedited(o) /\ row'[o].terms = row[o].terms
      BY <1>1, <3>1, TermsStay
    <3> QED BY <1>1, <2>1, <3>2 DEF TermsAreRead
  <2>2. CASE Steps(turn[t], turn'[t]) /\ (TurnStep(t) \/ Throw(t))
    <3>1. turn[t].pc = "started" /\ turn[t].order = o
      BY <1>1, <2>2 DEF Steps
    <3>2. ~Throw(t)
      <4>1. ASSUME Throw(t) PROVE turn'[t].pc # "counting"
        <5>1. PICK s : Moves(t, s) /\ Steps(turn[t], s) /\ s.pc \in {"failed", "next", "over"}
          BY <4>1, ThrowGoes
        <5> QED BY <5>1, MovesOne
      <4> QED BY <1>1, <4>1
    <3>3. \/ Admit(t) \/ Refuse(t) \/ Count(t) \/ AppendCycled(t) \/ (\E ok \in BOOLEAN : Finish(t, ok))
          \/ ReadForStop(t) \/ AppendStop(t) \/ WriteStop(t) \/ TellStopped(t)
          \/ AfterFailure(t) \/ List(t) \/ Gate(t) \/ Busy(t) \/ Idle(t) \/ ClaimTrigger(t) \/ Summon(t) \/ Walked(t)
          => turn[t].pc # "started"
      BY DEF Turn, Admit, Refuse, Count, AppendCycled, Finish, ReadForStop,
         AppendStop, WriteStop, TellStopped, AfterFailure, List, Gate, Busy, Idle, ClaimTrigger, Summon, Walked
    <3>4. ReadTerms(t)
      BY <2>2, <3>1, <3>2, <3>3 DEF TurnStep
    <3>5. turn'[t].terms = row[o].terms
      <4> DEFINE s == [turn[t] EXCEPT !.pc = "counting", !.terms = row[turn[t].order].terms]
      <4>1. Moves(t, s) /\ Steps(turn[t], s) /\ s.terms = row[o].terms
        BY <3>1, <3>4, TermsGo
      <4> HIDE DEF s
      <4> QED BY <4>1, MovesOne
    <3> QED BY <3>4, <3>5 DEF ReadTerms
  <2> QED BY <1>1, <2>1, <2>2, TurnsGo
<1> SUFFICES ASSUME NEW t \in Turns, turn'[t].pc = "counting", Unedited(turn[t].order)'
             PROVE  turn'[t].terms = row'[turn'[t].order].terms
  BY DEF TermsAreRead
<1>2. turn'[t].order \in Orders
  <2>1. OrderTyped'
    BY OrderTypeStep
  <2> QED BY <2>1 DEF OrderTyped, AtAnOrder
<1>3. PICK o \in Orders : o = turn'[t].order
  BY <1>2
<1>4. Unedited(o)'
  BY <1>3 DEF Unedited, Live, Says
<1> QED BY <1>1, <1>3, <1>4

\* A turn keeps its member, its order and its trigger.
LEMMA TurnsKeep ==
    ASSUME OrderTyped, [OrderNext]_orderVars, NEW t \in Turns, turn[t].pc # "none"
    PROVE  /\ turn'[t].pc # "none" /\ turn'[t].member = turn[t].member
           /\ turn'[t].order = turn[t].order /\ turn'[t].trigger = turn[t].trigger
           /\ turn[t].pc \notin Uncounted => turn'[t].pc \notin Uncounted
<1>1. CASE turn'[t].pc = "over" /\ Restart
  BY <1>1, RestartEnds DEF Uncounted
<1>2. CASE Steps(turn[t], turn'[t])
  BY <1>2 DEF Steps
<1> QED BY <1>1, <1>2, TurnsGo

\* A turn of an order begins when no turn of its member has its trigger, and it begins alone.
LEMMA TurnsAreNew ==
    ASSUME OrderTyped, [OrderNext]_orderVars, NEW t \in Turns, turn[t].pc = "none", turn'[t].pc # "none", turn'[t].order # NoOrder
    PROVE  /\ ~Summoned(turn'[t].member, turn'[t].trigger)
           /\ \A u \in Turns : u # t /\ turn'[u].pc # "none" => turn[u].pc # "none"
<1>1. ASSUME NEW m \in Members, Ask(m) PROVE FALSE
  <2>1. PICK u \in Turns : Begins(u, m, NoOrder, 0) /\ \A v \in Turns : v # u => turn'[v] = turn[v]
    BY <1>1, AskBegins
  <2> QED BY <2>1 DEF Begins
<1>2. ASSUME NEW u \in Turns, TurnStep(u) \/ Throw(u)
      PROVE  /\ ~Summoned(turn'[t].member, turn'[t].trigger)
             /\ \A v \in Turns : v # t /\ turn'[v].pc # "none" => turn[v].pc # "none"
  <2>1. CASE Summon(u)
    <3> DEFINE r == turn[u]  o == r.cur
    <3>1. turn[u].pc # "none"
      BY <2>1 DEF Summon
    <3>2. u # t
      BY <3>1
    <3>3. CASE Moves(u, NextRecord(r))
      BY <2>1, <3>2, <3>3, SummonGoes, MovesOne
    <3>4. CASE ~Moves(u, NextRecord(r))
      <4>1. PICK x1 \in Turns \ {u} : /\ ~Summoned(ActOf[o], r.done) /\ Begins(x1, ActOf[o], o, r.done)
                                      /\ \A v \in Turns : v \notin {u, x1} => turn'[v] = turn[v]
        BY <2>1, <3>4, SummonGoes
      <4>2. t = x1
        BY <3>2, <4>1
      <4>3. turn'[t].member = ActOf[o] /\ turn'[t].trigger = r.done
        BY <4>1, <4>2 DEF Begins
      <4> QED BY <3>1, <4>1, <4>2, <4>3
    <3> QED BY <3>3, <3>4
  <2>2. CASE ~Summon(u)
    <3>1. PICK s : Moves(u, s) /\ Steps(turn[u], s)
      BY <1>2, <2>2, TurnSteps
    <3> QED BY <3>1, MovesOne DEF Steps
  <2> QED BY <2>1, <2>2
<1>3. CASE Restart
  BY <1>3, RestartEnds
<1>4. CASE UNCHANGED turn
  BY <1>4
<1> QED BY <1>1, <1>2, <1>3, <1>4 DEF OrderNext, Create, ReadControl, ReadEdit, CtlStep, AppendControl, WriteControl,
        CtlKeeps, Attend, Finally, orderVars

\* A trigger keeps making one turn of a member.
LEMMA OnePerTriggerStep ==
    ASSUME OrderTyped, OnePerTrigger, [OrderNext]_orderVars PROVE OnePerTrigger'
<1> DEFINE Of(r) == r.pc # "none" /\ r.order # NoOrder
<1>1. ASSUME NEW t \in Turns, NEW u \in Turns, Of(turn'[t]), Of(turn'[u]), turn'[t].member = turn'[u].member,
             turn'[t].trigger = turn'[u].trigger, turn[t].pc = "none"
      PROVE  t = u
  <2>1. /\ ~Summoned(turn'[t].member, turn'[t].trigger)
        /\ \A v \in Turns : v # t /\ turn'[v].pc # "none" => turn[v].pc # "none"
    BY <1>1, TurnsAreNew
  <2>2. CASE u # t
    <3>1. turn[u].pc # "none"
      BY <1>1, <2>1, <2>2
    <3> QED BY <1>1, <2>1, <3>1, TurnsKeep DEF Summoned
  <2> QED BY <2>2
<1>2. ASSUME NEW t \in Turns, NEW u \in Turns, Of(turn'[t]), Of(turn'[u]), turn'[t].member = turn'[u].member,
             turn'[t].trigger = turn'[u].trigger
      PROVE  t = u
  <2>1. CASE turn[t].pc # "none" /\ turn[u].pc # "none"
    BY <1>2, <2>1, TurnsKeep DEF OnePerTrigger, OfOrder
  <2> QED BY <1>1, <1>2, <2>1
<1> QED BY <1>2 DEF OnePerTrigger, OfOrder

\* What the log says was counted stays the work of a turn.
LEMMA LogIsTurnsStep ==
    ASSUME OrderTyped, LogIsTurns, [OrderNext]_orderVars PROVE LogIsTurns'
<1> DEFINE WasCounted(o, n) == \E t \in Turns : turn[t].order = o /\ turn[t].trigger = n /\ turn[t].pc \notin Uncounted
<1>1. \A o \in Orders, n \in Nat : WasCounted(o, n) => WasCounted(o, n)'
  BY TurnsKeep DEF Uncounted
<1>2. cycled \in [Orders -> SUBSET Nat]
  BY DEF OrderTyped
<1>3. CASE UNCHANGED cycled
  BY <1>1, <1>2, <1>3 DEF LogIsTurns
<1>4. ASSUME NEW t \in Turns, AppendCycled(t) PROVE LogIsTurns'
  <2>1. PICK to \in {"running", "stop"} :
          Moves(t, Put(turn[t], to)) /\ Steps(turn[t], Put(turn[t], to)) /\ turn[t].pc = "cycled"
    BY <1>4, PutGoes
  <2>2. turn'[t].pc = to /\ turn'[t].order = turn[t].order /\ turn'[t].trigger = turn[t].trigger /\ turn[t].order \in Orders
        /\ turn[t].trigger \in Nat
    <3>1. turn[t] \in TurnRecords /\ AtAnOrder(turn[t])
      BY DEF OrderTyped
    <3>2. to \in Places
      BY DEF Places, Streaming, Stopping
    <3>3. Put(turn[t], to).pc = to
      BY <3>1, <3>2, PutTyping
    <3> QED BY <2>1, <3>1, <3>3, MovesOne DEF Steps, AtAnOrder, TurnRecords
  <2>3. PICK o \in Orders, n \in Nat : o = turn[t].order /\ n = turn[t].trigger
    BY <2>2
  <2>4. WasCounted(o, n)'
    BY <2>2, <2>3 DEF Uncounted
  <2>5. cycled' = [cycled EXCEPT ![o] = @ \cup {n}]
    BY <1>4, <2>3 DEF AppendCycled
  <2>6. \A q \in Orders, k \in Nat : k \in cycled'[q] => k \in cycled[q] \/ (q = o /\ k = n)
    BY <1>2, <2>5
  <2>7. cycled' \in [Orders -> SUBSET Nat]
    BY <1>2, <2>5
  <2>8. \A q \in Orders, k \in Nat : k \in cycled[q] => WasCounted(q, k)
    BY DEF LogIsTurns
  <2>9. \A q \in Orders, k \in Nat : k \in cycled'[q] => WasCounted(q, k)'
    BY <1>1, <2>4, <2>6, <2>8
  <2> QED BY <2>7, <2>9 DEF LogIsTurns
<1>5. ASSUME NEW t \in Turns, TurnStep(t) \/ Throw(t), ~AppendCycled(t) PROVE UNCHANGED cycled
  BY <1>5 DEF TurnStep, Throw, Admit, Refuse, ReadTerms, Count, Finish, ReadForStop,
     AppendStop, WriteStop, TellStopped, AfterFailure, List, Gate, Busy, Idle, ClaimTrigger, Summon, Walked
<1> QED BY <1>3, <1>4, <1>5 DEF OrderNext, Create, ReadControl, ReadEdit, CtlStep, AppendControl, WriteControl,
        CtlKeeps, Attend, Ask, Restart, Finally, orderVars

\* A turn on its way to stop its order gets there, if the order stays ACTIVE and nothing fails.
LEMMA OnItsWayStays ==
    ASSUME OrderTyped, [OrderNext]_orderVars, NEW o \in Orders, NEW t \in Turns, OnItsWay(t, o),
           row'[o].status = "ACTIVE", faults' = faults
    PROVE  OnItsWay(t, o)' /\ turn'[t].want = turn[t].want
<1> DEFINE r == turn[t]
<1>0. /\ r \in TurnRecords /\ AtAnOrder(r) /\ r.order = o /\ r.back = "running" /\ r.want # "ACTIVE"
      /\ r.pc \in {"cycled", "stop", "stopping", "stopped"} /\ faults \in Nat /\ r.cur = o
  BY DEF OrderTyped, OnItsWay, Handling, AtAnOrder, Stopping
<1> DEFINE Goal == OnItsWay(t, o)' /\ turn'[t].want = turn[t].want
<1>1. CASE turn'[t] = r
  BY <1>1 DEF OnItsWay, Handling
<1>2. ASSUME NEW to \in {"stop", "stopping", "stopped"}, Moves(t, Put(r, to)), Steps(r, Put(r, to)) PROVE Goal
  <2>1. turn'[t] = Put(r, to) /\ to \in Places
    BY <1>2, MovesOne DEF Places, Stopping
  <2>2. Put(r, to).pc = to /\ Put(r, to).want = r.want /\ Put(r, to).back = r.back /\ Put(r, to).order = r.order
    BY <1>0, <2>1, PutTyping
  <2> QED BY <1>0, <2>1, <2>2 DEF OnItsWay, Handling
<1> HIDE DEF Goal
<1>3. CASE AppendCycled(t)
  <2>1. PICK to \in {"running", "stop"} : Moves(t, Put(r, to)) /\ Steps(r, Put(r, to)) /\ (to = "stop" <=> r.want # "ACTIVE")
    BY <1>3, PutGoes
  <2>2. to = "stop"
    BY <1>0, <2>1
  <2> QED BY <1>2, <2>1, <2>2 DEF Goal
<1>4. CASE ReadForStop(t)
  <2>1. PICK to \in {"stopping", r.back} : Moves(t, Put(r, to)) /\ Steps(r, Put(r, to))
                                           /\ (to = "stopping" <=> row[r.cur].status = "ACTIVE")
    BY <1>4, PutGoes
  <2>2. to = "stopping"
    BY <1>0, <1>4, <2>1 DEF ReadForStop
  <2> QED BY <1>2, <2>1, <2>2 DEF Goal
<1>5. CASE AppendStop(t)
  BY <1>2, <1>5, PutGoes DEF Goal
<1>6. CASE WriteStop(t)
  BY <1>0, <1>6, WriteStopRow
<1>7. CASE Throw(t) \/ Restart
  BY <1>0, <1>7 DEF Throw, Restart
<1>8. CASE TurnStep(t) /\ ~(AppendCycled(t) \/ ReadForStop(t) \/ AppendStop(t) \/ WriteStop(t))
  BY <1>0, <1>8 DEF TurnStep, Turn, Admit, Refuse, ReadTerms, Count, Finish, TellStopped,
     AfterFailure, List, Gate, Busy, Idle, ClaimTrigger, Summon, Walked
<1>9. r.pc # "none"
  BY <1>0
<1> QED BY <1>1, <1>3, <1>4, <1>5, <1>6, <1>7, <1>8, <1>9, TurnsGo DEF Goal

\* The resumes of an order that are said and not yet written.
LEMMA ResumingIsFinite == ASSUME NEW o \in Orders PROVE IsFiniteSet(Resuming(o)) /\ Cardinality(Resuming(o)) \in Nat
<1>1. Resuming(o) \subseteq Controls
  BY DEF Resuming
<1> QED BY <1>1, ControlsAssumption, FS_Subset, FS_CardinalityType

\* A resume is on its way from its event to its write.
LEMMA ResumingSteps ==
    ASSUME OrderTyped, [OrderNext]_orderVars, NEW o \in Orders
    PROVE  /\ Cardinality(Resuming(o)) \in Nat /\ Cardinality(Resuming(o))' \in Nat
           /\ \/ Cardinality(Resuming(o))' <= Cardinality(Resuming(o))
              \/ /\ Cardinality(Resuming(o))' <= Cardinality(Resuming(o)) + 1
                 /\ \E c \in Controls : AppendControl(c) /\ ctl[c].order = o /\ ctl[c].op = "ACTIVE"
           /\ \A c \in Controls : WriteControl(c) /\ ctl[c].order = o /\ ctl[c].op = "ACTIVE" =>
                Cardinality(Resuming(o))' = Cardinality(Resuming(o)) - 1
<1>0. ctl \in [Controls -> CtlRecords]
  BY DEF OrderTyped
<1> DEFINE Goal == \/ Cardinality(Resuming(o))' <= Cardinality(Resuming(o))
                   \/ /\ Cardinality(Resuming(o))' <= Cardinality(Resuming(o)) + 1
                      /\ \E c \in Controls : AppendControl(c) /\ ctl[c].order = o /\ ctl[c].op = "ACTIVE"
<1>1. IsFiniteSet(Resuming(o)) /\ Cardinality(Resuming(o)) \in Nat
  BY ResumingIsFinite
<1>2. IsFiniteSet(Resuming(o)') /\ Cardinality(Resuming(o)') \in Nat
  <2>1. Resuming(o)' \subseteq Controls
    BY DEF Resuming
  <2> QED BY <2>1, ControlsAssumption, FS_Subset, FS_CardinalityType
<1>3. ASSUME Resuming(o)' \subseteq Resuming(o) PROVE Cardinality(Resuming(o))' <= Cardinality(Resuming(o))
  BY <1>1, <1>3, FS_Subset
<1>4. ASSUME NEW c \in Controls, NEW s, ctl' = [ctl EXCEPT ![c] = s]
      PROVE  Resuming(o)' \subseteq Resuming(o) \cup {c} /\ (s.pc # "write" => Resuming(o)' = Resuming(o) \ {c})
             /\ (s.pc # "write" \/ s.op # "ACTIVE" \/ s.order # o => c \notin Resuming(o)')
  BY <1>0, <1>4 DEF Resuming
<1>5. ASSUME NEW c \in Controls, AppendControl(c) PROVE Goal
  <2>1. PICK s : ctl' = [ctl EXCEPT ![c] = s] /\ ctl[c].pc = "append" /\ s.op = ctl[c].op /\ s.order = ctl[c].order
    BY <1>5, CtlSteps DEF CtlGoes
  <2>2. CASE ctl[c].order = o /\ ctl[c].op = "ACTIVE"
    <3>1. Resuming(o)' \subseteq Resuming(o) \cup {c} /\ c \notin Resuming(o)
      BY <1>4, <2>1 DEF Resuming
    <3>2. IsFiniteSet(Resuming(o) \cup {c}) /\ Cardinality(Resuming(o) \cup {c}) = Cardinality(Resuming(o)) + 1
      BY <1>1, <3>1, FS_AddElement
    <3>3. Cardinality(Resuming(o)') <= Cardinality(Resuming(o) \cup {c})
      BY <3>1, <3>2, FS_Subset
    <3> QED BY <1>5, <2>2, <3>2, <3>3
  <2>3. CASE ~(ctl[c].order = o /\ ctl[c].op = "ACTIVE")
    <3>1. Resuming(o)' \subseteq Resuming(o)
      BY <1>4, <2>1, <2>3
    <3> QED BY <1>3, <3>1
  <2> QED BY <2>2, <2>3
<1>6. ASSUME NEW c \in Controls, Create(c) \/ ReadControl(c) \/ ReadEdit(c) \/ WriteControl(c)
      PROVE  Cardinality(Resuming(o))' <= Cardinality(Resuming(o))
  <2>1. CASE Create(c)
    <3>1. PICK q \in Orders, terms \in Terms :
            CtlGoes(c, [pc |-> "write", op |-> "create", order |-> q, terms |-> terms])
      BY <2>1, CtlSteps
    <3> DEFINE s == [pc |-> "write", op |-> "create", order |-> q, terms |-> terms]
    <3>2. s.op # "ACTIVE" /\ ctl' = [ctl EXCEPT ![c] = s]
      BY <3>1 DEF CtlGoes
    <3> HIDE DEF s
    <3>3. Resuming(o)' \subseteq Resuming(o)
      BY <1>4, <3>2
    <3> QED BY <1>3, <3>3
  <2>2. CASE ReadControl(c) \/ ReadEdit(c) \/ WriteControl(c)
    <3>1. PICK s : ctl' = [ctl EXCEPT ![c] = s] /\ s.pc # "write"
      <4>1. CASE ReadControl(c) \/ ReadEdit(c)
        BY <4>1, CtlSteps DEF CtlGoes
      <4>2. CASE WriteControl(c)
        BY <4>2, CtlSteps DEF CtlGoes
      <4> QED BY <2>2, <4>1, <4>2
    <3>2. Resuming(o)' \subseteq Resuming(o)
      BY <1>4, <3>1
    <3> QED BY <1>3, <3>2
  <2> QED BY <1>6, <2>1, <2>2
<1>7. ASSUME NEW c \in Controls, WriteControl(c), ctl[c].order = o, ctl[c].op = "ACTIVE"
      PROVE  Cardinality(Resuming(o))' = Cardinality(Resuming(o)) - 1
  <2>1. PICK s : ctl' = [ctl EXCEPT ![c] = s] /\ s.pc = "over" /\ ctl[c].pc = "write"
    BY <1>7, CtlSteps DEF CtlGoes
  <2>2. Resuming(o)' = Resuming(o) \ {c} /\ c \in Resuming(o)
    BY <1>4, <1>7, <2>1 DEF Resuming
  <2> QED BY <1>1, <2>2, FS_RemoveElement
<1>8. ASSUME Restart PROVE Goal
  <2>1. Resuming(o)' \subseteq Resuming(o)
    BY <1>8, RestartEnds DEF Resuming
  <2> QED BY <1>3, <2>1
<1>9. ASSUME UNCHANGED ctl PROVE Goal
  <2>1. Resuming(o)' \subseteq Resuming(o)
    BY <1>9 DEF Resuming
  <2> QED BY <1>3, <2>1
<1>10. ASSUME NEW t \in Turns, TurnStep(t) \/ Throw(t) PROVE UNCHANGED ctl
  BY <1>10 DEF TurnStep, Throw, Admit, Refuse, ReadTerms, Count, AppendCycled, Finish, ReadForStop,
     AppendStop, WriteStop, TellStopped, AfterFailure, List, Gate, Busy, Idle, ClaimTrigger, Summon, Walked
<1>11. Goal
  BY <1>5, <1>6, <1>8, <1>9, <1>10 DEF OrderNext, CtlStep, Attend, Ask, Finally, orderVars
<1> QED BY <1>1, <1>2, <1>7, <1>11

\* A count made beside a turn on its way to stop the order pays for itself.
LEMMA CountedTurn ==
    ASSUME OrderTyped, EditIsSaid, TermsAreRead, NEW t \in Turns, Count(t), NEW o \in Orders, turn[t].order = o,
           row[o].status = "ACTIVE", Unedited(o)
    PROVE  /\ (\A u \in Turns : ~OnItsWay(u, o)) \/ crowded'[o] = crowded[o] + 1
           /\ LET want == Judge(row[o].terms, row[o].cycles + 1, row[o].unattended + 1) IN
              turn'[t].order = o /\ turn'[t].pc = "cycled" /\ turn'[t].back = "running" /\ turn'[t].want = want
           /\ row'[o].cycles = row[o].cycles + 1 /\ row'[o].unattended = row[o].unattended + 1
           /\ row'[o].status = row[o].status
<1>0. turn[t].pc = "counting" /\ turn[t].terms = row[o].terms
  BY DEF Count, TermsAreRead
<1>1. (\A u \in Turns : ~OnItsWay(u, o)) \/ crowded'[o] = crowded[o] + 1
  BY CountCrowds DEF OnItsWay, Handling
<1> DEFINE s == CycledRecord(turn[t], Reached(o, turn[t].terms))
<1>3. Moves(t, s) /\ Steps(turn[t], s) /\ s.pc = "cycled" /\ s.want = Reached(o, turn[t].terms) /\ s.back = "running"
      /\ row' = [row EXCEPT ![o] = [row[o] EXCEPT !.cycles = @ + 1, !.unattended = @ + 1]]
  BY CountGoes
<1> HIDE DEF s
<1>4. turn'[t] = s /\ s.order = o
  BY <1>3, MovesOne DEF Steps
<1>5. s.want = Judge(row[o].terms, row[o].cycles + 1, row[o].unattended + 1)
  BY <1>0, <1>3 DEF Reached
<1>6. row'[o].cycles = row[o].cycles + 1 /\ row'[o].unattended = row[o].unattended + 1 /\ row'[o].status = row[o].status
  BY CountRow
<1> QED BY <1>1, <1>3, <1>4, <1>5, <1>6

\* What else a step does to the row of an order: the counts are kept, or attendance starts again;
\* and only a creation or a resume makes it ACTIVE.
LEMMA RowSteps ==
    ASSUME OrderTyped, [OrderNext]_orderVars, NEW o \in Orders, ~\E t \in Turns : Count(t) /\ turn[t].order = o
    PROVE  /\ row'[o].cycles = row[o].cycles
           /\ row'[o].unattended = row[o].unattended \/ row'[o].unattended = 0
           /\ \/ row'[o].status = row[o].status
              \/ row'[o].status # "ACTIVE"
              \/ \E c \in Controls : WriteControl(c) /\ ctl[c].order = o /\ ctl[c].op = "create"
              \/ (\E c \in Controls : WriteControl(c) /\ ctl[c].order = o /\ ctl[c].op = "ACTIVE") /\ row'[o].unattended = 0
<1>1. ASSUME NEW c \in Controls, WriteControl(c), ctl[c].order = o
      PROVE  /\ row'[o].cycles = row[o].cycles
             /\ row'[o].unattended = row[o].unattended \/ row'[o].unattended = 0
             /\ \/ row'[o].status = row[o].status
                \/ row'[o].status # "ACTIVE"
                \/ ctl[c].op = "create"
                \/ ctl[c].op = "ACTIVE" /\ row'[o].unattended = 0
  BY <1>1, WriteControlRow
<1>2. ASSUME NEW c \in Controls, WriteControl(c), ctl[c].order # o PROVE row'[o] = row[o]
  BY <1>2, WriteControlRow
<1>3. ASSUME NEW t \in Turns, TurnStep(t) \/ Throw(t)
      PROVE  /\ row'[o].cycles = row[o].cycles /\ row'[o].unattended = row[o].unattended
             /\ row'[o].status = row[o].status \/ row'[o].status # "ACTIVE"
  <2>1. CASE WriteStop(t)
    BY <2>1, WriteStopRow
  <2>2. CASE Count(t)
    BY <2>2, CountRow
  <2>3. CASE ClaimTrigger(t)
    BY <2>3, ClaimRow
  <2>4. CASE UNCHANGED row
    BY <2>4
  <2> QED BY <1>3, <2>1, <2>2, <2>3, <2>4 DEF TurnStep, Throw, Admit, Refuse, ReadTerms, AppendCycled, Finish, ReadForStop,
         AppendStop, TellStopped, AfterFailure, List, Gate, Busy, Idle, Summon, Walked
<1>4. CASE Attend
  BY <1>4, AttendRow
<1>5. CASE UNCHANGED row
  BY <1>5
<1>6. CASE \E c \in Controls : WriteControl(c)
  BY <1>1, <1>2, <1>6
<1> QED BY <1>3, <1>4, <1>5, <1>6 DEF OrderNext, CtlStep, Create, ReadControl, ReadEdit, AppendControl, Ask, Restart, Finally, orderVars

\* Faults are counted one by one.
LEMMA FaultsStep == OrderTyped /\ [OrderNext]_orderVars => faults \in Nat /\ (faults' = faults \/ faults' = faults + 1)
<1> SUFFICES ASSUME OrderTyped, [OrderNext]_orderVars PROVE faults \in Nat /\ (faults' = faults \/ faults' = faults + 1)
  OBVIOUS
<1>1. faults \in Nat
  BY BoundsAssumption DEF OrderTyped
<1>2. ASSUME NEW t \in Turns, TurnStep(t) \/ Throw(t) PROVE faults' = faults \/ faults' = faults + 1
  BY <1>2 DEF TurnStep, Throw, Admit, Refuse, ReadTerms, Count, AppendCycled, Finish, ReadForStop,
     AppendStop, WriteStop, TellStopped, AfterFailure, List, Gate, Busy, Idle, ClaimTrigger, Summon, Walked
<1> QED BY <1>1, <1>2 DEF OrderNext, Create, ReadControl, ReadEdit, CtlStep, AppendControl, WriteControl,
        CtlKeeps, Attend, Ask, Restart, Finally, orderVars

\* The counts made beside another's only grow.
LEMMA CrowdedSteps ==
    ASSUME OrderTyped, [OrderNext]_orderVars, NEW o \in Orders
    PROVE  crowded[o] \in Nat /\ crowded'[o] \in Nat /\ crowded'[o] >= crowded[o]
<1>1. crowded[o] \in Nat
  BY DEF OrderTyped
<1>2. CASE UNCHANGED crowded
  BY <1>1, <1>2
<1>3. ASSUME NEW t \in Turns, Count(t) PROVE crowded'[o] \in {crowded[o], crowded[o] + 1}
  BY <1>3, CountCrowds
<1>4. ASSUME NEW t \in Turns, TurnStep(t) \/ Throw(t), ~Count(t) PROVE UNCHANGED crowded
  BY <1>4, ThrowGoes DEF TurnStep, Admit, Refuse, ReadTerms, AppendCycled, Finish, ReadForStop,
     AppendStop, WriteStop, TellStopped, AfterFailure, List, Gate, Busy, Idle, ClaimTrigger, Summon, Walked
<1>5. (\E t \in Turns : Count(t)) \/ UNCHANGED crowded
  BY <1>4 DEF OrderNext, Create, ReadControl, ReadEdit, CtlStep, AppendControl, WriteControl,
     CtlKeeps, Attend, Ask, Restart, Finally, orderVars
<1> QED BY <1>1, <1>2, <1>3, <1>5

\* An order that is created has counted nothing, and nobody resumes it.
LEMMA CreatedOrder ==
    ASSUME OrderTyped, Backed, [OrderNext]_orderVars, NEW o \in Orders, ~Live(o)
    PROVE  /\ row'[o].cycles = 0 /\ row'[o].unattended = 0 /\ Cardinality(Resuming(o))' = 0
           /\ row'[o].terms.cap \in Nat /\ row'[o].terms.dial \in Nat \ {0}
<1>1. row[o].cycles = 0 /\ row[o].unattended = 0 /\ row[o].status = "none"
  BY DEF Backed, RowsBacked, Live
<1>2. ~\E t \in Turns : Count(t) /\ turn[t].order = o
  <2> SUFFICES ASSUME NEW t \in Turns, Count(t), turn[t].order = o PROVE FALSE
    OBVIOUS
  <2>1. turn[t].pc # "none" /\ o # NoOrder
    BY OrdersAssumption DEF Count
  <2> QED BY <2>1 DEF Backed, TurnBacked
<1>3. row'[o].cycles = 0 /\ row'[o].unattended = 0
  BY <1>1, <1>2, RowSteps
<1>4. Resuming(o) = {}
  BY DEF Resuming, Backed, CtlBacked
<1>5. Cardinality(Resuming(o)) = 0
  BY <1>4, FS_EmptySet
<1>6. \A c \in Controls : AppendControl(c) => ctl[c].order # o
  <2> SUFFICES ASSUME NEW c \in Controls, AppendControl(c), ctl[c].order = o PROVE FALSE
    OBVIOUS
  <2>1. ctl[c].pc = "append"
    BY CtlSteps
  <2> QED BY <2>1 DEF Backed, CtlBacked
<1>7. Cardinality(Resuming(o))' = 0
  BY <1>5, <1>6, ResumingSteps
<1>8. row'[o].terms \in Terms
  <2>1. OrderTyped'
    BY OrderTypeStep
  <2> QED BY <2>1 DEF OrderTyped, OrderRows
<1> QED BY <1>3, <1>7, <1>8, TermsAssumption

\* What is judged of a count that reaches the cap, and of one that reaches the dial.
LEMMA Judging ==
    ASSUME NEW terms, NEW cycles, NEW unattended
    PROVE  /\ terms.cap # NoCap /\ cycles >= terms.cap => Judge(terms, cycles, unattended) = "LIMIT_REACHED"
           /\ unattended >= terms.dial => Judge(terms, cycles, unattended) # "ACTIVE"
BY DEF Judge

\* Every step keeps the cap: a count past it is paid for by a fault, by a resume, or by itself.
LEMMA CapStep ==
    ASSUME OrderTyped, Backed, EditIsSaid, TermsAreRead, CapInv, [OrderNext]_orderVars PROVE CapInv'
<1> SUFFICES ASSUME NEW o \in Orders, Unedited(o)'
             PROVE  /\ Cardinality(Resuming(o))' <= Says(o, "ACTIVE")'
                    /\ Spent(o)' => row'[o].cycles + Cardinality(Resuming(o))' + (IF Open(o)' THEN 1 ELSE 0)
                                      <= row'[o].terms.cap + faults' + Says(o, "ACTIVE")' + crowded'[o]
                    /\ Spent(o)' /\ Open(o)' => faults' > 0 \/ Says(o, "ACTIVE")' > Cardinality(Resuming(o))'
  BY DEF CapInv
<1>0. /\ row[o] \in OrderRows /\ row[o].cycles \in Nat /\ row[o].unattended \in Nat
      /\ row[o].terms.cap \in Nat /\ row[o].terms.dial \in Nat
  BY TermsAssumption DEF OrderTyped, OrderRows
<1> DEFINE R == Cardinality(Resuming(o))  A == Says(o, "ACTIVE")  n == row[o].cycles  cap == row[o].terms.cap
           D == crowded[o]
<1>1. R \in Nat /\ R' \in Nat /\ A \in Nat /\ A' \in Nat /\ faults \in Nat /\ (faults' = faults \/ faults' = faults + 1)
  BY ResumingSteps, SaysSteps, FaultsStep
<1>5. D \in Nat /\ D' \in Nat /\ D' >= D
  BY CrowdedSteps
<1>2. \/ A' = A /\ R' <= R
      \/ A' = A + 1 /\ R' <= R + 1
  BY ResumingSteps, SaysSteps
<1>3. CASE ~Live(o)
  <2>1. row'[o].cycles = 0 /\ R' = 0 /\ row'[o].terms.cap \in Nat
    BY <1>3, CreatedOrder
  <2>2. ~Spent(o)'
    <3> DEFINE k == row'[o].terms.cap
    <3>1. k \in Nat /\ (k # 0 => ~(0 >= k))
      BY <2>1
    <3> QED BY <2>1, <3>1 DEF Spent, NoCap
  <2> QED BY <1>1, <2>1, <2>2
<1>4. CASE Live(o)
  <2>1. Unedited(o) /\ row'[o].terms = row[o].terms
    BY <1>4, TermsStay
  <2>2. /\ R <= A /\ (Spent(o) => n + R + (IF Open(o) THEN 1 ELSE 0) <= cap + faults + A + D)
        /\ Spent(o) /\ Open(o) => faults > 0 \/ A > R
    BY <2>1 DEF CapInv
  <2>3. R' <= A'
    BY <1>1, <1>2, <2>2
  <2>4. ASSUME NEW t \in Turns, Count(t), turn[t].order = o, row[o].status = "ACTIVE", Spent(o)'
        PROVE  /\ n' + R' + (IF Open(o)' THEN 1 ELSE 0) <= cap' + faults' + A' + D'
               /\ Open(o)' => faults' > 0 \/ A' > R'
    <3>1. /\ (\A u \in Turns : ~OnItsWay(u, o)) \/ D' = D + 1
          /\ turn'[t].order = o /\ turn'[t].pc = "cycled" /\ turn'[t].back = "running"
          /\ turn'[t].want = Judge(row[o].terms, n + 1, row[o].unattended + 1)
          /\ n' = n + 1
      BY <2>1, <2>4, CountedTurn
    <3>2. cap # NoCap /\ n + 1 >= cap
      BY <2>1, <2>4, <3>1 DEF Spent
    <3>3. turn'[t].want = "LIMIT_REACHED"
      BY <3>1, <3>2, Judging
    <3>4. ~Open(o)'
      <4>1. OnItsWay(t, o)'
        BY <3>1, <3>3 DEF OnItsWay, Handling
      <4> QED BY <3>3, <4>1 DEF Open
    <3>5. UNCHANGED <<hist, ctl, faults>>
      BY <2>4, CountRow
    <3>6. R' = R /\ A' = A /\ faults' = faults
      BY <3>5 DEF Resuming, Says
    <3>7. CASE n >= cap
      <4>1. Spent(o) /\ (Open(o) \/ D' = D + 1)
        BY <2>4, <3>1, <3>2, <3>7 DEF Spent, Open
      <4>2. CASE Open(o)
        <5>1. n + R + 1 <= cap + faults + A + D
          BY <2>2, <4>1, <4>2
        <5>2. n + 1 + R + 0 <= cap + faults + A + D'
          BY <1>0, <1>1, <1>5, <5>1
        <5> QED BY <2>1, <3>1, <3>4, <3>6, <5>2
      <4>3. CASE D' = D + 1
        <5>1. n + R <= cap + faults + A + D
          BY <1>0, <1>1, <1>5, <2>2, <4>1
        <5>2. n + 1 + R + 0 <= cap + faults + A + D'
          BY <1>0, <1>1, <1>5, <4>3, <5>1
        <5> QED BY <2>1, <3>1, <3>4, <3>6, <5>2
      <4> QED BY <4>1, <4>2, <4>3
    <3>8. CASE ~(n >= cap)
      <4>1. n + 1 = cap
        BY <1>0, <3>2, <3>8
      <4>2. n + 1 + R + 0 <= cap + faults + A + D'
        BY <1>0, <1>1, <1>5, <2>2, <4>1
      <4> QED BY <2>1, <3>1, <3>4, <3>6, <4>2
    <3> QED BY <3>7, <3>8
  <2>5. ASSUME ~\E t \in Turns : Count(t) /\ turn[t].order = o /\ row[o].status = "ACTIVE", Spent(o)'
        PROVE  /\ n' + R' + (IF Open(o)' THEN 1 ELSE 0) <= cap' + faults' + A' + D'
               /\ Open(o)' => faults' > 0 \/ A' > R'
    <3>1. /\ n' = n
          /\ \/ row'[o].status = row[o].status
             \/ row'[o].status # "ACTIVE"
             \/ \E c \in Controls : WriteControl(c) /\ ctl[c].order = o /\ ctl[c].op = "create"
             \/ \E c \in Controls : WriteControl(c) /\ ctl[c].order = o /\ ctl[c].op = "ACTIVE"
      <4>1. CASE \E t \in Turns : Count(t) /\ turn[t].order = o
        BY <2>5, <4>1, CountRow
      <4>2. CASE ~\E t \in Turns : Count(t) /\ turn[t].order = o
        BY <4>2, RowSteps
      <4> QED BY <4>1, <4>2
    <3>2. Spent(o) /\ cap' = cap
      BY <2>1, <2>5, <3>1 DEF Spent
    <3>3. n + R + (IF Open(o) THEN 1 ELSE 0) <= cap + faults + A + D
      BY <2>2, <3>2
    <3>4. CASE ~Open(o)'
      <4>1. n + R <= cap + faults + A + D
        BY <1>0, <1>1, <1>5, <3>3
      <4>2. n + R' + 0 <= cap + faults' + A' + D'
        BY <1>0, <1>1, <1>2, <1>5, <4>1
      <4> QED BY <3>1, <3>2, <3>4, <4>2
    <3>5. CASE Open(o)' /\ (Open(o) \/ faults' = faults + 1)
      <4>1. n + R + 1 <= cap + faults' + A + D
        BY <1>0, <1>1, <1>5, <3>3, <3>5
      <4>2. n + R' + 1 <= cap + faults' + A' + D'
        BY <1>0, <1>1, <1>2, <1>5, <4>1
      <4>3. faults' > 0 \/ A' > R'
        BY <1>1, <1>2, <2>2, <3>2, <3>5
      <4> QED BY <3>1, <3>2, <3>5, <4>2, <4>3
    <3>6. CASE Open(o)' /\ ~Open(o) /\ faults' = faults
      <4>1. row'[o].status = "ACTIVE" /\ ~\E t \in Turns : OnItsWay(t, o)' /\ turn'[t].want = "LIMIT_REACHED"
        BY <3>6 DEF Open
      <4>2. row[o].status # "ACTIVE"
        <5>1. ASSUME row[o].status = "ACTIVE" PROVE FALSE
          <6>1. PICK t \in Turns : OnItsWay(t, o) /\ turn[t].want = "LIMIT_REACHED"
            BY <3>6, <5>1 DEF Open
          <6>2. OnItsWay(t, o)' /\ turn'[t].want = turn[t].want
            BY <3>6, <4>1, <6>1, OnItsWayStays
          <6> QED BY <4>1, <6>1, <6>2
        <5> QED BY <5>1
      <4>3. PICK c \in Controls : WriteControl(c) /\ ctl[c].order = o /\ ctl[c].op \in {"create", "ACTIVE"}
        BY <3>1, <4>1, <4>2
      <4>4. ctl[c].op = "ACTIVE"
        <5>1. ctl[c].pc = "write"
          BY <4>3, CtlSteps
        <5> QED BY <1>4, <4>3, <5>1 DEF Backed, CtlBacked
      <4>5. R' = R - 1
        BY <4>3, <4>4, ResumingSteps
      <4>6. A' = A
        <5>1. ctl[c].pc = "write" /\ UNCHANGED hist
          BY <4>3, CtlSteps
        <5> QED BY <5>1 DEF Says
      <4>7. n + R <= cap + faults + A + D
        BY <1>0, <1>1, <1>5, <3>3, <3>6
      <4>8. n + R' + 1 <= cap + faults' + A' + D'
        BY <1>0, <1>1, <1>5, <3>6, <4>5, <4>6, <4>7
      <4>9. A' > R'
        BY <1>1, <2>2, <4>5, <4>6
      <4> QED BY <3>1, <3>2, <3>6, <4>8, <4>9
    <3> QED BY <1>1, <3>4, <3>5, <3>6
  <2> QED BY <2>3, <2>4, <2>5
<1> QED BY <1>3, <1>4

\* Every step keeps the dial: a count past it is paid for by a fault, or by itself.
LEMMA DialStep ==
    ASSUME OrderTyped, Backed, EditIsSaid, TermsAreRead, DialInv, [OrderNext]_orderVars PROVE DialInv'
<1> SUFFICES ASSUME NEW o \in Orders, Unedited(o)'
             PROVE  row'[o].unattended + (IF Loose(o)' THEN 1 ELSE 0) <= row'[o].terms.dial + faults' + crowded'[o]
  BY DEF DialInv
<1>0. row[o].unattended \in Nat /\ row[o].terms.dial \in Nat \ {0}
  BY TermsAssumption DEF OrderTyped, OrderRows
<1> DEFINE n == row[o].unattended  dial == row[o].terms.dial  D == crowded[o]
<1>1. faults \in Nat /\ (faults' = faults \/ faults' = faults + 1)
  BY FaultsStep
<1>5. D \in Nat /\ D' \in Nat /\ D' >= D
  BY CrowdedSteps
<1>2. ASSUME n' = 0, dial' \in Nat \ {0} PROVE n' + (IF Loose(o)' THEN 1 ELSE 0) <= dial' + faults' + D'
  <2>1. ~Loose(o)'
    <3> DEFINE k == dial'
    <3>1. k \in Nat \ {0} => ~(0 >= k)
      OBVIOUS
    <3> QED BY <1>2, <3>1 DEF Loose
  <2>2. 0 + 0 <= dial' + faults' + D'
    BY <1>1, <1>2, <1>5
  <2> QED BY <1>2, <2>1, <2>2
<1>3. CASE ~Live(o)
  BY <1>2, <1>3, CreatedOrder
<1>4. CASE Live(o)
  <2>1. Unedited(o) /\ dial' = dial
    BY <1>4, TermsStay
  <2>2. n + (IF Loose(o) THEN 1 ELSE 0) <= dial + faults + D
    BY <2>1 DEF DialInv
  <2>3. ASSUME NEW t \in Turns, Count(t), turn[t].order = o, row[o].status = "ACTIVE"
        PROVE  n' + (IF Loose(o)' THEN 1 ELSE 0) <= dial' + faults' + D'
    <3>1. /\ (\A u \in Turns : ~OnItsWay(u, o)) \/ D' = D + 1
          /\ turn'[t].order = o /\ turn'[t].pc = "cycled" /\ turn'[t].back = "running"
          /\ turn'[t].want = Judge(row[o].terms, row[o].cycles + 1, n + 1)
          /\ n' = n + 1
      BY <2>1, <2>3, CountedTurn
    <3>2. faults' = faults
      BY <2>3, CountRow
    <3>3. ~Loose(o)'
      <4>1. CASE n + 1 >= dial
        <5>1. turn'[t].want # "ACTIVE"
          BY <3>1, <4>1, Judging
        <5>2. OnItsWay(t, o)'
          BY <3>1, <5>1 DEF OnItsWay, Handling
        <5> QED BY <5>2 DEF Loose
      <4>2. CASE ~(n + 1 >= dial)
        BY <2>1, <3>1, <4>2 DEF Loose
      <4> QED BY <4>1, <4>2
    <3>4. CASE n >= dial
      <4>1. Loose(o) \/ D' = D + 1
        BY <2>3, <3>1, <3>4 DEF Loose
      <4>2. n + 1 <= dial + faults + D'
        BY <1>0, <1>1, <1>5, <2>2, <4>1
      <4>3. n + 1 + 0 <= dial + faults + D'
        BY <1>0, <1>1, <1>5, <4>2
      <4> QED BY <2>1, <3>1, <3>2, <3>3, <4>3
    <3>5. CASE ~(n >= dial)
      <4>1. n + 1 + 0 <= dial + faults + D'
        BY <1>0, <1>1, <1>5, <3>5
      <4> QED BY <2>1, <3>1, <3>2, <3>3, <4>1
    <3> QED BY <3>4, <3>5
  <2>4. ASSUME ~\E t \in Turns : Count(t) /\ turn[t].order = o /\ row[o].status = "ACTIVE", n' = n
        PROVE  n' + (IF Loose(o)' THEN 1 ELSE 0) <= dial' + faults' + D'
    <3>1. n' = n /\ (row'[o].status = "ACTIVE" => row[o].status = "ACTIVE" \/ n' = 0)
      <4>1. CASE \E t \in Turns : Count(t) /\ turn[t].order = o
        BY <2>4, <4>1, CountRow
      <4>2. CASE ~\E t \in Turns : Count(t) /\ turn[t].order = o
        <5>1. \A c \in Controls : WriteControl(c) /\ ctl[c].order = o => ctl[c].op # "create"
          <6> SUFFICES ASSUME NEW c \in Controls, WriteControl(c), ctl[c].order = o PROVE ctl[c].op # "create"
            OBVIOUS
          <6>1. ctl[c].pc = "write"
            BY CtlSteps
          <6> QED BY <1>4, <6>1 DEF Backed, CtlBacked
        <5> QED BY <2>4, <4>2, <5>1, RowSteps
      <4> QED BY <4>1, <4>2
    <3>2. CASE n = 0
      BY <1>0, <1>2, <2>1, <2>4, <3>2
    <3>3. CASE ~Loose(o)'
      <4>1. n <= dial + faults + D
        BY <1>0, <1>1, <1>5, <2>2
      <4>2. n + 0 <= dial + faults' + D'
        BY <1>0, <1>1, <1>5, <4>1
      <4> QED BY <2>1, <2>4, <3>3, <4>2
    <3>4. CASE Loose(o)' /\ (Loose(o) \/ faults' = faults + 1)
      <4>1. n + 1 <= dial + faults' + D'
        BY <1>0, <1>1, <1>5, <2>2, <3>4
      <4> QED BY <2>1, <2>4, <3>4, <4>1
    <3>5. CASE Loose(o)' /\ ~Loose(o) /\ faults' = faults /\ n # 0
      <4>1. row'[o].status = "ACTIVE" /\ n >= dial /\ ~\E t \in Turns : OnItsWay(t, o)'
        BY <2>1, <2>4, <3>5 DEF Loose
      <4>2. row[o].status = "ACTIVE"
        BY <3>1, <3>5, <4>1
      <4>3. PICK t \in Turns : OnItsWay(t, o)
        BY <3>5, <4>1, <4>2 DEF Loose
      <4> QED BY <3>5, <4>1, <4>3, OnItsWayStays
    <3> QED BY <1>1, <3>2, <3>3, <3>4, <3>5
  <2>5. CASE n' = 0
    BY <1>0, <1>2, <2>1, <2>5
  <2>6. CASE n' # 0
    <3>1. CASE \E t \in Turns : Count(t) /\ turn[t].order = o /\ row[o].status = "ACTIVE"
      BY <2>3, <3>1
    <3>2. CASE ~\E t \in Turns : Count(t) /\ turn[t].order = o /\ row[o].status = "ACTIVE"
      <4>1. n' = n
        <5>1. CASE \E t \in Turns : Count(t) /\ turn[t].order = o
          BY <3>2, <5>1, CountRow
        <5>2. CASE ~\E t \in Turns : Count(t) /\ turn[t].order = o
          BY <2>6, <5>2, RowSteps
        <5> QED BY <5>1, <5>2
      <4> QED BY <2>4, <3>2, <4>1
    <3> QED BY <3>1, <3>2
  <2> QED BY <2>5, <2>6
<1> QED BY <1>3, <1>4

\* The turns of an order that are counted and not yet logged.
Counting(o) == {t \in Turns : turn[t].pc = "cycled" /\ turn[t].order = o}
CountInv == \A o \in Orders :
    /\ IsFiniteSet(cycled[o])
    /\ row[o].cycles <= Cardinality(cycled[o]) + (IF Counting(o) # {} THEN 1 ELSE 0) + faults + crowded[o]
    /\ Cardinality(cycled[o]) + Cardinality(Counting(o)) <= row[o].cycles

\* They can be counted.
LEMMA CountingIsFinite == ASSUME NEW o \in Orders PROVE IsFiniteSet(Counting(o)) /\ Cardinality(Counting(o)) \in Nat
<1>1. Counting(o) \subseteq Turns
  BY DEF Counting
<1>2. IsFiniteSet(Turns)
  <2>1. 1 \in Int /\ MaxTurns \in Int
    BY BoundsAssumption
  <2> QED BY <2>1, FS_Interval DEF Turns
<1> QED BY <1>1, <1>2, FS_Subset, FS_CardinalityType

\* What a turn does next is where it stands.
LEMMA PlaceActs ==
    ASSUME NEW t \in Turns, TurnStep(t)
    PROVE  /\ turn[t].pc = "counting" => Count(t)
           /\ turn[t].pc = "cycled" => AppendCycled(t)
           /\ turn[t].pc = "summon" => Summon(t)
<1>1. CASE turn[t].pc = "counting"
  BY <1>1 DEF TurnStep, Turn, Admit, Refuse, ReadTerms, AppendCycled, Finish, ReadForStop,
     AppendStop, WriteStop, TellStopped, AfterFailure, List, Gate, Busy, Idle, ClaimTrigger, Summon, Walked
<1>2. CASE turn[t].pc = "cycled"
  BY <1>2 DEF TurnStep, Turn, Admit, Refuse, ReadTerms, Count, Finish, ReadForStop,
     AppendStop, WriteStop, TellStopped, AfterFailure, List, Gate, Busy, Idle, ClaimTrigger, Summon, Walked
<1>3. CASE turn[t].pc = "summon"
  BY <1>3 DEF TurnStep, Turn, Admit, Refuse, ReadTerms, Count, AppendCycled, Finish, ReadForStop,
     AppendStop, WriteStop, TellStopped, AfterFailure, List, Gate, Busy, Idle, ClaimTrigger, Walked
<1> QED BY <1>1, <1>2, <1>3

\* A trigger that is being logged was not: its turn is the one turn it has.
LEMMA TriggerIsNew ==
    ASSUME OrderTyped, Backed, OnePerTrigger, LogIsTurns, NEW t \in Turns, AppendCycled(t)
    PROVE  turn[t].order \in Orders /\ turn[t].trigger \in Nat /\ turn[t].trigger \notin cycled[turn[t].order]
<1>1. turn[t].pc = "cycled" /\ turn[t] \in TurnRecords /\ turn[t].order \in Orders /\ turn[t].trigger \in Nat
  BY DEF AppendCycled, Turn, OrderTyped, AtAnOrder, TurnRecords
<1>2. PICK o \in Orders, n \in Nat : o = turn[t].order /\ n = turn[t].trigger
  BY <1>1
<1>3. ASSUME n \in cycled[o] PROVE FALSE
  <2>1. PICK u \in Turns : turn[u].order = o /\ turn[u].trigger = n /\ turn[u].pc \notin Uncounted
    BY <1>3 DEF LogIsTurns
  <2>2. OfOrder(t) /\ OfOrder(u)
    BY <1>1, <1>2, <2>1, OrdersAssumption DEF OfOrder, Uncounted
  <2>3. turn[t].member = ActOf[o] /\ turn[u].member = ActOf[o]
    BY <1>2, <2>1, <2>2 DEF Backed, TurnBacked, OfOrder
  <2>4. t = u
    BY <1>2, <2>1, <2>2, <2>3 DEF OnePerTrigger
  <2> QED BY <1>1, <2>1, <2>4 DEF Uncounted
<1> QED BY <1>2, <1>3

\* Every step keeps the row and the log of an order counting the same work.
LEMMA CountStep ==
    ASSUME OrderTyped, Backed, OnePerTrigger, LogIsTurns, CountInv, [OrderNext]_orderVars PROVE CountInv'
<1> SUFFICES ASSUME NEW o \in Orders
             PROVE  /\ IsFiniteSet(cycled'[o])
                    /\ row'[o].cycles <= Cardinality(cycled'[o]) + (IF Counting(o)' # {} THEN 1 ELSE 0) + faults' + crowded'[o]
                    /\ Cardinality(cycled'[o]) + Cardinality(Counting(o))' <= row'[o].cycles
  BY DEF CountInv
<1> DEFINE n == row[o].cycles  C == Cardinality(cycled[o])  N == Cardinality(Counting(o))
           some == Counting(o) # {}  D == crowded[o]
           Goal == IsFiniteSet(cycled'[o]) /\ n' <= C' + (IF some' THEN 1 ELSE 0) + faults' + D' /\ C' + N' <= n'
<1>0. /\ n \in Nat /\ IsFiniteSet(cycled[o]) /\ C \in Nat /\ IsFiniteSet(Counting(o)) /\ N \in Nat
      /\ faults \in Nat /\ (faults' = faults \/ faults' = faults + 1)
      /\ n <= C + (IF some THEN 1 ELSE 0) + faults + D /\ C + N <= n
      /\ D \in Nat /\ D' \in Nat /\ D' >= D
  BY CountingIsFinite, FaultsStep, CrowdedSteps, FS_CardinalityType DEF CountInv, OrderTyped, OrderRows
<1>1. turn \in [Turns -> TurnRecords] /\ cycled \in [Orders -> SUBSET Nat]
  BY DEF OrderTyped
<1>2. ASSUME NEW t \in Turns, Count(t), turn[t].order = o, row[o].status = "ACTIVE" PROVE Goal
  <2>1. n' = n + 1 /\ UNCHANGED <<cycled, faults>>
    BY <1>2, CountRow
  <2> DEFINE s == CycledRecord(turn[t], Reached(o, turn[t].terms))
  <2>2. turn[t].pc = "counting" /\ Moves(t, s) /\ Steps(turn[t], s) /\ s.pc = "cycled"
    BY <1>2, CountGoes
  <2> HIDE DEF s
  <2>3. turn'[t].pc = "cycled" /\ turn'[t].order = o /\ \A u \in Turns : u # t => turn'[u] = turn[u]
    BY <1>2, <2>2, MovesOne DEF Steps
  <2>4. Counting(o)' = Counting(o) \cup {t} /\ t \notin Counting(o)
    BY <2>2, <2>3 DEF Counting
  <2>5. Cardinality(Counting(o)') = N + 1 /\ some'
    BY <1>0, <2>4, FS_AddElement
  <2>6. some => D' = D + 1
    <3>1. ASSUME NEW u \in Turns, turn[u].pc = "cycled", turn[u].order = o PROVE Handling(u, o)
      BY <3>1 DEF OrderTyped, AtAnOrder, Handling
    <3> QED BY <1>2, <3>1, CountCrowds DEF Counting
  <2>7. n' <= C' + 1 + faults' + D'
    BY <1>0, <2>1, <2>6
  <2>8. C' + N' <= n'
    BY <1>0, <2>1, <2>5
  <2> QED BY <1>0, <2>1, <2>5, <2>7, <2>8
<1>3. ASSUME NEW t \in Turns, AppendCycled(t), turn[t].order = o PROVE Goal
  <2>1. turn[t].trigger \in Nat /\ turn[t].trigger \notin cycled[o]
    BY <1>3, TriggerIsNew
  <2>2. cycled'[o] = cycled[o] \cup {turn[t].trigger} /\ UNCHANGED <<row, faults>>
    BY <1>1, <1>3 DEF AppendCycled
  <2>3. IsFiniteSet(cycled'[o]) /\ C' = C + 1
    <3> DEFINE old == cycled[o]  trig == turn[t].trigger
    <3>1. IsFiniteSet(old) /\ trig \notin old
      BY <1>0, <2>1
    <3>2. cycled'[o] = old \cup {trig}
      BY <2>2
    <3> HIDE DEF old, trig
    <3>3. IsFiniteSet(old \cup {trig}) /\ Cardinality(old \cup {trig}) = Cardinality(old) + 1
      BY <3>1, FS_AddElement
    <3>4. IsFiniteSet(cycled'[o]) /\ Cardinality(cycled'[o]) = Cardinality(old) + 1
      BY <3>2, <3>3
    <3> QED BY <3>4 DEF old
  <2>4. PICK to \in {"running", "stop"} : Moves(t, Put(turn[t], to)) /\ Steps(turn[t], Put(turn[t], to)) /\ turn[t].pc = "cycled"
    BY <1>3, PutGoes
  <2>5. turn'[t].pc # "cycled" /\ \A u \in Turns : u # t => turn'[u] = turn[u]
    <3>1. to \in Places
      BY DEF Places, Streaming, Stopping
    <3>2. Put(turn[t], to).pc = to
      BY <1>1, <3>1, PutTyping
    <3> QED BY <2>4, <3>2, MovesOne
  <2>6. Counting(o)' = Counting(o) \ {t} /\ t \in Counting(o)
    BY <1>3, <2>4, <2>5 DEF Counting
  <2>7. Cardinality(Counting(o)') = N - 1
    BY <1>0, <2>6, FS_RemoveElement
  <2>8. some
    BY <2>6
  <2>9. n' <= C' + (IF some' THEN 1 ELSE 0) + faults' + D' /\ C' + N' <= n'
    BY <1>0, <2>2, <2>3, <2>7, <2>8
  <2> QED BY <2>3, <2>9
<1> HIDE DEF Goal
\* A turn is put among them by a count, and taken from them by the log or by a fault.
<1>4. ASSUME NEW u \in Turns, turn'[u].pc = "cycled", turn'[u].order = o, turn'[u] # turn[u], ~Goal PROVE FALSE
  <2>1. turn[u].pc = "counting" /\ turn[u].order = o /\ (TurnStep(u) \/ Throw(u))
    BY <1>4, TurnsGo DEF Steps
  <2>2. ~Throw(u)
    <3>1. ASSUME Throw(u) PROVE turn'[u].pc # "cycled"
      <4>1. PICK s : Moves(u, s) /\ Steps(turn[u], s) /\ s.pc \in {"failed", "next", "over"}
        BY <3>1, ThrowGoes
      <4> QED BY <4>1, MovesOne
    <3> QED BY <1>4, <3>1
  <2>3. Count(u)
    BY <2>1, <2>2, PlaceActs
  <2>4. row[o].status = "ACTIVE"
    <3>1. ASSUME row[o].status # "ACTIVE" PROVE turn'[u].pc # "cycled"
      <4> DEFINE s == [turn[u] EXCEPT !.pc = "running"]
      <4>1. Moves(u, s) /\ Steps(turn[u], s) /\ s.pc = "running"
        BY <2>1, <2>3, <3>1, CountGoes
      <4> HIDE DEF s
      <4> QED BY <4>1, MovesOne
    <3> QED BY <1>4, <3>1
  <2> QED BY <1>2, <1>4, <2>1, <2>3, <2>4
<1>5. ASSUME NEW u \in Turns, turn[u].pc = "cycled", turn[u].order = o, turn'[u] # turn[u], ~Goal PROVE Throw(u) \/ Restart
  <2>1. TurnStep(u) \/ Throw(u) \/ Restart
    BY <1>5, TurnsGo
  <2>2. ~TurnStep(u)
    BY <1>3, <1>5, PlaceActs
  <2> QED BY <2>1, <2>2
<1>6. ASSUME UNCHANGED <<row, cycled>>, faults' = faults + 1 PROVE Goal
  <2>1. IsFiniteSet(Counting(o)') /\ Cardinality(Counting(o)') \in Nat
    <3>1. Counting(o)' \subseteq Turns
      BY DEF Counting
    <3>2. IsFiniteSet(Turns)
      <4>1. 1 \in Int /\ MaxTurns \in Int
        BY BoundsAssumption
      <4> QED BY <4>1, FS_Interval DEF Turns
    <3> QED BY <3>1, <3>2, FS_Subset, FS_CardinalityType
  <2>2. n' = n /\ C' = C
    BY <1>6
  <2>3. CASE Goal
    BY <2>3
  <2>4. CASE ~Goal
    <3>1. Counting(o)' \subseteq Counting(o)
      BY <1>4, <2>4 DEF Counting
    <3>2. N' <= N
      BY <1>0, <3>1, FS_Subset
    <3>3. n' <= C' + (IF some' THEN 1 ELSE 0) + faults' + D' /\ C' + N' <= n'
      BY <1>0, <1>6, <2>1, <2>2, <3>2
    <3> QED BY <1>0, <1>6, <3>3 DEF Goal
  <2> QED BY <2>3, <2>4
<1>7. CASE \E t \in Turns : Throw(t)
  BY <1>6, <1>7, ThrowGoes DEF Goal
<1>8. CASE Restart
  BY <1>6, <1>8 DEF Restart, Goal
<1>9. CASE /\ ~Restart /\ ~(\E t \in Turns : Throw(t)) /\ ~Goal
  <2>1. Counting(o)' = Counting(o)
    BY <1>4, <1>5, <1>9 DEF Counting
  <2>2. cycled'[o] = cycled[o]
    <3>1. ASSUME NEW t \in Turns, TurnStep(t) PROVE cycled'[o] = cycled[o]
      <4>1. CASE AppendCycled(t)
        <5>1. turn[t].order # o
          BY <1>3, <1>9, <4>1
        <5> QED BY <1>1, <4>1, <5>1 DEF AppendCycled
      <4>2. CASE ~AppendCycled(t)
        BY <3>1, <4>2 DEF TurnStep, Admit, Refuse, ReadTerms, Count, Finish, ReadForStop,
           AppendStop, WriteStop, TellStopped, AfterFailure, List, Gate, Busy, Idle, ClaimTrigger, Summon, Walked
      <4> QED BY <4>1, <4>2
    <3> QED BY <1>9, <3>1 DEF OrderNext, Create, ReadControl, ReadEdit, CtlStep, AppendControl, WriteControl,
            CtlKeeps, Attend, Ask, Finally, orderVars
  <2>3. n' = n
    <3>1. CASE \E t \in Turns : Count(t) /\ turn[t].order = o
      <4>1. PICK t \in Turns : Count(t) /\ turn[t].order = o
        BY <3>1
      <4>2. row[o].status # "ACTIVE"
        BY <1>2, <1>9, <4>1
      <4> QED BY <4>1, <4>2, CountRow
    <3>2. CASE ~\E t \in Turns : Count(t) /\ turn[t].order = o
      BY <3>2, RowSteps
    <3> QED BY <3>1, <3>2
  <2>4. C' = C /\ N' = N /\ some' = some
    BY <2>1, <2>2
  <2>5. n' <= C' + (IF some' THEN 1 ELSE 0) + faults' + D' /\ C' + N' <= n'
    BY <1>0, <2>3, <2>4
  <2> QED BY <1>0, <2>2, <2>5 DEF Goal
<1> QED BY <1>7, <1>8, <1>9 DEF Goal

\* A row's last claimed trigger is only moved by a claim.
LEMMA OpenSteps ==
    ASSUME OrderTyped, [OrderNext]_orderVars, NEW o \in Orders
    PROVE  \/ row'[o].open = row[o].open
           \/ \E t \in Turns : turn'[t].pc = "summon" /\ turn'[t].cur = o /\ turn'[t].done = row'[o].open
<1>1. ASSUME NEW t \in Turns, ClaimTrigger(t), turn[t].cur = o, NewTrigger(o, turn[t].done)
      PROVE  turn'[t].pc = "summon" /\ turn'[t].cur = o /\ turn'[t].done = row'[o].open
  <2>1. PICK to \in {"summon", "next"} : Moves(t, Put(turn[t], to)) /\ Steps(turn[t], Put(turn[t], to))
          /\ (to = "summon" <=> NewTrigger(turn[t].cur, turn[t].done))
    BY <1>1, PutGoes
  <2>2. to = "summon" /\ to \in Places /\ turn[t] \in TurnRecords
    BY <1>1, <2>1 DEF Places, Walking, OrderTyped
  <2>3. Put(turn[t], to).pc = to /\ Put(turn[t], to).cur = turn[t].cur /\ Put(turn[t], to).done = turn[t].done
    BY <2>2, PutTyping
  <2>4. turn'[t] = Put(turn[t], to)
    BY <2>1, MovesOne
  <2>5. row'[o].open = turn[t].done
    BY <1>1, ClaimRow
  <2> QED BY <1>1, <2>2, <2>3, <2>4, <2>5
<1>2. ASSUME NEW t \in Turns, TurnStep(t) \/ Throw(t),
             ~(ClaimTrigger(t) /\ turn[t].cur = o /\ NewTrigger(o, turn[t].done))
      PROVE  row'[o].open = row[o].open
  <2>1. CASE WriteStop(t)
    BY <2>1, WriteStopRow
  <2>2. CASE Count(t)
    BY <2>2, CountRow
  <2>3. CASE ClaimTrigger(t)
    BY <1>2, <2>3, ClaimRow
  <2>4. CASE UNCHANGED row
    BY <2>4
  <2> QED BY <1>2, <2>1, <2>2, <2>3, <2>4 DEF TurnStep, Throw, Admit, Refuse, ReadTerms, AppendCycled, Finish, ReadForStop,
         AppendStop, TellStopped, AfterFailure, List, Gate, Busy, Idle, Summon, Walked
<1>3. ASSUME NEW c \in Controls, WriteControl(c) PROVE row'[o].open = row[o].open
  BY <1>3, WriteControlRow
<1>4. CASE Attend
  BY <1>4, AttendRow
<1>5. CASE UNCHANGED row
  BY <1>5
<1> QED BY <1>1, <1>2, <1>3, <1>4, <1>5 DEF OrderNext, CtlStep, Create, ReadControl, ReadEdit, AppendControl, Ask, Restart, Finally, orderVars

\* A claimed trigger goes on to be a turn, unless a fault takes it.
LEMMA ClaimStep ==
    ASSUME OrderTyped, Backed, ClaimIsTurn, [OrderNext]_orderVars PROVE ClaimIsTurn'
<1> SUFFICES ASSUME NEW o \in Orders, row'[o].open # 0, faults' = 0
             PROVE  \/ \E t \in Turns : turn'[t].pc # "none" /\ turn'[t].trigger = row'[o].open /\ turn'[t].member = ActOf[o]
                    \/ \E t \in Turns : turn'[t].pc = "summon" /\ turn'[t].cur = o /\ turn'[t].done = row'[o].open
  <2>1. faults' \in Nat
    <3>1. faults \in Nat /\ (faults' = faults \/ faults' = faults + 1)
      BY FaultsStep
    <3> QED BY <3>1
  <2> QED BY <2>1 DEF ClaimIsTurn
<1>1. faults = 0
  BY FaultsStep
<1>2. CASE row'[o].open = row[o].open
  <2>1. CASE \E t \in Turns : turn[t].pc # "none" /\ turn[t].trigger = row[o].open /\ turn[t].member = ActOf[o]
    BY <1>2, <2>1, TurnsKeep
  <2>2. ASSUME NEW t \in Turns, turn[t].pc = "summon", turn[t].cur = o, turn[t].done = row[o].open
        PROVE  \/ \E u \in Turns : turn'[u].pc # "none" /\ turn'[u].trigger = row'[o].open /\ turn'[u].member = ActOf[o]
               \/ \E u \in Turns : turn'[u].pc = "summon" /\ turn'[u].cur = o /\ turn'[u].done = row'[o].open
    <3>1. CASE turn'[t] = turn[t]
      BY <1>2, <2>2, <3>1
    <3>2. ~Restart /\ ~Throw(t)
      <4>1. Restart \/ Throw(t) => faults' = faults + 1
        BY DEF Restart, Throw
      <4> QED BY <1>1, <4>1
    <3>3. CASE TurnStep(t)
      <4>1. Summon(t)
        BY <2>2, <3>3, PlaceActs
      <4>2. CASE Summoned(ActOf[o], turn[t].done)
        BY <1>2, <2>2, <4>2, TurnsKeep DEF Summoned
      <4>3. CASE ~Summoned(ActOf[o], turn[t].done)
        <5>1. PICK u \in Turns \ {t} : Begins(u, ActOf[o], o, turn[t].done)
          BY <2>2, <4>1, <4>3, SummonGoes
        <5> QED BY <1>2, <2>2, <5>1 DEF Begins
      <4> QED BY <4>2, <4>3
    <3> QED BY <2>2, <3>1, <3>2, <3>3, TurnsGo
  <2> QED BY <1>1, <1>2, <2>1, <2>2 DEF ClaimIsTurn
<1> QED BY <1>2, OpenSteps

\* The inductive invariant of the standing orders.
OrderInv ==
    /\ OrderTyped /\ Backed
    /\ OnePerTrigger /\ LogIsTurns /\ EditIsSaid /\ TermsAreRead
    /\ CapInv /\ DialInv /\ CountInv /\ ClaimIsTurn

\* It holds at the start,
LEMMA OrdersBegin == OrderInit => OrderInv
<1> SUFFICES ASSUME OrderInit PROVE OrderInv
  OBVIOUS
<1>1. /\ \A t \in Turns : turn[t].pc = "none"
      /\ \A c \in Controls : ctl[c].pc = "none"
      /\ \A o \in Orders : row[o].cycles = 0 /\ row[o].unattended = 0 /\ row[o].open = 0 /\ cycled[o] = {} /\ row[o].terms = Default
      /\ faults = 0 /\ \A o \in Orders : crowded[o] = 0
  <2>1. [Done EXCEPT !.pc = "none"].pc = "none"
    BY DoneIsCtl DEF CtlRecords
  <2> QED BY <2>1 DEF OrderInit
<1>2. OrderTyped
  BY OrderTypedInit
<1>4. Backed
  BY BackedBegins
<1>5. OnePerTrigger /\ LogIsTurns /\ EditIsSaid /\ TermsAreRead /\ ClaimIsTurn
  BY <1>1 DEF OnePerTrigger, OfOrder, LogIsTurns, EditIsSaid, TermsAreRead, ClaimIsTurn
<1>6. ASSUME NEW o \in Orders
      PROVE /\ Cardinality(Resuming(o)) = 0 /\ Counting(o) = {} /\ Cardinality(Counting(o)) = 0
            /\ Says(o, "ACTIVE") \in Nat /\ Says(o, "edit") \in Nat
            /\ row[o].terms.cap \in Nat /\ row[o].terms.dial \in Nat \ {0}
  <2>1. Resuming(o) = {} /\ Counting(o) = {}
    BY <1>1 DEF Resuming, Counting
  <2>2. hist[o] \in Seq(Statuses \cup {"edit"})
    BY <1>2 DEF OrderTyped
  <2>3. \A w : Cardinality(Times(hist[o], w)) \in Nat
    BY <2>2, TimesAreCounted
  <2>4. Default \in Terms
    BY DefaultIsTerms
  <2> QED BY <1>1, <2>1, <2>3, <2>4, FS_EmptySet, TermsAssumption DEF Says, Times
<1>7. CapInv
  <2>1. \A o \in Orders : ~Spent(o)
    <3> SUFFICES ASSUME NEW o \in Orders, Spent(o) PROVE FALSE
      OBVIOUS
    <3> DEFINE k == row[o].terms.cap
    <3>1. k \in Nat /\ k # 0 /\ 0 >= k
      BY <1>1, <1>6 DEF Spent, NoCap
    <3> QED BY <3>1
  <2> QED BY <1>6, <2>1 DEF CapInv
<1>8. DialInv
  <2> SUFFICES ASSUME NEW o \in Orders PROVE row[o].unattended + (IF Loose(o) THEN 1 ELSE 0) <= row[o].terms.dial + faults + crowded[o]
    BY DEF DialInv
  <2> DEFINE k == row[o].terms.dial
  <2>1. k \in Nat \ {0} /\ row[o].unattended = 0 /\ faults = 0 /\ crowded[o] = 0
    BY <1>1, <1>6
  <2>2. 0 + 1 <= k + 0 + 0 /\ 0 + 0 <= k + 0 + 0
    BY <2>1
  <2> QED BY <2>1, <2>2
<1>9. CountInv
  <2>1. \A o \in Orders : IsFiniteSet(cycled[o]) /\ Cardinality(cycled[o]) = 0
    BY <1>1, FS_EmptySet
  <2> QED BY <1>1, <1>6, <2>1 DEF CountInv
<1> QED BY <1>2, <1>4, <1>5, <1>7, <1>8, <1>9 DEF OrderInv

\* every step keeps it,
LEMMA OrdersGoOn == OrderInv /\ [OrderNext]_orderVars => OrderInv'
<1> SUFFICES ASSUME OrderInv, [OrderNext]_orderVars PROVE OrderInv'
  OBVIOUS
<1> USE DEF OrderInv
<1>1. OrderTyped'
  BY OrderTypeStep
<1>2. Backed'
  BY BackedStep
<1>3. OnePerTrigger' /\ LogIsTurns' /\ EditIsSaid' /\ TermsAreRead'
  BY OnePerTriggerStep, LogIsTurnsStep, EditIsSaidStep, TermsAreReadStep
<1>4. CapInv' /\ DialInv' /\ CountInv' /\ ClaimIsTurn'
  BY CapStep, DialStep, CountStep, ClaimStep
<1> QED BY <1>1, <1>2, <1>3, <1>4

\* and it says that the orders are bounded.
LEMMA OrdersAreBound == OrderInv => BoundsHold
<1> SUFFICES ASSUME OrderInv PROVE BoundsHold
  OBVIOUS
<1> USE DEF OrderInv
<1>0. ASSUME NEW o \in Orders
      PROVE /\ row[o].cycles \in Nat /\ row[o].unattended \in Nat /\ row[o].terms.cap \in Nat /\ row[o].terms.dial \in Nat
            /\ crowded[o] \in Nat /\ faults \in Nat /\ Says(o, "ACTIVE") \in Nat /\ Cardinality(Resuming(o)) \in Nat
  <2>1. hist[o] \in Seq(Statuses \cup {"edit"})
    BY DEF OrderTyped
  <2>2. Cardinality(Times(hist[o], "ACTIVE")) \in Nat
    BY <2>1, TimesAreCounted
  <2>3. Says(o, "ACTIVE") \in Nat
    BY <2>2 DEF Says, Times
  <2>4. row[o] \in OrderRows /\ crowded[o] \in Nat /\ faults \in Nat
    BY BoundsAssumption DEF OrderTyped
  <2> QED BY <2>3, <2>4, ResumingIsFinite, TermsAssumption DEF OrderRows
<1>1. CapHolds
  <2> SUFFICES ASSUME NEW o \in Orders, Unedited(o), row[o].terms.cap # NoCap
               PROVE  row[o].cycles <= row[o].terms.cap + faults + Says(o, "ACTIVE") + crowded[o]
    BY DEF CapHolds
  <2>1. CASE row[o].cycles >= row[o].terms.cap
    <3>1. row[o].cycles + Cardinality(Resuming(o)) + (IF Open(o) THEN 1 ELSE 0)
            <= row[o].terms.cap + faults + Says(o, "ACTIVE") + crowded[o]
      BY <2>1 DEF CapInv, Spent
    <3> QED BY <1>0, <3>1
  <2>2. CASE ~(row[o].cycles >= row[o].terms.cap)
    BY <1>0, <2>2
  <2> QED BY <2>1, <2>2
<1>2. DialHolds
  <2> SUFFICES ASSUME NEW o \in Orders, Unedited(o) PROVE row[o].unattended <= row[o].terms.dial + faults + crowded[o]
    BY DEF DialHolds
  <2>1. row[o].unattended + (IF Loose(o) THEN 1 ELSE 0) <= row[o].terms.dial + faults + crowded[o]
    BY DEF DialInv
  <2> QED BY <1>0, <2>1
<1>3. CountIsLogged
  <2> SUFFICES ASSUME NEW o \in Orders
               PROVE  /\ row[o].cycles <= Cardinality(cycled[o]) + Cardinality(Counting(o)) + faults + crowded[o]
                      /\ Cardinality(cycled[o]) + Cardinality(Counting(o)) <= row[o].cycles
    BY DEF CountIsLogged, Counting
  <2> DEFINE C == Cardinality(cycled[o])  N == Cardinality(Counting(o))  k == IF Counting(o) # {} THEN 1 ELSE 0
  <2>1. C \in Nat /\ row[o].cycles <= C + k + faults + crowded[o] /\ C + N <= row[o].cycles
    BY FS_CardinalityType DEF CountInv
  <2>2. N \in Nat /\ k \in Nat /\ k <= N
    <3>1. IsFiniteSet(Counting(o)) /\ N \in Nat
      BY CountingIsFinite
    <3>2. N = 0 <=> Counting(o) = {}
      BY <3>1, FS_EmptySet
    <3> QED BY <3>1, <3>2
  <2> HIDE DEF C, N, k
  <2>3. row[o].cycles <= C + N + faults + crowded[o]
    BY <1>0, <2>1, <2>2
  <2> QED BY <2>1, <2>3 DEF C, N
<1>4. ExhaustedIsStopping
  <2> SUFFICES ASSUME NEW o \in Orders, row[o].status = "ACTIVE", hist[o] = <<"ACTIVE">>, faults = 0,
                      row[o].terms.cap # NoCap, row[o].cycles >= row[o].terms.cap
               PROVE  \E t \in Turns : /\ turn[t].order = o /\ turn[t].want = "LIMIT_REACHED"
                                       /\ turn[t].pc \in {"cycled", "stop", "stopping", "stopped"}
    BY DEF ExhaustedIsStopping
  <2>1. \A w : Times(hist[o], w) = {}
    BY DEF Times
  <2>2. Says(o, "ACTIVE") = 0 /\ Says(o, "edit") = 0
    BY <2>1, FS_EmptySet DEF Says, Times
  <2>3. Unedited(o) /\ Spent(o)
    BY <2>2 DEF Unedited, Live, Spent
  <2>4. Open(o) => faults > 0 \/ Says(o, "ACTIVE") > Cardinality(Resuming(o))
    BY <2>3 DEF CapInv
  <2>5. ~Open(o)
    BY <1>0, <2>2, <2>4
  <2> QED BY <2>5 DEF Open, OnItsWay, Handling
<1>5. RowFromLog
  BY DEF RowFromLog, Backed, RowsBacked, Said
<1> QED BY <1>1, <1>2, <1>3, <1>4, <1>5 DEF BoundsHold

\* An order is bounded by what it was given: its cap, its dial, its count and its end go together,
\* what it claims it runs, and its row says what its log says.
THEOREM BoundsHoldAlways == OrderSpec => []BoundsHold
<1>1. OrderSpec => []OrderInv
  BY OrdersBegin, OrdersGoOn, PTL DEF OrderSpec
<1> QED BY <1>1, OrdersAreBound, PTL

\* The variables of the standing orders keep their types.
THEOREM OrderTypesHold == OrderSpec => []OrderTypeOK
BY OrderTypes, OrderTyping, PTL

-----------------------------------------------------------------------------
(* Push notifications. *)

\* Where a notification is, the devices it has left, and that it has some exactly while it has work.
PushRows == push \in [Notices -> [pc : {"none", "throttle", "over"} \cup Sending, subs : SUBSET Endpoints]]
WorkLeft == \A n \in Notices : push[n].pc \in Sending \cup {"throttle"} <=> push[n].subs # {}
PushTyped == PushTypeOK /\ PushRows /\ WorkLeft

\* The device a notification is at is one of those it has left.
LEMMA DeviceIsLeft ==
    ASSUME PushRows, WorkLeft, NEW n \in Notices, push[n].pc \in Sending
    PROVE  Device(n) \in push[n].subs /\ Device(n) \in Endpoints
<1>1. push[n].subs \in SUBSET Nat /\ push[n].subs # {} /\ push[n].subs \subseteq Endpoints
  BY PushAssumption DEF PushRows, WorkLeft
<1> QED BY <1>1, FirstOfNumbers DEF Device

\* A notification at work goes on to another statement about the same device.
LEMMA PushToKept ==
    ASSUME PushRows, WorkLeft, NEW n \in Notices, NEW pc \in Sending,
           push[n].pc \in Sending \cup {"throttle"}, PushTo(n, pc)
    PROVE  /\ PushRows' /\ WorkLeft'
           /\ push'[n].pc = pc /\ push'[n].subs = push[n].subs
           /\ \A u \in Notices \ {n} : push'[u] = push[u]
BY DEF PushRows, WorkLeft, PushTo, Sending

\* A notification that is over has nothing left.
LEMMA PushOverKept ==
    ASSUME PushRows, WorkLeft, NEW n \in Notices, PushOver(n)
    PROVE  /\ PushRows' /\ WorkLeft'
           /\ push'[n].pc = "over" /\ push'[n].subs = {}
           /\ \A u \in Notices \ {n} : push'[u] = push[u]
BY DEF PushRows, WorkLeft, PushOver, Sending

\* After an attempt the device it was at is not left, and the next is to be sent to.
LEMMA OnwardKept ==
    ASSUME PushRows, WorkLeft, NEW n \in Notices, push[n].pc \in Sending, Onward(n)
    PROVE  /\ PushRows' /\ WorkLeft'
           /\ push'[n].pc = (IF push[n].subs = {Device(n)} THEN "over" ELSE "send")
           /\ push'[n].subs = push[n].subs \ {Device(n)}
           /\ \A u \in Notices \ {n} : push'[u] = push[u]
<1>1. Device(n) \in push[n].subs
  BY DeviceIsLeft
<1>2. CASE push[n].subs = {Device(n)}
  <2>1. PushOver(n)
    BY <1>2 DEF Onward
  <2> QED BY <2>1, <1>2, PushOverKept
<1>3. CASE push[n].subs # {Device(n)}
  <2>1. push' = [push EXCEPT ![n] = [pc |-> "send", subs |-> push[n].subs \ {Device(n)}]]
    BY <1>3 DEF Onward
  <2>2. push[n].subs \ {Device(n)} # {} /\ push[n].subs \ {Device(n)} \in SUBSET Endpoints
    BY <1>1, <1>3 DEF PushRows
  <2> HIDE DEF Device
  <2>3. push'[n].pc = "send" /\ push'[n].subs = push[n].subs \ {Device(n)} /\ \A u \in Notices \ {n} : push'[u] = push[u]
    BY <2>1 DEF PushRows
  <2>4. PushRows'
    BY <2>1, <2>2 DEF PushRows, Sending
  <2> QED BY <2>2, <2>3, <2>4, <1>3 DEF WorkLeft, Sending
<1> QED BY <1>2, <1>3

\* A crash leaves the notifications that were not dispatched yet.
LEMMA PushCrashKept ==
    ASSUME PushRows, WorkLeft, PushCrash
    PROVE  /\ PushRows' /\ WorkLeft'
           /\ \A n \in Notices : push'[n] = push[n] \/ push'[n] = [pc |-> "over", subs |-> {}]
BY DEF PushRows, WorkLeft, PushCrash, Sending

\* A notification begins with the devices of the moment.
LEMMA ReadDevicesKept ==
    ASSUME PushRows, WorkLeft, NEW n \in Notices, ReadDevices(n)
    PROVE  /\ PushRows' /\ WorkLeft' /\ push[n].pc = "none" /\ push'[n].pc \in {"over", "throttle"}
           /\ \A u \in Notices \ {n} : push'[u] = push[u]
<1> DEFINE subs == {e \in Endpoints : owner[e] = PrincipalOf[n]}
<1>1. push[n].pc = "none" /\ push' = [push EXCEPT ![n] = [pc |-> IF subs = {} THEN "over" ELSE "throttle", subs |-> subs]]
  BY DEF ReadDevices
<1>2. subs \in SUBSET Endpoints
  OBVIOUS
<1> HIDE DEF subs
<1>3. CASE subs = {}
  BY <1>1, <1>2, <1>3 DEF PushRows, WorkLeft, Sending
<1>4. CASE subs # {}
  BY <1>1, <1>2, <1>4 DEF PushRows, WorkLeft, Sending
<1> QED BY <1>3, <1>4

\* The notifications that are sending to a principal's devices.
SendingTo(p) == {n \in Notices : PrincipalOf[n] = p /\ push[n].pc \in Sending}

\* They are no more than all notifications.
LEMMA SendingIsSome ==
    ASSUME NEW p
    PROVE  /\ IsFiniteSet(SendingTo(p)) /\ Cardinality(SendingTo(p)) \in Nat
           /\ Cardinality(Notices) \in Nat /\ Cardinality(SendingTo(p)) <= Cardinality(Notices)
<1>1. SendingTo(p) \in SUBSET Notices /\ IsFiniteSet(Notices)
  BY PushAssumption DEF SendingTo
<1> QED BY <1>1, FS_Subset, FS_CardinalityType

\* Of two numbers the larger.
LEMMA LargerOfTwo == ASSUME NEW a \in Nat, NEW b \in Nat
    PROVE Max({a, b}) \in {a, b} /\ Max({a, b}) >= a /\ Max({a, b}) >= b
<1>1. PICK m \in {a, b} : \A k \in {a, b} : m >= k
  <2>1. CASE a >= b
    BY <2>1
  <2>2. CASE b >= a
    BY <2>2
  <2> QED BY <2>1, <2>2
<1> QED BY <1>1 DEF Max

\* What reading the hour leaves: the notice goes on to its first device, and is counted in the crowd.
LEMMA ReadHourKept ==
    ASSUME PushTyped, NEW n \in Notices, ReadHour(n)
    PROVE  \/ /\ PushOver(n) /\ UNCHANGED crowd /\ hour[PrincipalOf[n]] >= Throttle
              /\ sends' = sends \cup {<<n, NoEndpoint, "refused_throttle">>}
           \/ /\ PushTo(n, "send") /\ UNCHANGED sends /\ hour[PrincipalOf[n]] < Throttle
              /\ crowd' \in [Principals -> 0..Cardinality(Notices)]
              /\ \A p \in Principals \ {PrincipalOf[n]} : crowd'[p] = crowd[p]
              /\ crowd'[PrincipalOf[n]] >= Cardinality(SendingTo(PrincipalOf[n])')
<1> DEFINE p == PrincipalOf[n]
           beside == {u \in Notices : PrincipalOf[u] = p /\ push[u].pc \in Sending}
           most == Max({crowd[p], Cardinality(beside) + 1})
<1>1. p \in Principals /\ hour[p] \in Nat /\ Throttle \in Nat /\ crowd[p] \in Nat /\ crowd \in [Principals -> 0..Cardinality(Notices)]
  BY PushAssumption DEF PushTyped, PushTypeOK
<1>2. push[n].pc = "throttle"
  BY DEF ReadHour
<1>3. CASE Throttled(p)
  BY <1>1, <1>3 DEF ReadHour, Throttled
<1>4. CASE ~Throttled(p)
  <2>1. PushTo(n, "send") /\ UNCHANGED sends /\ hour[p] < Throttle /\ crowd' = [crowd EXCEPT ![p] = most]
    BY <1>1, <1>4 DEF ReadHour, Throttled
  <2>2. beside = SendingTo(p) /\ n \notin beside
    BY <1>2 DEF SendingTo, Sending
  <2>3. SendingTo(p)' = beside \cup {n}
    <3>1. \A u \in Notices \ {n} : push'[u] = push[u]
      BY <2>1 DEF PushTo, PushTyped, PushRows
    <3>2. push'[n].pc = "send"
      BY <2>1 DEF PushTo, PushTyped, PushRows
    <3> QED BY <3>1, <3>2 DEF SendingTo, Sending
  <2>4. IsFiniteSet(beside) /\ Cardinality(beside) \in Nat
    BY <2>2, SendingIsSome
  <2>5. Cardinality(SendingTo(p)') = Cardinality(beside) + 1
    <3> HIDE DEF beside
    <3> QED BY <2>2, <2>3, <2>4, FS_AddElement
  <2>6. Cardinality(beside \cup {n}) <= Cardinality(Notices) /\ Cardinality(Notices) \in Nat
    <3>1. beside \cup {n} \in SUBSET Notices /\ IsFiniteSet(Notices)
      BY PushAssumption
    <3> HIDE DEF beside
    <3> QED BY <3>1, FS_Subset, FS_CardinalityType
  <2>7. Cardinality(beside) + 1 \in 0..Cardinality(Notices)
    <3> HIDE DEF beside
    <3> QED BY <2>3, <2>4, <2>5, <2>6
  <2>8. most \in {crowd[p], Cardinality(beside) + 1} /\ most >= Cardinality(beside) + 1
    <3> HIDE DEF beside
    <3> QED BY <1>1, <2>4, LargerOfTwo
  <2>9. most \in 0..Cardinality(Notices)
    <3> HIDE DEF most, beside
    <3> QED BY <1>1, <2>7, <2>8
  <2> HIDE DEF most
  <2>10. crowd' \in [Principals -> 0..Cardinality(Notices)] /\ crowd'[p] = most /\ \A q \in Principals \ {p} : crowd'[q] = crowd[q]
    BY <1>1, <2>1, <2>9
  <2> HIDE DEF beside
  <2> QED BY <2>1, <2>5, <2>8, <2>10
<1> QED BY <1>3, <1>4

\* The variables of the notifications keep their types.
LEMMA PushTypesGoOn == PushTyped /\ [PushNext]_pushVars => PushTyped'
<1> SUFFICES ASSUME PushTyped, [PushNext]_pushVars PROVE PushTyped'
  OBVIOUS
<1> DEFINE Rest == /\ owner \in [Endpoints -> Principals \cup {Nobody}] /\ dead \subseteq Endpoints
                   /\ buzzed \subseteq Notices \X Endpoints /\ unheard \subseteq buzzed
                   /\ sends \subseteq Notices \X (Endpoints \cup {NoEndpoint}) \X Outcomes
                   /\ hour \in [Principals -> Nat] /\ crowd \in [Principals -> 0..Cardinality(Notices)]
                   /\ hours \in 0..MaxHours /\ pushFaults \in 0..MaxPushFaults
<1>0. PushRows /\ WorkLeft /\ Rest
  BY DEF PushTyped, PushTypeOK
<1>1. PushRows' /\ WorkLeft' /\ Rest' => PushTyped'
  BY DEF PushTyped, PushTypeOK, PushRows, WorkLeft, Sending
<1>2. ASSUME Throws PROVE pushFaults' \in 0..MaxPushFaults
  BY <1>0, <1>2, PushAssumption DEF Throws
<1>3. ASSUME UNCHANGED push PROVE PushRows' /\ WorkLeft'
  BY <1>0, <1>3 DEF PushRows, WorkLeft
<1>4. ASSUME NEW n \in Notices, NEW e \in Endpoints \cup {NoEndpoint}, NEW o \in Outcomes, sends' = sends \cup {<<n, e, o>>}
      PROVE  sends' \subseteq Notices \X (Endpoints \cup {NoEndpoint}) \X Outcomes
  BY <1>0, <1>4
<1>5. ASSUME NEW e \in Endpoints, (\E p \in Principals : Subscribe(e, p)) \/ Unsubscribe(e) \/ DropAddress(e) PROVE PushTyped'
  <2>1. UNCHANGED <<push, buzzed, unheard, sends, hour, crowd, hours, pushFaults>>
    BY <1>5 DEF Subscribe, Unsubscribe, DropAddress
  <2>2. owner' \in [Endpoints -> Principals \cup {Nobody}] /\ dead' \subseteq Endpoints
    BY <1>0, <1>5 DEF Subscribe, Unsubscribe, DropAddress
  <2> QED BY <1>0, <1>1, <1>3, <2>1, <2>2
<1>6. ASSUME NEW n \in Notices, ReadDevices(n) PROVE PushTyped'
  <2>1. UNCHANGED <<owner, dead, buzzed, unheard, sends, hour, crowd, hours, pushFaults>>
    BY <1>6 DEF ReadDevices
  <2> QED BY <1>0, <1>1, <1>6, <2>1, ReadDevicesKept
<1>7. ASSUME NEW n \in Notices, ReadHour(n) PROVE PushTyped'
  <2>1. UNCHANGED <<owner, dead, buzzed, unheard, hour, hours, pushFaults>> /\ push[n].pc = "throttle"
    BY <1>7 DEF ReadHour
  <2>2. PushRows' /\ WorkLeft'
    <3>1. CASE PushOver(n)
      BY <1>0, <3>1, PushOverKept
    <3>2. CASE PushTo(n, "send")
      BY <1>0, <2>1, <3>2, PushToKept DEF Sending
    <3> QED BY <1>7, <3>1, <3>2, ReadHourKept
  <2>3. crowd' \in [Principals -> 0..Cardinality(Notices)]
    BY <1>0, <1>7, ReadHourKept
  <2>4. sends' \subseteq Notices \X (Endpoints \cup {NoEndpoint}) \X Outcomes
    <3>1. "refused_throttle" \in Outcomes
      BY DEF Outcomes
    <3>2. sends' = sends \/ sends' = sends \cup {<<n, NoEndpoint, "refused_throttle">>}
      BY <1>7, ReadHourKept
    <3> QED BY <1>0, <1>4, <3>1, <3>2
  <2> QED BY <1>0, <1>1, <2>1, <2>2, <2>3, <2>4
<1>8. ASSUME NEW n \in Notices, RefuseEndpoint(n) PROVE PushTyped'
  <2>1. UNCHANGED <<owner, dead, buzzed, unheard, hour, crowd, hours, pushFaults>> /\ push[n].pc \in Sending /\ Onward(n)
        /\ sends' = sends \cup {<<n, Device(n), "refused_endpoint">>}
    BY <1>8 DEF RefuseEndpoint, Sending
  <2>2. Device(n) \in Endpoints /\ "refused_endpoint" \in Outcomes
    BY <1>0, <2>1, DeviceIsLeft DEF Outcomes
  <2> QED BY <1>0, <1>1, <1>4, <2>1, <2>2, OnwardKept
<1>9. ASSUME NEW n \in Notices, SendPush(n) PROVE PushTyped'
  <2>1. UNCHANGED <<owner, dead, sends, hour, crowd, hours, pushFaults>> /\ push[n].pc \in Sending
    BY <1>9 DEF SendPush, Sending
  <2>2. PICK pc \in Sending : PushTo(n, pc)
    BY <1>9 DEF SendPush, Refusal, Sending
  <2>3. buzzed' \subseteq Notices \X Endpoints /\ unheard' \subseteq buzzed'
    <3>1. Device(n) \in Endpoints
      BY <1>0, <2>1, DeviceIsLeft
    <3>2. \/ UNCHANGED <<buzzed, unheard>>
          \/ buzzed' = buzzed \cup {<<n, Device(n)>>} /\ (unheard' = unheard \/ unheard' = unheard \cup {<<n, Device(n)>>})
      BY <1>9 DEF SendPush
    <3> QED BY <1>0, <3>1, <3>2
  <2> QED BY <1>0, <1>1, <2>1, <2>2, <2>3, PushToKept
<1>10. ASSUME NEW n \in Notices, RecordDelivered(n) PROVE PushTyped'
  <2>1. UNCHANGED <<owner, dead, buzzed, unheard, crowd, hours>> /\ push[n].pc \in Sending
    BY <1>10 DEF RecordDelivered, Sending
  <2>2. Device(n) \in Endpoints /\ "delivered" \in Outcomes /\ PrincipalOf[n] \in Principals
    BY <1>0, <2>1, DeviceIsLeft, PushAssumption DEF Outcomes
  <2>3. CASE PushTo(n, "touch") /\ sends' = sends \cup {<<n, Device(n), "delivered">>}
             /\ hour' = [hour EXCEPT ![PrincipalOf[n]] = @ + 1] /\ UNCHANGED pushFaults
    <3>1. hour' \in [Principals -> Nat]
      BY <1>0, <2>2, <2>3
    <3>2. PushRows' /\ WorkLeft'
      BY <1>0, <2>1, <2>3, PushToKept DEF Sending
    <3> QED BY <1>0, <1>1, <1>4, <2>1, <2>2, <2>3, <3>1, <3>2
  <2>4. CASE Throws /\ PushTo(n, "failed") /\ UNCHANGED <<sends, hour>>
    <3>2. PushRows' /\ WorkLeft'
      BY <1>0, <2>1, <2>4, PushToKept DEF Sending
    <3> QED BY <1>0, <1>1, <1>2, <2>1, <2>4, <3>2
  <2> QED BY <1>10, <2>3, <2>4 DEF RecordDelivered
<1>11. ASSUME NEW n \in Notices, Touch(n) PROVE PushTyped'
  <2>1. UNCHANGED <<owner, dead, buzzed, unheard, sends, hour, crowd, hours>> /\ push[n].pc \in Sending
    BY <1>11 DEF Touch, Sending
  <2>2. CASE Onward(n) /\ UNCHANGED pushFaults
    BY <1>0, <1>1, <2>1, <2>2, OnwardKept
  <2>3. CASE Throws /\ PushTo(n, "failed")
    <3>2. PushRows' /\ WorkLeft'
      BY <1>0, <2>1, <2>3, PushToKept DEF Sending
    <3> QED BY <1>0, <1>1, <1>2, <2>1, <2>3, <3>2
  <2> QED BY <1>11, <2>2, <2>3 DEF Touch
<1>12. ASSUME NEW n \in Notices, Forget(n) PROVE PushTyped'
  <2>1. UNCHANGED <<dead, buzzed, unheard, sends, hour, crowd, hours>> /\ push[n].pc \in Sending
    BY <1>12 DEF Forget, Sending
  <2>2. CASE owner' = [owner EXCEPT ![Device(n)] = Nobody] /\ PushTo(n, "gone") /\ UNCHANGED pushFaults
    <3>1. owner' \in [Endpoints -> Principals \cup {Nobody}]
      BY <1>0, <2>2
    <3>2. PushRows' /\ WorkLeft'
      BY <1>0, <2>1, <2>2, PushToKept DEF Sending
    <3> QED BY <1>0, <1>1, <2>1, <2>2, <3>1, <3>2
  <2>3. CASE Throws /\ PushOver(n) /\ UNCHANGED owner
    <3>2. PushRows' /\ WorkLeft'
      BY <1>0, <2>3, PushOverKept
    <3> QED BY <1>0, <1>1, <1>2, <2>1, <2>3, <3>2
  <2> QED BY <1>12, <2>2, <2>3 DEF Forget
<1>13. ASSUME NEW n \in Notices, RecordFailed(n) PROVE PushTyped'
  <2>1. UNCHANGED <<owner, dead, buzzed, unheard, hour, crowd, hours>> /\ push[n].pc \in Sending /\ push[n].pc \in Outcomes
    BY <1>13 DEF RecordFailed, Sending, Outcomes
  <2>2. Device(n) \in Endpoints
    BY <1>0, <2>1, DeviceIsLeft
  <2>3. CASE sends' = sends \cup {<<n, Device(n), push[n].pc>>} /\ Onward(n) /\ UNCHANGED pushFaults
    BY <1>0, <1>1, <1>4, <2>1, <2>2, <2>3, OnwardKept
  <2>4. CASE Throws /\ PushOver(n) /\ UNCHANGED sends
    BY <1>0, <1>1, <1>2, <2>1, <2>4, PushOverKept
  <2> QED BY <1>13, <2>3, <2>4 DEF RecordFailed
<1>14. ASSUME HourPasses PROVE PushTyped'
  <2>1. UNCHANGED <<owner, dead, push, buzzed, unheard, sends, crowd, pushFaults>> /\ hour' = [p \in Principals |-> 0]
    BY <1>14 DEF HourPasses
  <2>2. hours' \in 0..MaxHours
    BY <1>0, <1>14, PushAssumption DEF HourPasses
  <2> QED BY <1>0, <1>1, <1>3, <2>1, <2>2
<1>15. ASSUME PushCrash PROVE PushTyped'
  <2>1. UNCHANGED <<owner, dead, buzzed, unheard, sends, hour, crowd, hours>> /\ Throws
    BY <1>15 DEF PushCrash
  <2> QED BY <1>0, <1>1, <1>2, <1>15, <2>1, PushCrashKept
<1>16. ASSUME UNCHANGED pushVars PROVE PushTyped'
  <2>1. UNCHANGED <<owner, dead, push, buzzed, unheard, sends, hour, crowd, hours, pushFaults>>
    BY <1>16 DEF pushVars
  <2> QED BY <1>0, <1>1, <1>3, <2>1
<1> QED BY <1>5, <1>6, <1>7, <1>8, <1>9, <1>10, <1>11, <1>12, <1>13, <1>14, <1>15, <1>16 DEF PushNext

\* And they begin with them.
LEMMA PushTypes == PushSpec => []PushTyped
<1>1. PushInit => PushTyped
  <2> SUFFICES ASSUME PushInit PROVE PushTyped
    OBVIOUS
  <2>1. Cardinality(Notices) \in Nat
    BY PushAssumption, FS_CardinalityType
  <2>2. \A n \in Notices : push[n] = [pc |-> "none", subs |-> {}]
    BY DEF PushInit
  <2>3. PushRows /\ WorkLeft
    BY <2>2 DEF PushRows, WorkLeft, PushInit, Sending
  <2>4. crowd \in [Principals -> 0..Cardinality(Notices)] /\ hour \in [Principals -> Nat]
    BY <2>1 DEF PushInit
  <2>5. hours \in 0..MaxHours /\ pushFaults \in 0..MaxPushFaults
    BY PushAssumption DEF PushInit
  <2>6. owner \in [Endpoints -> Principals \cup {Nobody}] /\ dead \subseteq Endpoints
        /\ buzzed \subseteq Notices \X Endpoints /\ sends \subseteq Notices \X (Endpoints \cup {NoEndpoint}) \X Outcomes
        /\ unheard \subseteq buzzed
    BY DEF PushInit
  <2> QED BY <2>2, <2>3, <2>4, <2>5, <2>6 DEF PushTyped, PushTypeOK, PushRows, Sending
<1> QED BY <1>1, PushTypesGoOn, PTL DEF PushSpec

\* A "gone" row is of a dropped address that nobody has; a notice about to write one has seen it dropped.
GoneOf(n) ==
    /\ \A e \in Endpoints : <<n, e, "gone">> \in sends => e \in dead /\ owner[e] = Nobody
    /\ push[n].pc \in {"forget", "gone"} => Device(n) \in dead
    /\ push[n].pc = "gone" => owner[Device(n)] = Nobody

\* What was buzzed, and what failed, is behind a notice, but for the device it is at.
RowsOf(n) ==
    /\ \A e \in Endpoints : <<n, e, "delivered">> \in sends => <<n, e>> \in buzzed /\ <<n, e>> \notin unheard
    /\ \A e \in Endpoints : <<n, e>> \in unheard =>
          /\ <<n, e>> \in buzzed /\ (e \in push[n].subs => push[n].pc = "failed")
          /\ pushFaults = 0 => <<n, e, "failed">> \in sends \/ (push[n].pc = "failed" /\ Device(n) = e)
    /\ push[n].pc = "record" => <<n, Device(n)>> \in buzzed /\ Device(n) \in Allowed
    /\ \A e \in Endpoints : <<n, e>> \in buzzed =>
          /\ push[n].pc \notin {"none", "throttle"}
          /\ e \in push[n].subs => e = Device(n) /\ push[n].pc \in {"record", "touch", "failed"}
    /\ \A e \in Endpoints : <<n, e, "failed">> \in sends =>
          push[n].pc \notin {"none", "throttle"} /\ e \notin push[n].subs
    /\ pushFaults = 0 => \A e \in Endpoints : <<n, e>> \in buzzed /\ <<n, e>> \notin unheard =>
          /\ <<n, e, "delivered">> \in sends \/ (push[n].pc = "record" /\ Device(n) = e)
          /\ <<n, e, "failed">> \notin sends
          /\ e \in push[n].subs => push[n].pc \in {"record", "touch"}

RowsInv == \A n \in Notices : GoneOf(n) /\ RowsOf(n)

\* A notice that neither moves nor is written about keeps what is said of it.
LEMMA OthersRowsKept ==
    ASSUME NEW n \in Notices, GoneOf(n), RowsOf(n), UNCHANGED <<dead, owner>>, pushFaults' = 0 => pushFaults = 0,
           push'[n] = push[n],
           \A e \in Endpoints, o \in Outcomes : <<n, e, o>> \in sends' <=> <<n, e, o>> \in sends,
           \A e \in Endpoints : <<n, e>> \in buzzed' <=> <<n, e>> \in buzzed,
           \A e \in Endpoints : <<n, e>> \in unheard' <=> <<n, e>> \in unheard
    PROVE  GoneOf(n)' /\ RowsOf(n)'
<1>1. Device(n)' = Device(n)
  BY DEF Device
<1>2. "gone" \in Outcomes /\ "failed" \in Outcomes /\ "delivered" \in Outcomes
  BY DEF Outcomes
<1> HIDE DEF Device
<1>3. GoneOf(n)'
  BY <1>1, <1>2 DEF GoneOf
<1>4. RowsOf(n)'
  <2>1. \A e \in Endpoints : <<n, e, "delivered">> \in sends' => <<n, e>> \in buzzed' /\ <<n, e>> \notin unheard'
    BY <1>1, <1>2 DEF RowsOf
  <2>6. \A e \in Endpoints : <<n, e>> \in unheard' =>
          /\ <<n, e>> \in buzzed' /\ (e \in push'[n].subs => push'[n].pc = "failed")
          /\ pushFaults' = 0 => <<n, e, "failed">> \in sends' \/ (push'[n].pc = "failed" /\ Device(n)' = e)
    <3> SUFFICES ASSUME NEW e \in Endpoints, <<n, e>> \in unheard'
                 PROVE  /\ <<n, e>> \in buzzed' /\ (e \in push'[n].subs => push'[n].pc = "failed")
                        /\ pushFaults' = 0 => <<n, e, "failed">> \in sends' \/ (push'[n].pc = "failed" /\ Device(n)' = e)
      OBVIOUS
    <3>1. <<n, e>> \in unheard
      OBVIOUS
    <3>2. /\ <<n, e>> \in buzzed /\ (e \in push[n].subs => push[n].pc = "failed")
          /\ pushFaults = 0 => <<n, e, "failed">> \in sends \/ (push[n].pc = "failed" /\ Device(n) = e)
      BY <3>1 DEF RowsOf
    <3> QED BY <3>2, <1>1, <1>2
  <2>2. push'[n].pc = "record" => <<n, Device(n)'>> \in buzzed' /\ Device(n)' \in Allowed
    BY <1>1, <1>2, PushAssumption DEF RowsOf
  <2>3. \A e \in Endpoints : <<n, e>> \in buzzed' =>
          /\ push'[n].pc \notin {"none", "throttle"}
          /\ e \in push'[n].subs => e = Device(n)' /\ push'[n].pc \in {"record", "touch", "failed"}
    <3> SUFFICES ASSUME NEW e \in Endpoints, <<n, e>> \in buzzed'
                 PROVE  /\ push'[n].pc \notin {"none", "throttle"}
                        /\ e \in push'[n].subs => e = Device(n)' /\ push'[n].pc \in {"record", "touch", "failed"}
      OBVIOUS
    <3>1. <<n, e>> \in buzzed
      OBVIOUS
    <3>2. /\ push[n].pc \notin {"none", "throttle"}
          /\ e \in push[n].subs => e = Device(n) /\ push[n].pc \in {"record", "touch", "failed"}
      BY <3>1 DEF RowsOf
    <3> QED BY <3>2, <1>1
  <2>4. \A e \in Endpoints : <<n, e, "failed">> \in sends' =>
          push'[n].pc \notin {"none", "throttle"} /\ e \notin push'[n].subs
    BY <1>1, <1>2 DEF RowsOf
  <2>5. pushFaults' = 0 => \A e \in Endpoints : <<n, e>> \in buzzed' /\ <<n, e>> \notin unheard' =>
          /\ <<n, e, "delivered">> \in sends' \/ (push'[n].pc = "record" /\ Device(n)' = e)
          /\ <<n, e, "failed">> \notin sends'
          /\ e \in push'[n].subs => push'[n].pc \in {"record", "touch"}
    BY <1>1, <1>2 DEF RowsOf
  <2> QED BY <2>1, <2>2, <2>3, <2>4, <2>5, <2>6 DEF RowsOf
<1> QED BY <1>3, <1>4

\* The rows stay true to what was sent.
LEMMA RowsGoOn == PushTyped /\ RowsInv /\ [PushNext]_pushVars => RowsInv'
<1> SUFFICES ASSUME PushTyped, RowsInv, [PushNext]_pushVars PROVE RowsInv'
  OBVIOUS
<1>0. PushRows /\ WorkLeft /\ pushFaults \in Nat
  BY PushAssumption DEF PushTyped, PushTypeOK
<1>1. ASSUME UNCHANGED pushVars PROVE RowsInv'
  BY <1>1, OthersRowsKept DEF pushVars, RowsInv
<1>2. ASSUME HourPasses PROVE RowsInv'
  BY <1>2, OthersRowsKept DEF HourPasses, RowsInv
<1>3. ASSUME NEW e \in Endpoints, (\E p \in Principals : Subscribe(e, p)) \/ Unsubscribe(e) \/ DropAddress(e) PROVE RowsInv'
  <2> SUFFICES ASSUME NEW n \in Notices PROVE GoneOf(n)' /\ RowsOf(n)'
    BY DEF RowsInv
  <2>1. UNCHANGED <<push, buzzed, unheard, sends, pushFaults>> /\ dead \subseteq dead' /\ owner \in [Endpoints -> Principals \cup {Nobody}]
    BY <1>3 DEF Subscribe, Unsubscribe, DropAddress, PushTyped, PushTypeOK
  <2>2. \A f \in Endpoints : f \in dead /\ owner[f] = Nobody => owner'[f] = Nobody
    BY <1>3, <2>1 DEF Subscribe, Unsubscribe, DropAddress
  <2>3. Device(n)' = Device(n)
    BY <2>1 DEF Device
  <2>4. push[n].pc \in {"forget", "gone"} => Device(n) \in Endpoints
    BY <1>0, DeviceIsLeft DEF Sending
  <2> HIDE DEF Device
  <2>5. GoneOf(n) /\ RowsOf(n)
    BY DEF RowsInv
  <2>6. GoneOf(n)'
    BY <2>1, <2>2, <2>3, <2>4, <2>5 DEF GoneOf
  <2>7. RowsOf(n)'
    BY <2>1, <2>3, <2>5 DEF RowsOf
  <2> QED BY <2>6, <2>7
<1>4. ASSUME PushCrash PROVE RowsInv'
  <2> SUFFICES ASSUME NEW n \in Notices PROVE GoneOf(n)' /\ RowsOf(n)'
    BY DEF RowsInv
  <2>1. UNCHANGED <<owner, dead, buzzed, unheard, sends>> /\ pushFaults' # 0
    BY <1>0, <1>4 DEF PushCrash, Throws
  <2>2. GoneOf(n) /\ RowsOf(n)
    BY DEF RowsInv
  <2>3. CASE push'[n] = push[n]
    BY <2>1, <2>2, <2>3, OthersRowsKept
  <2>4. CASE push'[n] = [pc |-> "over", subs |-> {}]
    <3>1. push'[n].pc = "over" /\ push'[n].subs = {}
      BY <2>4
    <3>2. GoneOf(n)'
      BY <2>1, <2>2, <3>1 DEF GoneOf
    <3>3. RowsOf(n)'
      BY <2>1, <2>2, <3>1 DEF RowsOf
    <3> QED BY <3>2, <3>3
  <2> QED BY <1>0, <1>4, <2>3, <2>4, PushCrashKept
<1>5. ASSUME NEW n \in Notices, GoneOf(n)', RowsOf(n)', UNCHANGED <<dead, owner>>, pushFaults' = 0 => pushFaults = 0,
             \A u \in Notices \ {n} : push'[u] = push[u],
             \A u \in Notices \ {n}, e \in Endpoints, o \in Outcomes : <<u, e, o>> \in sends' <=> <<u, e, o>> \in sends,
             \A u \in Notices \ {n}, e \in Endpoints : <<u, e>> \in buzzed' <=> <<u, e>> \in buzzed,
             \A u \in Notices \ {n}, e \in Endpoints : <<u, e>> \in unheard' <=> <<u, e>> \in unheard
      PROVE  RowsInv'
  <2>1. ASSUME NEW u \in Notices \ {n} PROVE GoneOf(u)' /\ RowsOf(u)'
    <3>1. GoneOf(u) /\ RowsOf(u)
      BY DEF RowsInv
    <3>2. \A e \in Endpoints, o \in Outcomes : <<u, e, o>> \in sends' <=> <<u, e, o>> \in sends
      BY <1>5
    <3>3. \A e \in Endpoints : <<u, e>> \in buzzed' <=> <<u, e>> \in buzzed
      BY <1>5
    <3>5. \A e \in Endpoints : <<u, e>> \in unheard' <=> <<u, e>> \in unheard
      BY <1>5
    <3>4. UNCHANGED <<dead, owner>> /\ (pushFaults' = 0 => pushFaults = 0) /\ push'[u] = push[u]
      BY <1>5
    <3> QED BY <3>1, <3>2, <3>3, <3>4, <3>5, OthersRowsKept
  <2> QED BY <1>5, <2>1 DEF RowsInv
<1>6. ASSUME NEW n \in Notices, ReadDevices(n) PROVE RowsInv'
  <2>1. UNCHANGED <<owner, dead, buzzed, unheard, sends, pushFaults>>
    BY <1>6 DEF ReadDevices
  <2>2. push[n].pc = "none" /\ push'[n].pc \in {"over", "throttle"} /\ \A u \in Notices \ {n} : push'[u] = push[u]
    BY <1>0, <1>6, ReadDevicesKept
  <2>3. GoneOf(n) /\ RowsOf(n)
    BY DEF RowsInv
  <2>4. GoneOf(n)'
    BY <2>1, <2>2, <2>3 DEF GoneOf
  <2>5. RowsOf(n)'
    BY <2>1, <2>2, <2>3 DEF RowsOf
  <2> QED BY <1>5, <2>1, <2>2, <2>4, <2>5
<1>7. ASSUME NEW n \in Notices, ReadHour(n) PROVE RowsInv'
  <2>1. UNCHANGED <<owner, dead, buzzed, unheard, pushFaults>> /\ push[n].pc = "throttle"
    BY <1>7 DEF ReadHour
  <2>2. GoneOf(n) /\ RowsOf(n)
    BY DEF RowsInv
  <2>3. \A u \in Notices, e \in Endpoints, o \in Outcomes : o # "refused_throttle" => (<<u, e, o>> \in sends' <=> <<u, e, o>> \in sends)
    BY <1>7, ReadHourKept
  <2>4. \A u \in Notices \ {n}, e \in Endpoints, o \in Outcomes : <<u, e, o>> \in sends' <=> <<u, e, o>> \in sends
    BY <1>7, ReadHourKept
  <2>5. push'[n].pc \in {"over", "send"} /\ \A u \in Notices \ {n} : push'[u] = push[u]
    <3>1. CASE PushOver(n)
      BY <1>0, <3>1, PushOverKept
    <3>2. CASE PushTo(n, "send")
      BY <1>0, <2>1, <3>2, PushToKept DEF Sending
    <3> QED BY <1>7, <3>1, <3>2, ReadHourKept
  <2>6. "gone" \in Outcomes /\ "failed" \in Outcomes /\ "delivered" \in Outcomes
    BY DEF Outcomes
  <2>7. GoneOf(n)'
    BY <2>1, <2>2, <2>3, <2>5, <2>6 DEF GoneOf
  <2>8. RowsOf(n)'
    BY <2>1, <2>2, <2>3, <2>5, <2>6 DEF RowsOf
  <2> QED BY <1>5, <2>1, <2>4, <2>5, <2>7, <2>8
<1>9. ASSUME NEW n \in Notices, RefuseEndpoint(n) PROVE RowsInv'
  <2>1. UNCHANGED <<owner, dead, buzzed, unheard, pushFaults>> /\ push[n].pc = "send" /\ Onward(n)
        /\ sends' = sends \cup {<<n, Device(n), "refused_endpoint">>}
    BY <1>9 DEF RefuseEndpoint
  <2>2. GoneOf(n) /\ RowsOf(n) /\ push[n].pc \in Sending
    BY <2>1 DEF RowsInv, Sending
  <2>3. Device(n) \in push[n].subs /\ push'[n].pc \in {"over", "send"} /\ push'[n].subs = push[n].subs \ {Device(n)}
        /\ \A u \in Notices \ {n} : push'[u] = push[u]
    BY <1>0, <2>1, <2>2, DeviceIsLeft, OnwardKept
  <2> HIDE DEF Device
  <2>4. GoneOf(n)'
    BY <2>1, <2>2, <2>3 DEF GoneOf
  <2>5. RowsOf(n)'
    BY <2>1, <2>2, <2>3 DEF RowsOf
  <2> QED BY <1>5, <2>1, <2>3, <2>4, <2>5
<1>10. ASSUME NEW n \in Notices, SendPush(n) PROVE RowsInv'
  <2>1. UNCHANGED <<owner, dead, sends, pushFaults>> /\ push[n].pc = "send" /\ Device(n) \in Allowed
    BY <1>10 DEF SendPush
  <2>2. GoneOf(n) /\ RowsOf(n) /\ push[n].pc \in Sending
    BY <2>1 DEF RowsInv, Sending
  <2>3. Device(n) \in push[n].subs /\ Device(n) \in Endpoints
    BY <1>0, <2>2, DeviceIsLeft
  <2>4. CASE PushTo(n, "record") /\ buzzed' = buzzed \cup {<<n, Device(n)>>} /\ UNCHANGED unheard
    <3>1. push'[n].pc = "record" /\ push'[n].subs = push[n].subs /\ \A u \in Notices \ {n} : push'[u] = push[u]
      BY <1>0, <2>2, <2>4, PushToKept DEF Sending
    <3>2. Device(n)' = Device(n)
      BY <3>1 DEF Device
    <3> HIDE DEF Device
    <3>3. GoneOf(n)'
      BY <2>1, <2>2, <2>4, <3>1, <3>2 DEF GoneOf
    <3>4. \A e \in Endpoints : <<n, e>> \in buzzed' => <<n, e>> \in buzzed \/ e = Device(n)
      BY <2>4
    <3>5. <<n, Device(n)>> \in buzzed'
      BY <2>4
    <3>5a. \A e \in Endpoints : <<n, e>> \in buzzed => <<n, e>> \in buzzed'
      BY <2>4
    <3>7. UNCHANGED unheard
      BY <2>4
    <3>8. UNCHANGED <<sends, pushFaults>> /\ push[n].pc = "send" /\ Device(n) \in Allowed
      BY <2>1
    <3>6. RowsOf(n)'
      <4>1. \A e \in Endpoints : <<n, e, "delivered">> \in sends' => <<n, e>> \in buzzed' /\ <<n, e>> \notin unheard'
        BY <2>2, <2>3, <3>1, <3>2, <3>4, <3>5, <3>5a, <3>7, <3>8 DEF RowsOf
      <4>2. \A e \in Endpoints : <<n, e>> \in unheard' =>
              /\ <<n, e>> \in buzzed' /\ (e \in push'[n].subs => push'[n].pc = "failed")
              /\ pushFaults' = 0 => <<n, e, "failed">> \in sends' \/ (push'[n].pc = "failed" /\ Device(n)' = e)
        BY <2>2, <2>3, <3>1, <3>2, <3>4, <3>5, <3>5a, <3>7, <3>8 DEF RowsOf
      <4>3. push'[n].pc = "record" => <<n, Device(n)'>> \in buzzed' /\ Device(n)' \in Allowed
        BY <2>2, <2>3, <3>1, <3>2, <3>4, <3>5, <3>5a, <3>7, <3>8 DEF RowsOf
      <4>4. \A e \in Endpoints : <<n, e>> \in buzzed' =>
              /\ push'[n].pc \notin {"none", "throttle"}
              /\ e \in push'[n].subs => e = Device(n)' /\ push'[n].pc \in {"record", "touch", "failed"}
        BY <2>2, <2>3, <3>1, <3>2, <3>4, <3>5, <3>5a, <3>7, <3>8 DEF RowsOf
      <4>5. \A e \in Endpoints : <<n, e, "failed">> \in sends' =>
              push'[n].pc \notin {"none", "throttle"} /\ e \notin push'[n].subs
        BY <2>2, <2>3, <3>1, <3>2, <3>4, <3>5, <3>5a, <3>7, <3>8 DEF RowsOf
      <4>6. pushFaults' = 0 => \A e \in Endpoints : <<n, e>> \in buzzed' /\ <<n, e>> \notin unheard' =>
              /\ <<n, e, "delivered">> \in sends' \/ (push'[n].pc = "record" /\ Device(n)' = e)
              /\ <<n, e, "failed">> \notin sends'
              /\ e \in push'[n].subs => push'[n].pc \in {"record", "touch"}
        BY <2>2, <2>3, <3>1, <3>2, <3>4, <3>5, <3>5a, <3>7, <3>8 DEF RowsOf
      <4> QED BY <4>1, <4>2, <4>3, <4>4, <4>5, <4>6 DEF RowsOf
    <3> QED BY <1>5, <2>1, <2>4, <3>1, <3>3, <3>6
  <2>5. ASSUME NEW pc \in {"forget", "failed"}, PushTo(n, pc), pc \in Refusal(n), UNCHANGED <<buzzed, unheard>> PROVE RowsInv'
    <3>1. push'[n].pc = pc /\ push'[n].subs = push[n].subs /\ \A u \in Notices \ {n} : push'[u] = push[u]
      BY <1>0, <2>2, <2>5, PushToKept DEF Sending
    <3>2. Device(n)' = Device(n)
      BY <3>1 DEF Device
    <3>3. pc = "forget" => Device(n) \in dead
      BY <2>5 DEF Refusal
    <3> HIDE DEF Device
    <3>4. GoneOf(n)'
      BY <2>1, <2>2, <2>5, <3>1, <3>2, <3>3 DEF GoneOf
    <3>5. RowsOf(n)'
      BY <2>1, <2>2, <2>3, <2>5, <3>1, <3>2 DEF RowsOf
    <3> QED BY <1>5, <2>1, <2>5, <3>1, <3>4, <3>5
  <2>7. CASE /\ PushTo(n, "failed") /\ buzzed' = buzzed \cup {<<n, Device(n)>>}
             /\ unheard' = unheard \cup {<<n, Device(n)>>}
    <3>1. push'[n].pc = "failed" /\ push'[n].subs = push[n].subs /\ \A u \in Notices \ {n} : push'[u] = push[u]
      BY <1>0, <2>2, <2>7, PushToKept DEF Sending
    <3>2. Device(n)' = Device(n)
      BY <3>1 DEF Device
    <3> HIDE DEF Device
    <3>3. GoneOf(n)'
      BY <2>1, <2>2, <2>7, <3>1, <3>2 DEF GoneOf
    <3>4. ASSUME NEW e \in Endpoints, <<n, e>> \in buzzed \/ <<n, e, "failed">> \in sends PROVE e \notin push[n].subs
      BY <2>1, <2>2, <3>4 DEF RowsOf
    <3>5. ASSUME NEW e \in Endpoints, <<n, e>> \in unheard \/ <<n, e, "delivered">> \in sends PROVE e \notin push[n].subs
      BY <2>2, <3>4, <3>5 DEF RowsOf
    <3>8. UNCHANGED <<sends, pushFaults>> /\ push[n].pc = "send"
      BY <2>1
    <3>6. RowsOf(n)'
      <4>1. ASSUME NEW e \in Endpoints, <<n, e, "delivered">> \in sends' PROVE <<n, e>> \in buzzed' /\ <<n, e>> \notin unheard'
        <5>1. e # Device(n)
          BY <2>3, <3>5, <3>8, <4>1
        <5>2. <<n, e>> \in buzzed /\ <<n, e>> \notin unheard
          BY <2>2, <3>8, <4>1 DEF RowsOf
        <5> QED BY <2>7, <5>1, <5>2
      <4>2. ASSUME NEW e \in Endpoints, <<n, e>> \in unheard'
            PROVE  /\ <<n, e>> \in buzzed' /\ (e \in push'[n].subs => push'[n].pc = "failed")
                   /\ pushFaults' = 0 => <<n, e, "failed">> \in sends' \/ (push'[n].pc = "failed" /\ Device(n)' = e)
        <5>1. CASE e = Device(n)
          BY <2>7, <3>1, <3>2, <5>1
        <5>2. CASE e # Device(n)
          <6>1. <<n, e>> \in unheard
            BY <2>7, <4>2, <5>2
          <6> QED BY <2>2, <2>7, <3>1, <3>8, <6>1 DEF RowsOf
        <5> QED BY <5>1, <5>2
      <4>3. push'[n].pc # "record"
        BY <3>1
      <4>4. ASSUME NEW e \in Endpoints, <<n, e>> \in buzzed'
            PROVE  /\ push'[n].pc \notin {"none", "throttle"}
                   /\ e \in push'[n].subs => e = Device(n)' /\ push'[n].pc \in {"record", "touch", "failed"}
        <5>1. CASE e = Device(n)
          BY <3>1, <3>2, <5>1
        <5>2. CASE e # Device(n)
          <6>1. <<n, e>> \in buzzed
            BY <2>7, <4>4, <5>2
          <6> QED BY <3>1, <3>4, <6>1
        <5> QED BY <5>1, <5>2
      <4>5. \A e \in Endpoints : <<n, e, "failed">> \in sends' =>
              push'[n].pc \notin {"none", "throttle"} /\ e \notin push'[n].subs
        BY <3>1, <3>4, <3>8
      <4>6. ASSUME pushFaults' = 0, NEW e \in Endpoints, <<n, e>> \in buzzed', <<n, e>> \notin unheard'
            PROVE  /\ <<n, e, "delivered">> \in sends' \/ (push'[n].pc = "record" /\ Device(n)' = e)
                   /\ <<n, e, "failed">> \notin sends'
                   /\ e \in push'[n].subs => push'[n].pc \in {"record", "touch"}
        <5>1. e # Device(n) /\ <<n, e>> \in buzzed /\ <<n, e>> \notin unheard
          BY <2>7, <4>6
        <5>2. e \notin push[n].subs
          BY <3>4, <5>1
        <5>3. pushFaults = 0
          BY <3>8, <4>6
        <5>4. <<n, e, "delivered">> \in sends /\ <<n, e, "failed">> \notin sends
          BY <2>2, <3>8, <5>1, <5>3 DEF RowsOf
        <5> QED BY <3>1, <3>8, <5>2, <5>4
      <4> QED BY <4>1, <4>2, <4>3, <4>4, <4>5, <4>6 DEF RowsOf
    <3> QED BY <1>5, <2>1, <2>7, <3>1, <3>3, <3>6
  <2>6. Refusal(n) \subseteq {"forget", "failed"}
    BY DEF Refusal
  <2> QED BY <1>10, <2>4, <2>5, <2>6, <2>7 DEF SendPush
<1>11. ASSUME NEW n \in Notices, RecordDelivered(n) PROVE RowsInv'
  <2>1. UNCHANGED <<owner, dead, buzzed, unheard>> /\ push[n].pc = "record"
    BY <1>11 DEF RecordDelivered
  <2>2. GoneOf(n) /\ RowsOf(n) /\ push[n].pc \in Sending
    BY <2>1 DEF RowsInv, Sending
  <2>3. Device(n) \in push[n].subs /\ Device(n) \in Endpoints
    BY <1>0, <2>2, DeviceIsLeft
  <2>4. CASE PushTo(n, "touch") /\ sends' = sends \cup {<<n, Device(n), "delivered">>} /\ UNCHANGED pushFaults
    <3>1. push'[n].pc = "touch" /\ push'[n].subs = push[n].subs /\ \A u \in Notices \ {n} : push'[u] = push[u]
      BY <1>0, <2>2, <2>4, PushToKept DEF Sending
    <3>2. Device(n)' = Device(n)
      BY <3>1 DEF Device
    <3> HIDE DEF Device
    <3>3. GoneOf(n)'
      BY <2>1, <2>2, <2>4, <3>1, <3>2 DEF GoneOf
    <3>4. RowsOf(n)'
      BY <2>1, <2>2, <2>3, <2>4, <3>1, <3>2 DEF RowsOf
    <3> QED BY <1>5, <2>1, <2>4, <3>1, <3>3, <3>4
  <2>5. CASE Throws /\ PushTo(n, "failed") /\ UNCHANGED sends
    <3>1. push'[n].pc = "failed" /\ push'[n].subs = push[n].subs /\ \A u \in Notices \ {n} : push'[u] = push[u]
      BY <1>0, <2>2, <2>5, PushToKept DEF Sending
    <3>2. Device(n)' = Device(n) /\ pushFaults' # 0
      BY <1>0, <2>5, <3>1 DEF Device, Throws
    <3> HIDE DEF Device
    <3>3. GoneOf(n)'
      BY <2>1, <2>2, <2>5, <3>1, <3>2 DEF GoneOf
    <3>4. RowsOf(n)'
      BY <2>1, <2>2, <2>3, <2>5, <3>1, <3>2 DEF RowsOf
    <3> QED BY <1>5, <2>1, <2>5, <3>1, <3>2, <3>3, <3>4
  <2> QED BY <1>11, <2>4, <2>5 DEF RecordDelivered
<1>12. ASSUME NEW n \in Notices, Touch(n) PROVE RowsInv'
  <2>1. UNCHANGED <<owner, dead, buzzed, unheard, sends>> /\ push[n].pc = "touch"
    BY <1>12 DEF Touch
  <2>2. GoneOf(n) /\ RowsOf(n) /\ push[n].pc \in Sending
    BY <2>1 DEF RowsInv, Sending
  <2>3. Device(n) \in push[n].subs /\ Device(n) \in Endpoints
    BY <1>0, <2>2, DeviceIsLeft
  <2>4. CASE Onward(n) /\ UNCHANGED pushFaults
    <3>1. push'[n].pc \in {"over", "send"} /\ push'[n].subs = push[n].subs \ {Device(n)} /\ \A u \in Notices \ {n} : push'[u] = push[u]
      BY <1>0, <2>2, <2>4, OnwardKept
    <3> HIDE DEF Device
    <3>2. GoneOf(n)'
      BY <2>1, <2>2, <2>4, <3>1 DEF GoneOf
    <3>3. RowsOf(n)'
      <4>1. \A e \in Endpoints : <<n, e, "delivered">> \in sends' => <<n, e>> \in buzzed' /\ <<n, e>> \notin unheard'
        BY <2>1, <2>2, <2>3, <2>4, <3>1 DEF RowsOf
      <4>2. push'[n].pc = "record" => <<n, Device(n)'>> \in buzzed' /\ Device(n)' \in Allowed
        BY <2>1, <2>2, <2>3, <2>4, <3>1 DEF RowsOf
      <4>3. \A e \in Endpoints : <<n, e>> \in buzzed' =>
          /\ push'[n].pc \notin {"none", "throttle"}
          /\ e \in push'[n].subs => e = Device(n)' /\ push'[n].pc \in {"record", "touch", "failed"}
        BY <2>1, <2>2, <2>3, <2>4, <3>1 DEF RowsOf
      <4>4. \A e \in Endpoints : <<n, e, "failed">> \in sends' =>
          push'[n].pc \notin {"none", "throttle"} /\ e \notin push'[n].subs
        BY <2>1, <2>2, <2>3, <2>4, <3>1 DEF RowsOf
      <4>6. \A e \in Endpoints : <<n, e>> \in unheard' =>
          /\ <<n, e>> \in buzzed' /\ (e \in push'[n].subs => push'[n].pc = "failed")
          /\ pushFaults' = 0 => <<n, e, "failed">> \in sends' \/ (push'[n].pc = "failed" /\ Device(n)' = e)
        BY <2>1, <2>2, <2>3, <2>4, <3>1 DEF RowsOf
      <4>5. ASSUME pushFaults' = 0, NEW e \in Endpoints, <<n, e>> \in buzzed', <<n, e>> \notin unheard'
            PROVE  /\ <<n, e, "delivered">> \in sends' \/ (push'[n].pc = "record" /\ Device(n)' = e)
                   /\ <<n, e, "failed">> \notin sends'
                   /\ e \in push'[n].subs => push'[n].pc \in {"record", "touch"}
        <5>1. <<n, e>> \in buzzed /\ <<n, e>> \notin unheard /\ pushFaults = 0
          BY <2>1, <2>4, <4>5
        <5>2. <<n, e, "delivered">> \in sends /\ <<n, e, "failed">> \notin sends /\ (e \in push[n].subs => e = Device(n))
          BY <2>1, <2>2, <5>1 DEF RowsOf
        <5>3. sends' = sends
          BY <2>1
        <5>4. e \notin push'[n].subs
          BY <3>1, <5>2
        <5> QED BY <5>2, <5>3, <5>4
      <4> QED BY <4>1, <4>2, <4>3, <4>4, <4>5, <4>6 DEF RowsOf
    <3> QED BY <1>5, <2>1, <2>4, <3>1, <3>2, <3>3
  <2>5. CASE Throws /\ PushTo(n, "failed")
    <3>1. push'[n].pc = "failed" /\ push'[n].subs = push[n].subs /\ \A u \in Notices \ {n} : push'[u] = push[u]
      BY <1>0, <2>2, <2>5, PushToKept DEF Sending
    <3>2. Device(n)' = Device(n) /\ pushFaults' # 0
      BY <1>0, <2>5, <3>1 DEF Device, Throws
    <3> HIDE DEF Device
    <3>3. GoneOf(n)'
      BY <2>1, <2>2, <2>5, <3>1, <3>2 DEF GoneOf
    <3>4. RowsOf(n)'
      BY <2>1, <2>2, <2>3, <2>5, <3>1, <3>2 DEF RowsOf
    <3> QED BY <1>5, <2>1, <2>5, <3>1, <3>2, <3>3, <3>4
  <2> QED BY <1>12, <2>4, <2>5 DEF Touch
<1>13. ASSUME NEW n \in Notices, Forget(n) PROVE RowsInv'
  <2>1. UNCHANGED <<dead, buzzed, unheard, sends>> /\ push[n].pc = "forget"
    BY <1>13 DEF Forget
  <2>2. GoneOf(n) /\ RowsOf(n) /\ push[n].pc \in Sending
    BY <2>1 DEF RowsInv, Sending
  <2>3. Device(n) \in push[n].subs /\ Device(n) \in Endpoints /\ Device(n) \in dead
    BY <1>0, <2>1, <2>2, DeviceIsLeft DEF GoneOf
  <2>4. CASE owner' = [owner EXCEPT ![Device(n)] = Nobody] /\ PushTo(n, "gone") /\ UNCHANGED pushFaults
    <3>1. push'[n].pc = "gone" /\ push'[n].subs = push[n].subs /\ \A u \in Notices \ {n} : push'[u] = push[u]
      BY <1>0, <2>2, <2>4, PushToKept DEF Sending
    <3>2. \A u \in Notices : Device(u)' = Device(u)
      BY <3>1 DEF Device
    <3>2a. \A u \in Notices : push[u].pc = "gone" => Device(u) \in Endpoints
      BY <1>0, DeviceIsLeft DEF Sending
    <3> HIDE DEF Device
    <3>3. owner'[Device(n)] = Nobody /\ \A e \in Endpoints : owner[e] = Nobody => owner'[e] = Nobody
      BY <2>3, <2>4 DEF PushTyped, PushTypeOK
    <3>4. ASSUME NEW u \in Notices PROVE GoneOf(u)' /\ RowsOf(u)'
      <4>1. GoneOf(u) /\ RowsOf(u)
        BY DEF RowsInv
      <4>2. push'[u].subs = push[u].subs /\ (u # n => push'[u] = push[u])
        BY <3>1
      <4>3. GoneOf(u)'
        BY <2>1, <2>2, <2>3, <2>4, <3>1, <3>2, <3>2a, <3>3, <4>1, <4>2 DEF GoneOf
      <4>4. RowsOf(u)'
        BY <2>1, <2>2, <2>3, <2>4, <3>1, <3>2, <4>1, <4>2 DEF RowsOf
      <4> QED BY <4>3, <4>4
    <3> QED BY <3>4 DEF RowsInv
  <2>5. CASE Throws /\ PushOver(n) /\ UNCHANGED owner
    <3>1. push'[n].pc = "over" /\ push'[n].subs = {} /\ \A u \in Notices \ {n} : push'[u] = push[u]
      BY <1>0, <2>5, PushOverKept
    <3>2. pushFaults' # 0
      BY <1>0, <2>5 DEF Throws
    <3>3. GoneOf(n)'
      BY <2>1, <2>2, <2>5, <3>1 DEF GoneOf
    <3>4. RowsOf(n)'
      BY <2>1, <2>2, <2>5, <3>1, <3>2 DEF RowsOf
    <3> QED BY <1>5, <2>1, <2>5, <3>1, <3>2, <3>3, <3>4
  <2> QED BY <1>13, <2>4, <2>5 DEF Forget
<1>14. ASSUME NEW n \in Notices, RecordFailed(n) PROVE RowsInv'
  <2>1. UNCHANGED <<owner, dead, buzzed, unheard>> /\ push[n].pc \in {"failed", "gone"}
    BY <1>14 DEF RecordFailed
  <2>2. GoneOf(n) /\ RowsOf(n) /\ push[n].pc \in Sending
    BY <2>1 DEF RowsInv, Sending
  <2>3. Device(n) \in push[n].subs /\ Device(n) \in Endpoints
    BY <1>0, <2>2, DeviceIsLeft
  <2>4. CASE sends' = sends \cup {<<n, Device(n), push[n].pc>>} /\ Onward(n) /\ UNCHANGED pushFaults
    <3>1. push'[n].pc \in {"over", "send"} /\ push'[n].subs = push[n].subs \ {Device(n)} /\ \A u \in Notices \ {n} : push'[u] = push[u]
      BY <1>0, <2>2, <2>4, OnwardKept
    <3> HIDE DEF Device
    <3>2. \A e \in Endpoints, o \in Outcomes : <<n, e, o>> \in sends' => <<n, e, o>> \in sends \/ (e = Device(n) /\ o = push[n].pc)
      BY <2>4
    <3>3. \A e \in Endpoints, o \in Outcomes : <<n, e, o>> \in sends => <<n, e, o>> \in sends'
      BY <2>4
    <3>4. "gone" \in Outcomes /\ "failed" \in Outcomes /\ "delivered" \in Outcomes
      BY DEF Outcomes
    <3>5. GoneOf(n)'
      BY <2>1, <2>2, <3>1, <3>2, <3>4 DEF GoneOf
    <3>6. RowsOf(n)'
      BY <2>1, <2>2, <2>3, <2>4, <3>1, <3>2, <3>3, <3>4 DEF RowsOf
    <3> QED BY <1>5, <2>1, <2>4, <3>1, <3>5, <3>6
  <2>5. CASE Throws /\ PushOver(n) /\ UNCHANGED sends
    <3>1. push'[n].pc = "over" /\ push'[n].subs = {} /\ \A u \in Notices \ {n} : push'[u] = push[u]
      BY <1>0, <2>5, PushOverKept
    <3>2. pushFaults' # 0
      BY <1>0, <2>5 DEF Throws
    <3>3. GoneOf(n)'
      BY <2>1, <2>2, <2>5, <3>1 DEF GoneOf
    <3>4. RowsOf(n)'
      BY <2>1, <2>2, <2>5, <3>1, <3>2 DEF RowsOf
    <3> QED BY <1>5, <2>1, <2>5, <3>1, <3>2, <3>3, <3>4
  <2> QED BY <1>14, <2>4, <2>5 DEF RecordFailed
<1> QED BY <1>1, <1>2, <1>3, <1>4, <1>6, <1>7, <1>9, <1>10, <1>11, <1>12, <1>13, <1>14 DEF PushNext

\* They are true to what was sent, always.
LEMMA RowsHold == PushSpec => []RowsInv
<1>1. PushInit => RowsInv
  BY DEF PushInit, RowsInv, GoneOf, RowsOf
<1> QED BY <1>1, PushTypes, RowsGoOn, PTL DEF PushSpec

\* The deliveries that may still be recorded for a principal.
ToDeliver(p) == {d \in Notices \X Allowed :
    /\ d[1] \in SendingTo(p) /\ d[2] \in push[d[1]].subs
    /\ d[2] = Device(d[1]) => push[d[1]].pc \in {"send", "record"}}

\* The deliveries of the hour, with those to come, are within what the crowd was let through for.
WithinHour(p) == hour[p] > 0 \/ SendingTo(p) # {} =>
    hour[p] + Cardinality(ToDeliver(p)) <= Throttle - 1 + crowd[p] * Cardinality(Allowed)

\* What is to be delivered is finite, and no more than every device of every notice that is sending.
LEMMA ToDeliverIsBounded ==
    ASSUME NEW p
    PROVE  /\ IsFiniteSet(ToDeliver(p)) /\ Cardinality(ToDeliver(p)) \in Nat
           /\ Cardinality(Allowed) \in Nat
           /\ Cardinality(ToDeliver(p)) <= Cardinality(SendingTo(p)) * Cardinality(Allowed)
<1>1. ToDeliver(p) \in SUBSET (SendingTo(p) \X Allowed)
  BY DEF ToDeliver
<1>2. IsFiniteSet(Allowed)
  BY PushAssumption, FS_Subset
<1>3. IsFiniteSet(SendingTo(p))
  BY SendingIsSome
<1>4. IsFiniteSet(SendingTo(p) \X Allowed) /\ Cardinality(SendingTo(p) \X Allowed) = Cardinality(SendingTo(p)) * Cardinality(Allowed)
  BY <1>2, <1>3, FS_Product
<1> QED BY <1>1, <1>2, <1>4, FS_Subset, FS_CardinalityType

DeliverBound(p) == /\ Cardinality(ToDeliver(p)) <= Cardinality(SendingTo(p)) * Cardinality(Allowed)
                   /\ Cardinality(ToDeliver(p)) \in Nat /\ Cardinality(Allowed) \in Nat
AllBounded == \A p \in Principals : DeliverBound(p)

\* So it is of every principal,
LEMMA NowIsBounded == AllBounded
BY ToDeliverIsBounded DEF AllBounded, DeliverBound

\* in the next state too.
LEMMA NextIsBounded == \A p \in Principals : DeliverBound(p)'
<1>1. AllBounded'
  BY NowIsBounded, PTL
<1> QED BY <1>1 DEF AllBounded

\* More of the same factor is more.
LEMMA TimesGrows == ASSUME NEW a \in Nat, NEW b \in Nat, NEW k \in Nat, a <= b PROVE a * k <= b * k
<1>1. PICK d \in Nat : b = a + d
  <2>1. b - a \in Nat /\ b = a + (b - a)
    OBVIOUS
  <2> QED BY <2>1
<1>2. b * k = a * k + d * k
  BY <1>1
<1>3. d * k \in Nat /\ a * k \in Nat
  OBVIOUS
<1> QED BY <1>2, <1>3

\* A step that delivers nothing and gives nobody more to deliver keeps within the hour.
LEMMA NoMoreKept ==
    ASSUME PushTyped, NEW p \in Principals, WithinHour(p), ToDeliver(p)' \subseteq ToDeliver(p),
           hour'[p] = hour[p], crowd'[p] = crowd[p], SendingTo(p)' \subseteq SendingTo(p)
    PROVE  WithinHour(p)'
<1>1. hour[p] \in Nat /\ crowd[p] \in Nat /\ Throttle \in Nat
  BY PushAssumption DEF PushTyped, PushTypeOK
<1>2. IsFiniteSet(ToDeliver(p)) /\ Cardinality(ToDeliver(p)) \in Nat /\ Cardinality(Allowed) \in Nat
  BY ToDeliverIsBounded
<1>3. Cardinality(ToDeliver(p)') <= Cardinality(ToDeliver(p)) /\ Cardinality(ToDeliver(p)') \in Nat
  BY <1>2, FS_Subset, FS_CardinalityType
<1> DEFINE most == crowd[p] * Cardinality(Allowed)
<1>4. most \in Nat
  BY <1>1, <1>2
<1>5. crowd'[p] * Cardinality(Allowed) = most
  OBVIOUS
<1> HIDE DEF most
<1>6. CASE hour'[p] > 0 \/ SendingTo(p)' # {}
  <2>1. hour[p] + Cardinality(ToDeliver(p)) <= Throttle - 1 + most
    BY <1>6 DEF WithinHour, most
  <2>2. hour'[p] + Cardinality(ToDeliver(p)') <= Throttle - 1 + most
    BY <1>1, <1>2, <1>3, <1>4, <2>1
  <2> QED BY <1>5, <2>2 DEF WithinHour
<1>7. CASE ~(hour'[p] > 0 \/ SendingTo(p)' # {})
  BY <1>7 DEF WithinHour
<1> QED BY <1>6, <1>7

\* A notice that moves without a new device to send to leaves no more to deliver.
LEMMA MovesOn ==
    ASSUME PushTyped, NEW n \in Notices, NEW p,
           \A u \in Notices \ {n} : push'[u] = push[u],
           push'[n].pc \in Sending => push[n].pc \in Sending,
           push'[n].pc \in Sending => \A e \in Allowed :
               e \in push'[n].subs /\ (e = Device(n)' => push'[n].pc \in {"send", "record"})
               => e \in push[n].subs /\ (e = Device(n) => push[n].pc \in {"send", "record"})
    PROVE  ToDeliver(p)' \subseteq ToDeliver(p) /\ SendingTo(p)' \subseteq SendingTo(p)
<1>1. SendingTo(p)' \subseteq SendingTo(p)
  BY DEF SendingTo
<1>2. \A u \in Notices \ {n} : Device(u)' = Device(u)
  BY DEF Device
<1> HIDE DEF Device
<1>3. ASSUME NEW d \in ToDeliver(p)' PROVE d \in ToDeliver(p)
  <2>1. /\ d \in Notices \X Allowed /\ d[1] \in Notices /\ d[2] \in Allowed
        /\ d[1] \in SendingTo(p)' /\ d[2] \in push'[d[1]].subs
        /\ d[2] = Device(d[1])' => push'[d[1]].pc \in {"send", "record"}
    BY <1>3 DEF ToDeliver
  <2>2. d[1] \in SendingTo(p)
    BY <1>1, <2>1
  <2>3. CASE d[1] = n
    <3>1. push'[n].pc \in Sending
      BY <2>1, <2>3 DEF SendingTo
    <3> QED BY <2>1, <2>2, <2>3, <3>1 DEF ToDeliver
  <2>4. CASE d[1] # n
    BY <1>2, <2>1, <2>2, <2>4 DEF ToDeliver
  <2> QED BY <2>3, <2>4
<1> QED BY <1>1, <1>3

ThrottleInv == \A p \in Principals : WithinHour(p)

\* The hour's deliveries stay within what the throttle let through.
LEMMA ThrottleGoesOn == PushTyped /\ RowsInv /\ ThrottleInv /\ [PushNext]_pushVars => ThrottleInv'
<1> SUFFICES ASSUME PushTyped, RowsInv, ThrottleInv, [PushNext]_pushVars, NEW p \in Principals PROVE WithinHour(p)'
  BY DEF ThrottleInv
<1>0. PushRows /\ WorkLeft /\ WithinHour(p) /\ hour \in [Principals -> Nat] /\ crowd \in [Principals -> 0..Cardinality(Notices)]
      /\ hour[p] \in Nat /\ crowd[p] \in Nat /\ Throttle \in Nat
  BY PushAssumption DEF PushTyped, PushTypeOK, ThrottleInv
<1>1. ASSUME UNCHANGED <<push, hour, crowd>> PROVE WithinHour(p)'
  <2>1. ToDeliver(p)' = ToDeliver(p) /\ SendingTo(p)' = SendingTo(p)
    BY <1>1 DEF ToDeliver, SendingTo, Device
  <2> QED BY <1>0, <1>1, <2>1, NoMoreKept
<1>2. ASSUME NEW n \in Notices, push[n].pc \in Sending, \E pc \in {"record", "touch", "forget", "failed", "gone"} :
                 PushTo(n, pc) /\ (pc = "record" => push[n].pc = "send"), hour' = hour, crowd' = crowd
      PROVE  WithinHour(p)'
  <2>1. PICK pc \in {"record", "touch", "forget", "failed", "gone"} : PushTo(n, pc) /\ (pc = "record" => push[n].pc = "send")
    BY <1>2
  <2>2. push'[n].pc = pc /\ push'[n].subs = push[n].subs /\ \A u \in Notices \ {n} : push'[u] = push[u]
    BY <1>0, <1>2, <2>1, PushToKept DEF Sending
  <2>3. Device(n)' = Device(n)
    BY <2>2 DEF Device
  <2> HIDE DEF Device
  <2>4. ToDeliver(p)' \subseteq ToDeliver(p) /\ SendingTo(p)' \subseteq SendingTo(p)
    BY <1>2, <2>1, <2>2, <2>3, MovesOn
  <2> QED BY <1>0, <1>2, <2>4, NoMoreKept
<1>3. ASSUME NEW n \in Notices, push[n].pc \in Sending, push[n].pc = "send" => Device(n) \notin Allowed, push[n].pc # "record",
             Onward(n), hour' = hour, crowd' = crowd
      PROVE  WithinHour(p)'
  <2>1. push'[n].pc \in {"over", "send"} /\ push'[n].subs = push[n].subs \ {Device(n)} /\ \A u \in Notices \ {n} : push'[u] = push[u]
    BY <1>0, <1>3, OnwardKept
  <2> HIDE DEF Device
  <2>4. ToDeliver(p)' \subseteq ToDeliver(p) /\ SendingTo(p)' \subseteq SendingTo(p)
    BY <1>3, <2>1, MovesOn
  <2> QED BY <1>0, <1>3, <2>4, NoMoreKept
<1>4. ASSUME NEW n \in Notices, PushOver(n), hour' = hour, crowd' = crowd PROVE WithinHour(p)'
  <2>1. push'[n].pc = "over" /\ push'[n].subs = {} /\ \A u \in Notices \ {n} : push'[u] = push[u]
    BY <1>0, <1>4, PushOverKept
  <2>4. ToDeliver(p)' \subseteq ToDeliver(p) /\ SendingTo(p)' \subseteq SendingTo(p)
    BY <2>1, MovesOn DEF Sending
  <2> QED BY <1>0, <1>4, <2>4, NoMoreKept
<1>5. ASSUME NEW e \in Endpoints, (\E q \in Principals : Subscribe(e, q)) \/ Unsubscribe(e) \/ DropAddress(e) PROVE WithinHour(p)'
  BY <1>1, <1>5 DEF Subscribe, Unsubscribe, DropAddress
<1>6. ASSUME NEW n \in Notices, ReadDevices(n) PROVE WithinHour(p)'
  <2>1. push[n].pc = "none" /\ push'[n].pc \in {"over", "throttle"} /\ \A u \in Notices \ {n} : push'[u] = push[u]
    BY <1>0, <1>6, ReadDevicesKept
  <2>2. ToDeliver(p)' \subseteq ToDeliver(p) /\ SendingTo(p)' \subseteq SendingTo(p)
    BY <2>1, MovesOn DEF Sending
  <2>3. UNCHANGED <<hour, crowd>>
    BY <1>6 DEF ReadDevices
  <2> QED BY <1>0, <2>2, <2>3, NoMoreKept
<1>7. ASSUME NEW n \in Notices, ReadHour(n) PROVE WithinHour(p)'
  <2>1. hour' = hour /\ push[n].pc = "throttle"
    BY <1>7 DEF ReadHour
  <2>2. CASE PushOver(n) /\ UNCHANGED crowd
    BY <1>4, <2>1, <2>2
  <2>3. CASE PushTo(n, "send") /\ hour[PrincipalOf[n]] < Throttle
             /\ crowd' \in [Principals -> 0..Cardinality(Notices)]
             /\ (\A q \in Principals \ {PrincipalOf[n]} : crowd'[q] = crowd[q])
             /\ crowd'[PrincipalOf[n]] >= Cardinality(SendingTo(PrincipalOf[n])')
    <3>1. push'[n].pc = "send" /\ push'[n].subs = push[n].subs /\ \A u \in Notices \ {n} : push'[u] = push[u]
      BY <1>0, <2>1, <2>3, PushToKept DEF Sending
    <3>2. CASE PrincipalOf[n] = p
      <4>1. hour[p] < Throttle /\ crowd'[p] \in Nat /\ crowd'[p] >= Cardinality(SendingTo(p)')
        BY <1>0, <2>3, <3>2
      <4>2. Cardinality(ToDeliver(p)') <= Cardinality(SendingTo(p)') * Cardinality(Allowed) /\ Cardinality(ToDeliver(p)') \in Nat
            /\ Cardinality(Allowed) \in Nat
        BY NextIsBounded DEF DeliverBound
      <4>3. Cardinality(SendingTo(p)') \in Nat
        <5>1. SendingTo(p)' \in SUBSET Notices /\ IsFiniteSet(Notices)
          BY PushAssumption DEF SendingTo
        <5> QED BY <5>1, FS_Subset, FS_CardinalityType
      <4>4. Cardinality(SendingTo(p)') * Cardinality(Allowed) <= crowd'[p] * Cardinality(Allowed)
        BY <4>1, <4>2, <4>3, TimesGrows
      <4> DEFINE most == crowd'[p] * Cardinality(Allowed)
                 some == Cardinality(SendingTo(p)') * Cardinality(Allowed)
      <4>5. most \in Nat /\ some \in Nat /\ some <= most /\ Cardinality(ToDeliver(p)') <= some
        BY <4>1, <4>2, <4>3, <4>4
      <4> HIDE DEF most, some
      <4>6. hour'[p] + Cardinality(ToDeliver(p)') <= Throttle - 1 + most
        BY <1>0, <2>1, <4>1, <4>2, <4>5
      <4> QED BY <4>6 DEF WithinHour, most
    <3>3. CASE PrincipalOf[n] # p
      <4>1. SendingTo(p)' = SendingTo(p)
        BY <3>1, <3>3 DEF SendingTo
      <4>2. \A u \in Notices : push'[u].subs = push[u].subs /\ Device(u)' = Device(u)
        BY <3>1 DEF Device
      <4> HIDE DEF Device
      <4>3. ToDeliver(p)' \subseteq ToDeliver(p)
        BY <3>1, <3>3, <4>1, <4>2 DEF ToDeliver, SendingTo
      <4>4. crowd'[p] = crowd[p]
        BY <2>3, <3>3
      <4> QED BY <1>0, <2>1, <4>1, <4>3, <4>4, NoMoreKept
    <3> QED BY <3>2, <3>3
  <2> QED BY <1>7, <2>2, <2>3, ReadHourKept
<1>8. ASSUME NEW n \in Notices, RefuseEndpoint(n) PROVE WithinHour(p)'
  BY <1>3, <1>8 DEF RefuseEndpoint, Sending
<1>9. ASSUME NEW n \in Notices, SendPush(n) PROVE WithinHour(p)'
  BY <1>2, <1>9 DEF SendPush, Refusal, Sending
<1>10. ASSUME NEW n \in Notices, RecordDelivered(n) PROVE WithinHour(p)'
  <2>1. push[n].pc = "record" /\ crowd' = crowd
    BY <1>10 DEF RecordDelivered
  <2>2. RowsOf(n) /\ push[n].pc \in Sending
    BY <2>1 DEF RowsInv, Sending
  <2>3. Device(n) \in push[n].subs /\ Device(n) \in Allowed
    BY <1>0, <2>1, <2>2, DeviceIsLeft DEF RowsOf
  <2>4. CASE PushTo(n, "touch") /\ hour' = [hour EXCEPT ![PrincipalOf[n]] = @ + 1]
    <3>1. push'[n].pc = "touch" /\ push'[n].subs = push[n].subs /\ \A u \in Notices \ {n} : push'[u] = push[u]
      BY <1>0, <2>2, <2>4, PushToKept DEF Sending
    <3>2. Device(n)' = Device(n)
      BY <3>1 DEF Device
    <3> DEFINE one == <<n, Device(n)>>
    <3> HIDE DEF Device
    <3>3. ToDeliver(p)' \subseteq ToDeliver(p) /\ SendingTo(p)' \subseteq SendingTo(p)
      BY <2>2, <3>1, <3>2, MovesOn
    <3>4. CASE PrincipalOf[n] # p
      <4>1. hour'[p] = hour[p]
        BY <1>0, <2>4, <3>4
      <4> QED BY <1>0, <2>1, <3>3, <4>1, NoMoreKept
    <3>5. CASE PrincipalOf[n] = p
      <4>1. hour'[p] = hour[p] + 1
        BY <1>0, <2>4, <3>5
      <4>2. n \in SendingTo(p)
        BY <2>2, <3>5 DEF SendingTo
      <4>3. one \in ToDeliver(p)
        BY <2>1, <2>3, <4>2 DEF ToDeliver
      <4>4. one \notin ToDeliver(p)'
        BY <3>1, <3>2 DEF ToDeliver
      <4> HIDE DEF one
      <4>5. ToDeliver(p)' \in SUBSET (ToDeliver(p) \ {one})
        BY <3>3, <4>4
      <4>6. IsFiniteSet(ToDeliver(p)) /\ Cardinality(ToDeliver(p)) \in Nat /\ Cardinality(Allowed) \in Nat
        BY ToDeliverIsBounded
      <4>7. IsFiniteSet(ToDeliver(p) \ {one}) /\ Cardinality(ToDeliver(p) \ {one}) = Cardinality(ToDeliver(p)) - 1
        BY <4>3, <4>6, FS_RemoveElement
      <4>8. Cardinality(ToDeliver(p)') \in Nat /\ Cardinality(ToDeliver(p)') <= Cardinality(ToDeliver(p)) - 1
        BY <4>5, <4>7, FS_Subset, FS_CardinalityType
      <4> DEFINE most == crowd[p] * Cardinality(Allowed)
      <4>9. most \in Nat
        BY <1>0, <4>6
      <4>10. hour[p] + Cardinality(ToDeliver(p)) <= Throttle - 1 + most
        BY <1>0, <4>2 DEF WithinHour
      <4>11. crowd'[p] * Cardinality(Allowed) = most
        BY <2>1
      <4> HIDE DEF most
      <4>12. hour'[p] + Cardinality(ToDeliver(p)') <= Throttle - 1 + most
        BY <1>0, <4>1, <4>6, <4>8, <4>9, <4>10
      <4> QED BY <4>11, <4>12 DEF WithinHour
    <3> QED BY <3>4, <3>5
  <2>5. CASE PushTo(n, "failed") /\ UNCHANGED hour
    BY <1>2, <2>1, <2>2, <2>5
  <2> QED BY <1>10, <2>4, <2>5 DEF RecordDelivered
<1>11. ASSUME NEW n \in Notices, Touch(n) PROVE WithinHour(p)'
  <2>1. push[n].pc = "touch" /\ push[n].pc \in Sending /\ hour' = hour /\ crowd' = crowd
    BY <1>11 DEF Touch, Sending
  <2> QED BY <1>2, <1>3, <1>11, <2>1 DEF Touch
<1>12. ASSUME NEW n \in Notices, Forget(n) PROVE WithinHour(p)'
  <2>1. push[n].pc = "forget" /\ push[n].pc \in Sending /\ hour' = hour /\ crowd' = crowd
    BY <1>12 DEF Forget, Sending
  <2> QED BY <1>2, <1>4, <1>12, <2>1 DEF Forget
<1>13. ASSUME NEW n \in Notices, RecordFailed(n) PROVE WithinHour(p)'
  <2>1. push[n].pc \in {"failed", "gone"} /\ push[n].pc \in Sending /\ hour' = hour /\ crowd' = crowd
    BY <1>13 DEF RecordFailed, Sending
  <2> QED BY <1>3, <1>4, <1>13, <2>1 DEF RecordFailed
<1>14. ASSUME HourPasses PROVE WithinHour(p)'
  <2>1. hour' = [q \in Principals |-> 0] /\ push' = push /\ crowd' = crowd
    BY <1>14 DEF HourPasses
  <2>2. hour'[p] = 0 /\ ToDeliver(p)' = ToDeliver(p) /\ SendingTo(p)' = SendingTo(p)
    BY <2>1 DEF ToDeliver, SendingTo, Device
  <2>3. Cardinality(ToDeliver(p)) \in Nat /\ Cardinality(Allowed) \in Nat
    BY ToDeliverIsBounded
  <2> DEFINE most == crowd[p] * Cardinality(Allowed)
  <2>4. most \in Nat /\ crowd'[p] * Cardinality(Allowed) = most
    BY <1>0, <2>1, <2>3
  <2>5. SendingTo(p) # {} => hour[p] + Cardinality(ToDeliver(p)) <= Throttle - 1 + most
    BY <1>0 DEF WithinHour
  <2> HIDE DEF most
  <2>6. SendingTo(p) # {} => hour'[p] + Cardinality(ToDeliver(p)') <= Throttle - 1 + most
    BY <1>0, <2>2, <2>3, <2>4, <2>5
  <2> QED BY <2>2, <2>4, <2>6 DEF WithinHour
<1>15. ASSUME PushCrash PROVE WithinHour(p)'
  <2>1. UNCHANGED <<hour, crowd>>
    BY <1>15 DEF PushCrash
  <2>2. SendingTo(p)' = {} /\ ToDeliver(p)' = {}
    <3>1. \A n \in Notices : push'[n].pc \notin Sending
      BY <1>15 DEF PushCrash, Sending, PushTyped, PushRows
    <3> QED BY <3>1 DEF SendingTo, ToDeliver
  <2> QED BY <1>0, <2>1, <2>2, NoMoreKept
<1>16. ASSUME UNCHANGED pushVars PROVE WithinHour(p)'
  BY <1>1, <1>16 DEF pushVars
<1> QED BY <1>5, <1>6, <1>7, <1>8, <1>9, <1>10, <1>11, <1>12, <1>13, <1>14, <1>15, <1>16 DEF PushNext

\* What push_sends says was done to a person's phones was done: a delivery row has a send the vendor answered for,
\* a send has its row, which says failed of one whose answer was lost, a "gone" row is of an address the vendor dropped and nobody has, and an hour delivers beyond the throttle
\* only what the notifications under way together had left.
THEOREM SendsAreTrueHolds == PushSpec => []SendsAreTrue
<1>1. PushInit => ThrottleInv
  BY DEF PushInit, ThrottleInv, WithinHour, SendingTo, Sending
<1>2. PushSpec => []ThrottleInv
  BY <1>1, PushTypes, RowsHold, ThrottleGoesOn, PTL DEF PushSpec
<1>3. ASSUME PushTyped, RowsInv, ThrottleInv PROVE SendsAreTrue
  <2>1. GoneIsDeleted
    BY <1>3 DEF GoneIsDeleted, RowsInv, GoneOf
  <2>2. RecordsAreSends
    <3>1. \A n \in Notices, e \in Endpoints :
             <<n, e, "delivered">> \in sends => <<n, e>> \in buzzed /\ <<n, e>> \notin unheard
      BY <1>3 DEF RowsInv, RowsOf
    <3>2. ASSUME pushFaults = 0, NEW b \in buzzed
          PROVE  IF b \in unheard
                 THEN <<b[1], b[2], "failed">> \in sends \/ (push[b[1]].pc = "failed" /\ Device(b[1]) = b[2])
                 ELSE /\ <<b[1], b[2], "delivered">> \in sends \/ (push[b[1]].pc = "record" /\ Device(b[1]) = b[2])
                      /\ <<b[1], b[2], "failed">> \notin sends
      <4>1. b[1] \in Notices /\ b[2] \in Endpoints /\ b = <<b[1], b[2]>>
        BY <1>3 DEF PushTyped, PushTypeOK
      <4>2. PICK n \in Notices, e \in Endpoints : n = b[1] /\ e = b[2] /\ b = <<n, e>>
        BY <4>1
      <4>3. RowsOf(n)
        BY <1>3 DEF RowsInv
      <4>4. <<n, e>> \in buzzed /\ b[1] = n /\ b[2] = e
        BY <3>2, <4>2
      <4>5. CASE b \in unheard
        BY <3>2, <4>2, <4>3, <4>4, <4>5 DEF RowsOf
      <4>6. CASE b \notin unheard
        BY <3>2, <4>2, <4>3, <4>4, <4>6 DEF RowsOf
      <4> QED BY <4>5, <4>6
    <3> QED BY <3>1, <3>2 DEF RecordsAreSends
  <2>3. ThrottleHolds
    <3> SUFFICES ASSUME NEW p \in Principals, hour[p] > 0
                 PROVE  hour[p] <= Throttle - 1 + crowd[p] * Cardinality(Allowed)
      BY DEF ThrottleHolds
    <3> DEFINE most == crowd[p] * Cardinality(Allowed)
    <3>1. hour[p] + Cardinality(ToDeliver(p)) <= Throttle - 1 + most
      BY <1>3 DEF ThrottleInv, WithinHour
    <3>2. Cardinality(ToDeliver(p)) \in Nat /\ Cardinality(Allowed) \in Nat /\ hour[p] \in Nat /\ crowd[p] \in Nat /\ Throttle \in Nat
      BY <1>3, ToDeliverIsBounded, PushAssumption DEF PushTyped, PushTypeOK
    <3>3. most \in Nat
      BY <3>2
    <3> HIDE DEF most
    <3>4. hour[p] <= Throttle - 1 + most
      BY <3>1, <3>2, <3>3
    <3> QED BY <3>4 DEF most
  <2> QED BY <2>1, <2>2, <2>3 DEF SendsAreTrue
<1> QED BY <1>2, <1>3, PushTypes, RowsHold, PTL

-----------------------------------------------------------------------------
(* The browser and its switch. *)

TabRecords == [at : {"closed", "start", "join", "joining", "redeemed", "failed", "page", "room"},
               code : Sessions \cup {NoToken}, as : Anyone]
SwitchRecords == [shows : Shown, about : 0..MaxAddresses, removed : BOOLEAN,
                  doing : {"nothing", "state", "key", "ask", "subscribe", "post", "delete", "drop"}]
TabsTyped == tab \in [Tabs -> TabRecords]
SwitchesTyped == switch \in [Tabs -> SwitchRecords]

\* A tab that goes on to another screen.
LEMMA TabAt ==
    ASSUME TabsTyped, NEW t \in Tabs,
           NEW at \in {"closed", "start", "join", "joining", "redeemed", "failed", "page", "room"},
           tab' = [tab EXCEPT ![t].at = at]
    PROVE  /\ TabsTyped' /\ tab'[t].at = at /\ tab'[t].code = tab[t].code
           /\ \A u \in Tabs \ {t} : tab'[u] = tab[u]
BY DEF TabsTyped, TabRecords

\* The screen a room's page is loaded as.
LEMMA ScreenIsOne ==
    /\ Screen \in TabRecords /\ Screen.at \in {"join", "page", "failed"} /\ Screen.code = NoToken
    /\ Screen.at = "page" => Viewer # NoToken
BY DEF Screen, Closed, TabRecords, Anyone, Authenticated

ScreenThen == Screen \in TabRecords /\ Screen.at \in {"join", "page", "failed"} /\ (Screen.at = "page" => Viewer # NoToken)

\* So it is in any state.
LEMMA ScreenIsHere == ScreenThen
BY ScreenIsOne DEF ScreenThen

\* The switch of a tab goes on with what it is doing,
LEMMA GoesKept ==
    ASSUME SwitchesTyped, NEW t \in Tabs,
           NEW doing \in {"nothing", "state", "key", "ask", "subscribe", "post", "delete", "drop"}, Goes(t, doing)
    PROVE  /\ SwitchesTyped' /\ switch'[t].doing = doing /\ switch'[t].shows = switch[t].shows
           /\ switch'[t].about = switch[t].about /\ switch'[t].removed = switch[t].removed
           /\ \A u \in Tabs \ {t} : switch'[u] = switch[u]
BY DEF SwitchesTyped, SwitchRecords, Goes

\* or has done it,
LEMMA ShowsKept ==
    ASSUME SwitchesTyped, NEW t \in Tabs, NEW shows \in Shown, Shows(t, shows)
    PROVE  /\ SwitchesTyped' /\ switch'[t].doing = "nothing" /\ switch'[t].shows = shows
           /\ \A u \in Tabs \ {t} : switch'[u] = switch[u]
<1> DEFINE m == [Mounted EXCEPT !.shows = shows]
<1>1. 0 \in 0..MaxAddresses
  BY BrowserAssumption
<1>2. Mounted \in SwitchRecords /\ Mounted.doing = "nothing"
  BY <1>1 DEF SwitchRecords, Mounted, Shown
<1>3. m \in SwitchRecords /\ m.doing = "nothing" /\ m.shows = shows
  BY <1>2 DEF SwitchRecords
<1>4. switch' = [switch EXCEPT ![t] = m]
  BY DEF Shows
<1> HIDE DEF m
<1> QED BY <1>3, <1>4 DEF SwitchesTyped

\* or is mounted anew.
LEMMA MountKept ==
    ASSUME SwitchesTyped, NEW t \in Tabs, switch' = [switch EXCEPT ![t] = Mounted]
    PROVE  /\ SwitchesTyped' /\ switch'[t] = Mounted /\ Mounted.doing = "nothing" /\ Mounted.shows = "checking"
           /\ \A u \in Tabs \ {t} : switch'[u] = switch[u]
<1>1. 0 \in 0..MaxAddresses
  BY BrowserAssumption
<1>2. Mounted \in SwitchRecords
  BY <1>1 DEF SwitchRecords, Mounted, Shown
<1>3. Mounted.doing = "nothing" /\ Mounted.shows = "checking"
  BY DEF Mounted
<1> QED BY <1>2, <1>3 DEF SwitchesTyped

\* A request about an address.
LEMMA AboutKept ==
    ASSUME SwitchesTyped, NEW t \in Tabs, NEW doing \in {"post", "delete"}, NEW e \in 0..MaxAddresses,
           switch' = [switch EXCEPT ![t].doing = doing, ![t].about = e]
    PROVE  /\ SwitchesTyped' /\ switch'[t].doing = doing /\ switch'[t].shows = switch[t].shows
           /\ switch'[t].about = e
           /\ \A u \in Tabs \ {t} : switch'[u] = switch[u]
BY DEF SwitchesTyped, SwitchRecords

\* The answer to a deletion.
LEMMA RemovedKept ==
    ASSUME SwitchesTyped, NEW t \in Tabs, NEW removed \in BOOLEAN,
           switch' = [switch EXCEPT ![t].doing = "drop", ![t].removed = removed]
    PROVE  /\ SwitchesTyped' /\ switch'[t].doing = "drop" /\ switch'[t].shows = switch[t].shows
           /\ switch'[t].about = switch[t].about /\ switch'[t].removed = removed
           /\ \A u \in Tabs \ {t} : switch'[u] = switch[u]
BY DEF SwitchesTyped, SwitchRecords

\* What holds of the other variables by type.
JarTyped == /\ deployment \in Deployments /\ jar \in Sessions \cup {NoToken} /\ entered \subseteq Sessions /\ over \subseteq Sessions
            /\ invite \in [Sessions -> {"open", "spent"}]
            /\ deed \in [by : Anyone, joined : BOOLEAN, ended : BOOLEAN]
PhoneTyped == /\ permission \in {"default", "granted", "denied"}
              /\ made \in 0..MaxAddresses /\ address \in 0..made /\ phoneRow \in [Address -> Anyone]
              /\ clicked \in BOOLEAN /\ unremoved \subseteq Address /\ crossed \subseteq Address
              /\ browserFaults \in 0..MaxBrowserFaults

BrowserTyped == TabsTyped /\ SwitchesTyped /\ JarTyped /\ PhoneTyped

\* Together they are the module's types.
LEMMA BrowserTyping == BrowserTyped <=> BrowserTypeOK
BY DEF BrowserTyped, BrowserTypeOK, TabsTyped, SwitchesTyped, JarTyped, PhoneTyped, TabRecords, SwitchRecords

\* A form that was sent has a code; who entered is in the jar, or a session has ended; a deed is its doer's;
\* a page is there by a credential.
Coded(t) == tab[t].at \in {"joining", "redeemed"} => tab[t].code \in Sessions
Loaded(t) == tab[t].at \in {"page", "room"} /\ over = {} => Viewer # NoToken
WebInv ==
    /\ \A t \in Tabs : Coded(t) /\ Loaded(t)
    /\ entered # {} /\ jar = NoToken => over # {}
    /\ jar \in Sessions => jar \in entered
    /\ ActsAreTheirs

\* What a switch is doing is done from a page, on what was asked for before it.
PhoneTab(t) ==
    /\ switch[t].doing # "nothing" => tab[t].at \in {"page", "room"}
    /\ switch[t].doing \in {"post", "delete", "drop"} => switch[t].about \in 1..made
    /\ switch[t].doing \in {"key", "ask", "subscribe", "post"} => clicked
    /\ switch[t].doing \in {"subscribe", "post"} => permission = "granted"
    /\ switch[t].doing = "drop" /\ switch[t].removed =>
          phoneRow[switch[t].about] = NoToken \/ switch[t].about \in crossed

\* The switch of the only room mirrors the browser.
Mirror(t) ==
    /\ switch[t].doing \in {"key", "ask", "subscribe", "post"} => switch[t].shows = "off"
    /\ switch[t].doing \in {"nothing", "key", "ask", "subscribe"} /\ switch[t].shows = "off" => address = 0
    /\ switch[t].doing = "post" => switch[t].about = address /\ address # 0
    /\ switch[t].doing \in {"delete", "drop"} => switch[t].shows = "on" /\ switch[t].about = address /\ address # 0
    /\ switch[t].doing = "state" => switch[t].shows = "checking" /\ address # 0
    /\ switch[t].doing = "nothing" /\ switch[t].shows = "on" => address # 0
    /\ browserFaults = 0 /\ over = {} /\ address # 0 /\ switch[t].doing \notin {"post", "drop"} => phoneRow[address] # NoToken
Solo(t) == (\A u \in Tabs \ {t} : tab[u].at = "closed") => Mirror(t)

PhoneInv == AskedFirst /\ OrphansHaveACause /\ \A t \in Tabs : PhoneTab(t) /\ Solo(t)
BrowserInv == BrowserTyped /\ WebInv /\ PhoneInv

\* A fault is counted, within its bound.
LEMMA FaultCounts == ASSUME PhoneTyped, Faulty PROVE browserFaults' \in 0..MaxBrowserFaults /\ browserFaults' # 0
BY BrowserAssumption DEF PhoneTyped, Faulty

\* A request is recorded as its viewer.
LEMMA RecordedIsTyped ==
    ASSUME JarTyped, Recorded PROVE deed' \in [by : Anyone, joined : BOOLEAN, ended : BOOLEAN]
BY DEF JarTyped, Recorded, Viewer, Anyone

\* A deed done by the viewer is theirs.
LEMMA RecordedIsTrue ==
    ASSUME JarTyped, WebInv, Authenticated, Recorded, UNCHANGED entered PROVE ActsAreTheirs'
<1>1. deed'.by = Viewer /\ deed'.joined = (entered # {}) /\ deed'.ended = (over # {}) /\ Viewer # NoToken
  BY DEF Recorded, Authenticated
<1>2. Viewer \in Deployments => jar = NoToken
  <2>1. jar # NoToken => Viewer \in Sessions
    BY DEF JarTyped, Viewer
  <2> QED BY <2>1, BrowserAssumption
<1>3. Viewer \in Sessions => Viewer = jar /\ jar \in Sessions
  BY BrowserAssumption DEF JarTyped, Viewer
<1>4. Viewer \in Deployments => (entered # {} => over # {})
  BY <1>2 DEF WebInv
<1>5. Viewer \in Sessions => Viewer \in entered
  BY <1>3 DEF WebInv
<1> HIDE DEF Viewer
<1>6. deed'.by \in Deployments /\ deed'.joined => deed'.ended
  BY <1>1, <1>4
<1>7. deed'.by \in Sessions => deed'.by \in entered'
  BY <1>1, <1>5
<1> QED BY <1>6, <1>7 DEF ActsAreTheirs

\* A step of the switch, or of a screen, under the same credentials.
LEMMA WebKept ==
    ASSUME WebInv, NEW t \in Tabs, \A u \in Tabs \ {t} : tab'[u] = tab[u], UNCHANGED <<deployment, jar, entered, over>>,
           ActsAreTheirs', Coded(t)', Loaded(t)'
    PROVE  WebInv'
<1>1. Viewer' = Viewer
  BY DEF Viewer
<1>2. \A u \in Tabs \ {t} : Coded(u)' /\ Loaded(u)'
  BY <1>1 DEF WebInv, Coded, Loaded
<1> QED BY <1>2 DEF WebInv

\* A step that leaves the web tier as it is.
LEMMA WebStays ==
    ASSUME WebInv, UNCHANGED webVars
    PROVE  WebInv'
<1>1. Viewer' = Viewer /\ ActsAreTheirs'
  BY DEF Viewer, ActsAreTheirs, WebInv, webVars
<1> QED BY <1>1 DEF WebInv, Coded, Loaded, webVars

\* A step of the screens that leaves the phone as it is, and no switch at work without its page.
LEMMA PhoneKept ==
    ASSUME BrowserTyped, PhoneInv, NEW t \in Tabs, UNCHANGED phoneVars, \A u \in Tabs \ {t} : tab'[u] = tab[u],
           switch[t].doing # "nothing" => tab'[t].at \in {"page", "room"}, tab'[t].at # "closed",
           over' = {} => over = {}, browserFaults' = 0 => browserFaults = 0
    PROVE  PhoneInv'
<1>1. UNCHANGED <<permission, address, made, phoneRow, switch, clicked, unremoved, crossed>>
  BY DEF phoneVars
<1>2. AskedFirst' /\ OrphansHaveACause'
  BY <1>1 DEF PhoneInv, AskedFirst, OrphansHaveACause
<1>3. \A u \in Tabs : PhoneTab(u)'
  BY <1>1 DEF PhoneInv, PhoneTab
<1>4. ASSUME NEW u \in Tabs, \A w \in Tabs \ {u} : tab'[w].at = "closed" PROVE Mirror(u)'
  <2>1. u = t
    BY <1>4
  <2>2. Mirror(u)
    BY <1>4, <2>1 DEF PhoneInv, Solo
  <2> QED BY <1>1, <2>2 DEF Mirror
<1> QED BY <1>2, <1>3, <1>4 DEF PhoneInv, Solo

\* A room that is left, or loaded, begins with a switch that asks nothing.
LEMMA MountedKept ==
    ASSUME BrowserTyped, PhoneInv, NEW t \in Tabs,
           UNCHANGED <<permission, address, made, phoneRow, clicked, unremoved, crossed>>,
           switch[t].doing = "nothing", switch' = [switch EXCEPT ![t] = Mounted],
           \A u \in Tabs \ {t} : tab'[u] = tab[u], tab'[t].at # "closed",
           over' = {} => over = {}, browserFaults' = 0 => browserFaults = 0
    PROVE  PhoneInv'
<1>1. switch'[t].doing = "nothing" /\ switch'[t].shows = "checking" /\ \A u \in Tabs \ {t} : switch'[u] = switch[u]
  BY MountKept DEF BrowserTyped
<1>2. AskedFirst' /\ OrphansHaveACause'
  BY DEF PhoneInv, AskedFirst, OrphansHaveACause
<1>3. \A u \in Tabs : PhoneTab(u)'
  BY <1>1 DEF PhoneInv, PhoneTab
<1>4. ASSUME NEW u \in Tabs, \A w \in Tabs \ {u} : tab'[w].at = "closed" PROVE Mirror(u)'
  <2>1. u = t
    BY <1>4
  <2>2. Mirror(u)
    BY <1>4, <2>1 DEF PhoneInv, Solo
  <2> QED BY <1>1, <2>1, <2>2 DEF Mirror
<1> QED BY <1>2, <1>3, <1>4 DEF PhoneInv, Solo

\* A tab's page is loaded, or a form opened.
LEMMA OpenPageSteps ==
    ASSUME BrowserInv, NEW t \in Tabs, OpenRoomPage(t) \/ \E at \in {"start", "join"} : OpenForm(t, at)
    PROVE  BrowserInv'
<1>0. TabsTyped /\ SwitchesTyped /\ JarTyped /\ PhoneTyped /\ WebInv /\ PhoneInv
  BY DEF BrowserTyped, BrowserInv
<1>1. /\ switch[t].doing = "nothing" /\ switch' = [switch EXCEPT ![t] = Mounted]
      /\ UNCHANGED <<deployment, jar, invite, entered, over, deed, permission, address, made, phoneRow,
                     clicked, unremoved, crossed, browserFaults>>
  BY DEF OpenRoomPage, OpenForm, Loads
<1>2. PICK s \in TabRecords : /\ tab' = [tab EXCEPT ![t] = s] /\ s.at \notin {"closed", "joining", "redeemed", "room"}
                              /\ s.at = "page" => Viewer # NoToken
  <2>1. CASE OpenRoomPage(t)
    BY <2>1, ScreenIsOne DEF OpenRoomPage, Loads
  <2>2. ASSUME NEW at \in {"start", "join"}, OpenForm(t, at)
        PROVE  \E s \in TabRecords : /\ tab' = [tab EXCEPT ![t] = s] /\ s.at \notin {"closed", "joining", "redeemed", "room"}
                                     /\ s.at = "page" => Viewer # NoToken
    <3>1. [Closed EXCEPT !.at = at] \in TabRecords /\ [Closed EXCEPT !.at = at].at = at
      BY DEF Closed, TabRecords, Anyone
    <3> QED BY <2>2, <3>1 DEF OpenForm
  <2> QED BY <2>1, <2>2
<1>3. tab'[t] = s /\ TabsTyped' /\ \A u \in Tabs \ {t} : tab'[u] = tab[u]
  BY <1>0, <1>2 DEF TabsTyped
<1>4. SwitchesTyped' /\ JarTyped' /\ PhoneTyped'
  BY <1>0, <1>1, MountKept DEF JarTyped, PhoneTyped
<1>5. ActsAreTheirs' /\ Viewer' = Viewer
  BY <1>0, <1>1 DEF WebInv, ActsAreTheirs, Viewer
<1> HIDE DEF Viewer
<1>6. Coded(t)' /\ Loaded(t)'
  BY <1>2, <1>3, <1>5 DEF Coded, Loaded
<1>7. WebInv'
  BY <1>0, <1>1, <1>3, <1>5, <1>6, WebKept
<1>8. PhoneInv'
  <2>1. tab'[t].at # "closed"
    BY <1>2, <1>3
  <2> QED BY <1>0, <1>1, <1>3, <2>1, MountedKept DEF BrowserTyped
<1> QED BY <1>3, <1>4, <1>7, <1>8 DEF BrowserTyped, BrowserInv

\* The answer to a code.
LEMMA EnterSteps ==
    ASSUME BrowserInv, NEW t \in Tabs, EnterJoined(t)
    PROVE  BrowserInv'
<1>0. TabsTyped /\ SwitchesTyped /\ JarTyped /\ PhoneTyped /\ WebInv /\ PhoneInv
  BY DEF BrowserTyped, BrowserInv
<1>1. /\ tab[t].at = "redeemed" /\ switch' = [switch EXCEPT ![t] = Mounted] /\ tab' = [tab EXCEPT ![t] = Screen']
      /\ jar' \in CookiesOf(tab[t].code) /\ entered' = entered \cup {tab[t].code}
      /\ UNCHANGED <<deployment, invite, over, deed, permission, address, made, phoneRow,
                   clicked, unremoved, crossed, browserFaults>>
  BY DEF EnterJoined
<1> DEFINE s == tab[t].code
<1>2. s \in Sessions
  BY <1>0, <1>1 DEF WebInv, Coded
<1> HIDE DEF s
<1>3. (jar' = s \/ (jar' = NoToken /\ s \in over)) /\ entered' = entered \cup {s}
  BY <1>1 DEF CookiesOf, s
<1>4. switch[t].doing = "nothing"
  BY <1>0, <1>1 DEF PhoneInv, PhoneTab
<1>5. JarTyped' /\ PhoneTyped'
  BY <1>0, <1>1, <1>2, <1>3 DEF JarTyped, PhoneTyped
<1>6. Screen' \in TabRecords /\ Screen'.at \in {"join", "page", "failed"} /\ (Screen'.at = "page" => Viewer' # NoToken)
  <2>1. ScreenThen'
    BY ScreenIsHere, PTL
  <2> QED BY <2>1 DEF ScreenThen
<1> DEFINE r == Screen'
<1>7. tab' = [tab EXCEPT ![t] = r] /\ r \in TabRecords /\ r.at \in {"join", "page", "failed"} /\ (r.at = "page" => Viewer' # NoToken)
  BY <1>1, <1>6
<1> HIDE DEF r
<1>8. TabsTyped' /\ tab'[t] = r /\ \A u \in Tabs \ {t} : tab'[u] = tab[u]
  BY <1>0, <1>7 DEF TabsTyped
<1>9. SwitchesTyped'
  BY <1>0, <1>1, MountKept
<1>10. WebInv'
  <2>1. s \notin over => Viewer' # NoToken
    <3>1. s \notin over => jar' = s /\ s # NoToken
      BY <1>2, <1>3, BrowserAssumption
    <3> QED BY <3>1 DEF Viewer
  <2>2. \A u \in Tabs \ {t} : Coded(u)' /\ Loaded(u)'
    BY <1>0, <1>1, <1>8, <2>1 DEF WebInv, Coded, Loaded
  <2>3. Coded(t)' /\ Loaded(t)'
    BY <1>7, <1>8 DEF Coded, Loaded
  <2>4. (entered # {} /\ jar = NoToken => over # {})' /\ (jar \in Sessions => jar \in entered)'
    BY <1>1, <1>2, <1>3, BrowserAssumption
  <2>5. ActsAreTheirs'
    BY <1>0, <1>1 DEF WebInv, ActsAreTheirs
  <2> QED BY <2>2, <2>3, <2>4, <2>5 DEF WebInv
<1>11. PhoneInv'
  <2>1. tab'[t].at # "closed"
    BY <1>7, <1>8
  <2> QED BY <1>0, <1>1, <1>4, <1>8, <2>1, MountedKept DEF BrowserTyped
<1> QED BY <1>5, <1>8, <1>9, <1>10, <1>11 DEF BrowserTyped, BrowserInv

\* A room is created from the form.
LEMMA CreateSteps ==
    ASSUME BrowserInv, NEW t \in Tabs, CreateARoom(t)
    PROVE  BrowserInv'
<1>0. TabsTyped /\ SwitchesTyped /\ JarTyped /\ PhoneTyped /\ WebInv /\ PhoneInv
  BY DEF BrowserTyped, BrowserInv
<1>1. /\ tab[t].at = "start" /\ Authenticated /\ Recorded
      /\ UNCHANGED <<deployment, jar, invite, entered, over, permission, address, made, phoneRow,
                   clicked, unremoved, crossed>>
  BY DEF CreateARoom
<1>2. switch[t].doing = "nothing"
  BY <1>0, <1>1 DEF PhoneInv, PhoneTab
<1>3. JarTyped'
  <2>1. deed' \in [by : Anyone, joined : BOOLEAN, ended : BOOLEAN]
    BY <1>0, <1>1, RecordedIsTyped
  <2> QED BY <1>0, <1>1, <2>1 DEF JarTyped
<1>4. ActsAreTheirs' /\ Viewer' = Viewer
  BY <1>0, <1>1, RecordedIsTrue DEF Viewer
<1>5. CASE Loads(t) /\ UNCHANGED browserFaults
  <2>1. tab' = [tab EXCEPT ![t] = Screen] /\ switch' = [switch EXCEPT ![t] = Mounted]
    BY <1>5 DEF Loads
  <2>2. Screen \in TabRecords /\ Screen.at \in {"join", "page", "failed"} /\ (Screen.at = "page" => Viewer # NoToken)
    BY ScreenIsOne
  <2> DEFINE r == Screen
  <2>3. tab' = [tab EXCEPT ![t] = r] /\ r \in TabRecords /\ r.at \in {"join", "page", "failed"} /\ (r.at = "page" => Viewer # NoToken)
    BY <2>1, <2>2
  <2> HIDE DEF r, Viewer
  <2>4. TabsTyped' /\ tab'[t] = r /\ \A u \in Tabs \ {t} : tab'[u] = tab[u]
    BY <1>0, <2>3 DEF TabsTyped
  <2>5. SwitchesTyped' /\ PhoneTyped'
    BY <1>0, <1>1, <1>5, <2>1, MountKept DEF PhoneTyped
  <2>6. Coded(t)' /\ Loaded(t)'
    BY <1>4, <2>3, <2>4 DEF Coded, Loaded
  <2>7. WebInv'
    BY <1>0, <1>1, <1>4, <2>4, <2>6, WebKept
  <2>8. PhoneInv'
    <3>1. tab'[t].at # "closed"
      BY <2>3, <2>4
    <3> QED BY <1>0, <1>1, <1>2, <1>5, <2>1, <2>4, <3>1, MountedKept DEF BrowserTyped
  <2> QED BY <1>3, <2>4, <2>5, <2>7, <2>8 DEF BrowserTyped, BrowserInv
<1>6. CASE Faulty /\ UNCHANGED <<tab, switch>>
  <2>1. TabsTyped' /\ SwitchesTyped' /\ PhoneTyped' /\ browserFaults' # 0
    BY <1>0, <1>1, <1>6, FaultCounts DEF TabsTyped, SwitchesTyped, PhoneTyped
  <2>2. Coded(t)' /\ Loaded(t)'
    BY <1>1, <1>6 DEF Coded, Loaded
  <2>3. WebInv'
    BY <1>0, <1>1, <1>4, <1>6, <2>2, WebKept
  <2>4. PhoneInv'
    BY <1>0, <1>1, <1>2, <1>6, <2>1, PhoneKept DEF BrowserTyped, phoneVars
  <2> QED BY <1>3, <2>1, <2>3, <2>4 DEF BrowserTyped, BrowserInv
<1> QED BY <1>5, <1>6 DEF CreateARoom

\* The steps of a form and of a socket.
LEMMA FormSteps ==
    ASSUME BrowserInv, NEW t \in Tabs,
           (\E s \in Sessions : SubmitCode(t, s)) \/ RedeemCode(t) \/ LoseJoin(t) \/ Enter(t) \/ LoseSocket(t)
    PROVE  BrowserInv'
<1>0. TabsTyped /\ SwitchesTyped /\ JarTyped /\ PhoneTyped /\ WebInv /\ PhoneInv
  BY DEF BrowserTyped, BrowserInv
<1>1. UNCHANGED <<deployment, jar, entered, over, phoneVars>>
  BY DEF SubmitCode, RedeemCode, LoseJoin, Enter, LoseSocket
<1>2. Viewer' = Viewer /\ SwitchesTyped'
  BY <1>0, <1>1 DEF Viewer, phoneVars, SwitchesTyped
<1>3. ASSUME TabsTyped', JarTyped', PhoneTyped', ActsAreTheirs', Coded(t)', Loaded(t)', browserFaults' = 0 => browserFaults = 0,
             \A u \in Tabs \ {t} : tab'[u] = tab[u], switch[t].doing # "nothing" => tab'[t].at \in {"page", "room"},
             tab'[t].at # "closed"
      PROVE  BrowserInv'
  <2>1. WebInv'
    BY <1>0, <1>1, <1>3, WebKept
  <2>2. PhoneInv'
    BY <1>0, <1>1, <1>3, PhoneKept DEF BrowserTyped
  <2> QED BY <1>2, <1>3, <2>1, <2>2 DEF BrowserTyped, BrowserInv
<1>4. switch[t].doing # "nothing" => tab[t].at \in {"page", "room"}
  BY <1>0 DEF PhoneInv, PhoneTab
<1>5. ASSUME UNCHANGED browserFaults PROVE PhoneTyped'
  BY <1>0, <1>1, <1>5 DEF PhoneTyped, phoneVars
<1>6. ASSUME UNCHANGED deed PROVE ActsAreTheirs'
  BY <1>0, <1>1, <1>6 DEF WebInv, ActsAreTheirs
<1>7. ASSUME UNCHANGED <<deed, invite>> PROVE JarTyped'
  BY <1>0, <1>1, <1>7 DEF JarTyped
<1> HIDE DEF Viewer
<1>8. ASSUME NEW s \in Sessions, SubmitCode(t, s) PROVE BrowserInv'
  <2>1. UNCHANGED <<deed, invite, browserFaults>> /\ tab[t].at = "join" /\ tab' = [tab EXCEPT ![t].at = "joining", ![t].code = s]
    BY <1>8 DEF SubmitCode
  <2>2. TabsTyped' /\ tab'[t].at = "joining" /\ tab'[t].code = s /\ \A u \in Tabs \ {t} : tab'[u] = tab[u]
    BY <1>0, <2>1 DEF TabsTyped, TabRecords
  <2>3. Coded(t)' /\ Loaded(t)'
    BY <2>2 DEF Coded, Loaded
  <2> QED BY <1>3, <1>4, <1>5, <1>6, <1>7, <2>1, <2>2, <2>3
<1>9. ASSUME RedeemCode(t) PROVE BrowserInv'
  <2>1. tab[t].at = "joining" /\ UNCHANGED <<deed, browserFaults>> /\ tab[t].code \in Sessions
    BY <1>0, <1>9 DEF RedeemCode, WebInv, Coded
  <2>2. PICK at \in {"redeemed", "join"} : tab' = [tab EXCEPT ![t].at = at]
    BY <1>9 DEF RedeemCode
  <2>3. TabsTyped' /\ tab'[t].at = at /\ tab'[t].code = tab[t].code /\ \A u \in Tabs \ {t} : tab'[u] = tab[u]
    BY <1>0, <2>2, TabAt
  <2>4. JarTyped'
    BY <1>0, <1>1, <1>9, <2>1 DEF JarTyped, RedeemCode
  <2>5. Coded(t)' /\ Loaded(t)'
    BY <2>1, <2>3 DEF Coded, Loaded
  <2> QED BY <1>3, <1>4, <1>5, <1>6, <2>1, <2>3, <2>4, <2>5
<1>10. ASSUME LoseJoin(t) PROVE BrowserInv'
  <2>1. tab[t].at \in {"joining", "redeemed"} /\ UNCHANGED <<deed, invite>> /\ Faulty /\ tab' = [tab EXCEPT ![t].at = "join"]
    BY <1>10 DEF LoseJoin
  <2>2. TabsTyped' /\ tab'[t].at = "join" /\ \A u \in Tabs \ {t} : tab'[u] = tab[u]
    BY <1>0, <2>1, TabAt
  <2>3. PhoneTyped' /\ browserFaults' # 0
    BY <1>0, <1>1, <2>1, FaultCounts DEF PhoneTyped, phoneVars
  <2>5. Coded(t)' /\ Loaded(t)'
    BY <2>2 DEF Coded, Loaded
  <2> QED BY <1>3, <1>4, <1>6, <1>7, <2>1, <2>2, <2>3, <2>5
<1>11. ASSUME Enter(t) PROVE BrowserInv'
  <2>1. tab[t].at = "page" /\ UNCHANGED <<invite, browserFaults>> /\ Authenticated /\ Recorded
        /\ tab' = [tab EXCEPT ![t].at = "room", ![t].as = Viewer]
    BY <1>11 DEF Enter
  <2>2. Viewer \in Anyone
    BY <1>0 DEF JarTyped, Viewer, Anyone
  <2>3. TabsTyped' /\ tab'[t].at = "room" /\ \A u \in Tabs \ {t} : tab'[u] = tab[u]
    BY <1>0, <2>1, <2>2 DEF TabsTyped, TabRecords
  <2>4. JarTyped'
    <3>1. deed' \in [by : Anyone, joined : BOOLEAN, ended : BOOLEAN]
      BY <1>0, <2>1, RecordedIsTyped
    <3> QED BY <1>0, <1>1, <2>1, <3>1 DEF JarTyped
  <2>5. ActsAreTheirs'
    BY <1>0, <1>1, <2>1, RecordedIsTrue
  <2>6. Coded(t)' /\ Loaded(t)'
    BY <1>2, <2>1, <2>3 DEF Coded, Loaded, Authenticated
  <2> QED BY <1>3, <1>5, <2>1, <2>3, <2>4, <2>5, <2>6
<1>12. ASSUME LoseSocket(t) PROVE BrowserInv'
  <2>1. tab[t].at = "room" /\ UNCHANGED <<invite, deed, browserFaults>> /\ tab' = [tab EXCEPT ![t].at = "page", ![t].as = NoToken]
    BY <1>12 DEF LoseSocket
  <2>2. NoToken \in Anyone
    BY DEF Anyone
  <2>3. TabsTyped' /\ tab'[t].at = "page" /\ \A u \in Tabs \ {t} : tab'[u] = tab[u]
    BY <1>0, <2>1, <2>2 DEF TabsTyped, TabRecords
  <2>6. Coded(t)' /\ Loaded(t)'
    BY <1>0, <1>1, <1>2, <2>1, <2>3 DEF Coded, Loaded, WebInv
  <2> QED BY <1>3, <1>5, <1>6, <1>7, <2>1, <2>3, <2>6
<1> QED BY <1>8, <1>9, <1>10, <1>11, <1>12

\* A session ends.
LEMMA EndSteps ==
    ASSUME BrowserInv, NEW s \in Sessions, SessionEnds(s)
    PROVE  BrowserInv'
<1>0. TabsTyped /\ SwitchesTyped /\ JarTyped /\ PhoneTyped /\ WebInv /\ PhoneInv
  BY DEF BrowserTyped, BrowserInv
<1>1. /\ over' = over \cup {s} /\ jar' \in {jar, NoToken}
      /\ UNCHANGED <<deployment, invite, entered, tab, deed, phoneVars, browserFaults>>
  BY DEF SessionEnds
<1>2. TabsTyped' /\ SwitchesTyped' /\ JarTyped' /\ PhoneTyped'
  BY <1>0, <1>1 DEF TabsTyped, SwitchesTyped, JarTyped, PhoneTyped, phoneVars
<1>3. over' # {}
  BY <1>1
<1>4. WebInv'
  BY <1>0, <1>1, <1>3, BrowserAssumption DEF WebInv, Coded, Loaded, ActsAreTheirs
<1>5. PhoneInv'
  <2>1. UNCHANGED <<permission, address, made, phoneRow, switch, clicked, unremoved, crossed>>
    BY <1>1 DEF phoneVars
  <2>2. AskedFirst' /\ OrphansHaveACause'
    BY <1>0, <2>1 DEF PhoneInv, AskedFirst, OrphansHaveACause
  <2>3. \A u \in Tabs : PhoneTab(u)'
    BY <1>0, <1>1, <2>1 DEF PhoneInv, PhoneTab
  <2>4. \A u \in Tabs : Solo(u)'
    BY <1>0, <1>1, <1>3, <2>1 DEF PhoneInv, Solo, Mirror
  <2> QED BY <2>2, <2>3, <2>4 DEF PhoneInv
<1> QED BY <1>2, <1>4, <1>5 DEF BrowserTyped, BrowserInv

\* A step of the switch of one tab.
LEMMA SwitchKept ==
    ASSUME BrowserInv, NEW t \in Tabs, SwitchIdle(t) \/ switch[t].doing # "nothing", UNCHANGED tab,
           SwitchesTyped', PhoneTyped', JarTyped', WebInv',
           \A u \in Tabs \ {t} : switch'[u] = switch[u],
           made <= made', clicked => clicked', permission = "granted" => permission' = "granted",
           \A u \in Tabs \ {t} : switch[u].doing = "drop" /\ switch[u].removed =>
               phoneRow'[switch[u].about] = NoToken \/ switch[u].about \in crossed',
           AskedFirst', OrphansHaveACause', PhoneTab(t)', Mirror(t) => Mirror(t)'
    PROVE  BrowserInv'
<1>0. TabsTyped /\ SwitchesTyped /\ JarTyped /\ PhoneTyped /\ WebInv /\ PhoneInv
  BY DEF BrowserInv, BrowserTyped
<1>1. tab[t].at \in {"page", "room"}
  BY <1>0 DEF SwitchIdle, PhoneInv, PhoneTab
<1>2. ASSUME NEW u \in Tabs \ {t} PROVE PhoneTab(u)'
  <2>1. PhoneTab(u) /\ switch'[u] = switch[u] /\ made \in Nat /\ made' \in Nat
    BY <1>0, BrowserAssumption DEF PhoneInv, PhoneTyped
  <2> QED BY <2>1 DEF PhoneTab
<1>3. ASSUME NEW u \in Tabs, \A w \in Tabs \ {u} : tab'[w].at = "closed" PROVE Mirror(u)'
  <2>1. u = t
    BY <1>1, <1>3
  <2>2. Mirror(t)
    BY <1>0, <1>3, <2>1 DEF PhoneInv, Solo
  <2> QED BY <2>1, <2>2
<1>4. TabsTyped'
  BY <1>0 DEF TabsTyped
<1>5. PhoneInv'
  BY <1>2, <1>3 DEF PhoneInv, Solo
<1> QED BY <1>4, <1>5 DEF BrowserInv, BrowserTyped

\* A step that only moves the switch.
LEMMA MovesKept ==
    ASSUME BrowserInv, NEW t \in Tabs, SwitchIdle(t) \/ switch[t].doing # "nothing",
           UNCHANGED <<webVars, permission, address, made, phoneRow, unremoved, crossed>>, clicked => clicked', clicked' \in BOOLEAN,
           browserFaults' \in 0..MaxBrowserFaults, browserFaults' = 0 => browserFaults = 0,
           SwitchesTyped', \A u \in Tabs \ {t} : switch'[u] = switch[u], PhoneTab(t)', Mirror(t) => Mirror(t)'
    PROVE  BrowserInv'
<1>0. TabsTyped /\ SwitchesTyped /\ JarTyped /\ PhoneTyped /\ WebInv /\ PhoneInv
  BY DEF BrowserInv, BrowserTyped
<1>1. WebInv' /\ JarTyped'
  BY <1>0, WebStays DEF JarTyped, webVars
<1>2. PhoneTyped'
  BY <1>0 DEF PhoneTyped
<1>3. AskedFirst' /\ OrphansHaveACause'
  BY <1>0 DEF PhoneInv, AskedFirst, OrphansHaveACause
<1>4. \A u \in Tabs \ {t} : switch[u].doing = "drop" /\ switch[u].removed =>
               phoneRow'[switch[u].about] = NoToken \/ switch[u].about \in crossed'
  BY <1>0 DEF PhoneInv, PhoneTab
<1>5. made <= made'
  BY <1>0, BrowserAssumption DEF PhoneTyped
<1>6. UNCHANGED tab
  BY DEF webVars
<1> QED BY <1>1, <1>2, <1>3, <1>4, <1>5, <1>6, SwitchKept

\* Looking at what there is, asking for the state, the key, the click.
LEMMA LookSteps ==
    ASSUME BrowserInv, NEW t \in Tabs, Refresh(t) \/ ReadState(t) \/ TurnOn(t) \/ GetKey(t) \/ TurnOff(t)
    PROVE  BrowserInv'
<1>0. TabsTyped /\ SwitchesTyped /\ JarTyped /\ PhoneTyped /\ WebInv /\ PhoneInv /\ PhoneTab(t)
  BY DEF BrowserInv, BrowserTyped, PhoneInv
<1>1. UNCHANGED <<webVars, permission, address, made, phoneRow, unremoved, crossed>>
  BY DEF Refresh, ReadState, TurnOn, GetKey, TurnOff
<1>2. (SwitchIdle(t) \/ switch[t].doing # "nothing") /\ tab[t].at \in {"page", "room"} /\ tab' = tab
  BY <1>0 DEF Refresh, ReadState, TurnOn, GetKey, TurnOff, PhoneTab, webVars, SwitchIdle
<1>3. browserFaults \in 0..MaxBrowserFaults /\ clicked \in BOOLEAN /\ address \in 0..made /\ made \in 0..MaxAddresses /\ MaxAddresses \in Nat
  BY <1>0, BrowserAssumption DEF PhoneTyped
<1>4. (\A u \in Tabs : over' = over) /\ over' = over
  BY <1>1 DEF webVars
<1>5. "blocked" \in Shown /\ "off" \in Shown /\ "on" \in Shown /\ "error" \in Shown /\ "unconfigured" \in Shown
  BY DEF Shown
<1>6. ASSUME NEW shows \in Shown, Shows(t, shows), UNCHANGED clicked,
             browserFaults' \in 0..MaxBrowserFaults, browserFaults' = 0 => browserFaults = 0,
             switch[t].doing \notin {"post", "drop"}, shows = "off" => address = 0, Mirror(t) /\ shows = "on" => address # 0
      PROVE  BrowserInv'
  <2>1. SwitchesTyped' /\ switch'[t].doing = "nothing" /\ switch'[t].shows = shows /\ \A u \in Tabs \ {t} : switch'[u] = switch[u]
    BY <1>0, <1>6, ShowsKept
  <2>2. PhoneTab(t)'
    BY <2>1 DEF PhoneTab
  <2>3. Mirror(t) => Mirror(t)'
    BY <1>1, <1>4, <1>6, <2>1 DEF Mirror
  <2> QED BY <1>1, <1>2, <1>3, <1>6, <2>1, <2>2, <2>3, MovesKept
<1>7. ASSUME Refresh(t) PROVE BrowserInv'
  <2>1. UNCHANGED <<clicked, browserFaults>> /\ switch[t].doing = "nothing" /\ switch[t].shows = "checking"
    BY <1>7 DEF Refresh, SwitchIdle
  <2>2. CASE Shows(t, "blocked")
    BY <1>3, <1>5, <1>6, <2>1, <2>2
  <2>3. CASE Shows(t, "off") /\ address = 0
    BY <1>3, <1>5, <1>6, <2>1, <2>3
  <2>4. CASE Goes(t, "state") /\ address # 0
    <3>1. SwitchesTyped' /\ switch'[t].doing = "state" /\ switch'[t].shows = "checking" /\ \A u \in Tabs \ {t} : switch'[u] = switch[u]
      BY <1>0, <2>1, <2>4, GoesKept
    <3>2. PhoneTab(t)'
      BY <1>2, <3>1 DEF PhoneTab
    <3>3. Mirror(t) => Mirror(t)'
      BY <1>1, <1>4, <2>1, <2>4, <3>1 DEF Mirror
    <3> QED BY <1>1, <1>2, <1>3, <2>1, <3>1, <3>2, <3>3, MovesKept
  <2> QED BY <1>7, <2>2, <2>3, <2>4 DEF Refresh
<1>8. ASSUME ReadState(t) PROVE BrowserInv'
  <2>1. UNCHANGED clicked /\ switch[t].doing = "state" /\ (Mirror(t) => address # 0)
    BY <1>8 DEF ReadState, Mirror
  <2>2. CASE Shows(t, "on") /\ UNCHANGED browserFaults
    BY <1>3, <1>5, <1>6, <2>1, <2>2
  <2>3. CASE Faulty /\ Shows(t, "error")
    BY <1>0, <1>5, <1>6, <2>1, <2>3, FaultCounts
  <2> QED BY <1>8, <2>2, <2>3 DEF ReadState
<1>9. ASSUME TurnOn(t) PROVE BrowserInv'
  <2>1. UNCHANGED browserFaults /\ clicked' = TRUE /\ switch[t].doing = "nothing" /\ switch[t].shows = "off" /\ Goes(t, "key")
    BY <1>9 DEF TurnOn, SwitchIdle
  <2>2. SwitchesTyped' /\ switch'[t].doing = "key" /\ switch'[t].shows = "off" /\ \A u \in Tabs \ {t} : switch'[u] = switch[u]
    BY <1>0, <2>1, GoesKept
  <2>3. PhoneTab(t)'
    BY <1>2, <2>1, <2>2 DEF PhoneTab
  <2>4. Mirror(t) => Mirror(t)'
    BY <1>1, <1>4, <2>1, <2>2 DEF Mirror
  <2> QED BY <1>1, <1>2, <1>3, <2>1, <2>2, <2>3, <2>4, MovesKept
<1>10. ASSUME GetKey(t) PROVE BrowserInv'
  <2>1. UNCHANGED clicked /\ switch[t].doing = "key"
    BY <1>10 DEF GetKey
  <2>2. CASE Goes(t, "ask") /\ UNCHANGED browserFaults
    <3>1. SwitchesTyped' /\ switch'[t].doing = "ask" /\ switch'[t].shows = switch[t].shows /\ \A u \in Tabs \ {t} : switch'[u] = switch[u]
      BY <1>0, <2>2, GoesKept
    <3>2. PhoneTab(t)'
      BY <1>0, <1>2, <2>1, <3>1 DEF PhoneTab
    <3>3. Mirror(t) => Mirror(t)'
      BY <1>1, <1>4, <2>1, <2>2, <3>1 DEF Mirror
    <3> QED BY <1>1, <1>2, <1>3, <2>1, <2>2, <3>1, <3>2, <3>3, MovesKept
  <2>3. ASSUME Faulty, NEW shows \in {"unconfigured", "error"}, Shows(t, shows) PROVE BrowserInv'
    BY <1>0, <1>5, <1>6, <2>1, <2>3, FaultCounts
  <2> QED BY <1>10, <2>2, <2>3 DEF GetKey
<1>11. ASSUME TurnOff(t) PROVE BrowserInv'
  <2>1. UNCHANGED <<clicked, browserFaults>> /\ switch[t].doing = "nothing" /\ switch[t].shows = "on"
    BY <1>11 DEF TurnOff, SwitchIdle
  <2>2. CASE address = 0 /\ Shows(t, "off")
    BY <1>3, <1>5, <1>6, <2>1, <2>2
  <2>3. CASE address # 0 /\ switch' = [switch EXCEPT ![t].doing = "delete", ![t].about = address]
    <3>0. address \in 0..MaxAddresses /\ address \in 1..made
      BY <1>3, <2>3
    <3>1. SwitchesTyped' /\ switch'[t].doing = "delete" /\ switch'[t].shows = "on" /\ switch'[t].about = address
          /\ \A u \in Tabs \ {t} : switch'[u] = switch[u]
      BY <1>0, <2>1, <2>3, <3>0, AboutKept
    <3>2. PhoneTab(t)'
      BY <1>1, <1>2, <3>0, <3>1 DEF PhoneTab
    <3>3. Mirror(t) => Mirror(t)'
      BY <1>1, <1>4, <2>1, <2>3, <3>1 DEF Mirror
    <3> QED BY <1>1, <1>2, <1>3, <2>1, <3>1, <3>2, <3>3, MovesKept
  <2> QED BY <1>11, <2>2, <2>3 DEF TurnOff
<1> QED BY <1>7, <1>8, <1>9, <1>10, <1>11

\* The person answers the browser.
LEMMA AskSteps ==
    ASSUME BrowserInv, NEW t \in Tabs, AskPermission(t)
    PROVE  BrowserInv'
<1>0. TabsTyped /\ SwitchesTyped /\ JarTyped /\ PhoneTyped /\ WebInv /\ PhoneInv /\ PhoneTab(t) /\ AskedFirst
  BY DEF BrowserInv, BrowserTyped, PhoneInv
<1>1. UNCHANGED <<webVars, address, made, phoneRow, clicked, unremoved, crossed, browserFaults>> /\ switch[t].doing = "ask"
  BY DEF AskPermission
<1>2. permission' \in {"default", "granted", "denied"} /\ (permission # "default" => permission' = permission)
  BY <1>0 DEF AskPermission, PhoneTyped
<1>3. clicked /\ tab[t].at \in {"page", "room"} /\ tab' = tab
  BY <1>0, <1>1 DEF PhoneTab, webVars
<1>4. WebInv' /\ JarTyped'
  BY <1>0, <1>1, WebStays DEF JarTyped, webVars
<1>5. PhoneTyped' /\ made <= made'
  BY <1>0, <1>1, <1>2, BrowserAssumption DEF PhoneTyped
<1>6. AskedFirst' /\ OrphansHaveACause'
  BY <1>0, <1>1, <1>2, <1>3 DEF PhoneInv, AskedFirst, OrphansHaveACause
<1>7. \A u \in Tabs \ {t} : switch[u].doing = "drop" /\ switch[u].removed =>
               phoneRow'[switch[u].about] = NoToken \/ switch[u].about \in crossed'
  BY <1>0, <1>1 DEF PhoneInv, PhoneTab
<1>8. over' = over
  BY <1>1 DEF webVars
<1>9. CASE permission' = "granted" /\ Goes(t, "subscribe")
  <2>1. SwitchesTyped' /\ switch'[t].doing = "subscribe" /\ switch'[t].shows = switch[t].shows /\ \A u \in Tabs \ {t} : switch'[u] = switch[u]
    BY <1>0, <1>9, GoesKept
  <2>2. PhoneTab(t)'
    BY <1>1, <1>3, <1>9, <2>1 DEF PhoneTab
  <2>3. Mirror(t) => Mirror(t)'
    BY <1>1, <1>8, <2>1 DEF Mirror
  <2> QED BY <1>1, <1>2, <1>3, <1>4, <1>5, <1>6, <1>7, <2>1, <2>2, <2>3, SwitchKept
<1>10. ASSUME NEW shows \in {"blocked", "off"}, Shows(t, shows) PROVE BrowserInv'
  <2>0. shows \in Shown
    BY DEF Shown
  <2>1. SwitchesTyped' /\ switch'[t].doing = "nothing" /\ switch'[t].shows = shows /\ \A u \in Tabs \ {t} : switch'[u] = switch[u]
    BY <1>0, <1>10, <2>0, ShowsKept
  <2>2. PhoneTab(t)'
    BY <2>1 DEF PhoneTab
  <2>3. Mirror(t) => Mirror(t)'
    BY <1>1, <1>8, <1>10, <2>1 DEF Mirror
  <2> QED BY <1>1, <1>2, <1>3, <1>4, <1>5, <1>6, <1>7, <2>1, <2>2, <2>3, SwitchKept
<1> QED BY <1>9, <1>10 DEF AskPermission

\* The browser gives the subscription, or makes one.
LEMMA ObtainSteps ==
    ASSUME BrowserInv, NEW t \in Tabs, Obtain(t)
    PROVE  BrowserInv'
<1>0. TabsTyped /\ SwitchesTyped /\ JarTyped /\ PhoneTyped /\ WebInv /\ PhoneInv /\ PhoneTab(t) /\ AskedFirst
  BY DEF BrowserInv, BrowserTyped, PhoneInv
<1>1. UNCHANGED <<webVars, permission, phoneRow, clicked, unremoved, crossed>> /\ switch[t].doing = "subscribe"
  BY DEF Obtain
<1>2. clicked /\ permission = "granted" /\ tab[t].at \in {"page", "room"} /\ tab' = tab /\ over' = over
  BY <1>0, <1>1 DEF PhoneTab, webVars
<1>3. WebInv' /\ JarTyped'
  BY <1>0, <1>1, WebStays DEF JarTyped, webVars
<1>4. made \in 0..MaxAddresses /\ address \in 0..made /\ MaxAddresses \in Nat /\ browserFaults \in 0..MaxBrowserFaults
  BY <1>0, BrowserAssumption DEF PhoneTyped
<1>5. \A u \in Tabs \ {t} : switch[u].doing = "drop" /\ switch[u].removed =>
               phoneRow'[switch[u].about] = NoToken \/ switch[u].about \in crossed'
  BY <1>0, <1>1 DEF PhoneInv, PhoneTab
<1>6. Mirror(t) => address = 0
  BY <1>1 DEF Mirror, PhoneInv, PhoneTab
<1>7. CASE /\ address = 0 /\ made < MaxAddresses /\ made' = made + 1 /\ address' = made + 1
           /\ switch' = [switch EXCEPT ![t].doing = "post", ![t].about = address'] /\ UNCHANGED browserFaults
  <2> DEFINE e == made + 1
  <2>1. e \in 0..MaxAddresses /\ e \in 1..made' /\ address' = e /\ e # 0 /\ made <= made' /\ made' \in 0..MaxAddresses /\ made' > 0
    BY <1>4, <1>7
  <2>2. switch' = [switch EXCEPT ![t].doing = "post", ![t].about = e]
    BY <1>7
  <2> HIDE DEF e
  <2>3. SwitchesTyped' /\ switch'[t].doing = "post" /\ switch'[t].shows = switch[t].shows /\ switch'[t].about = e
        /\ \A u \in Tabs \ {t} : switch'[u] = switch[u]
    BY <1>0, <2>1, <2>2, AboutKept
  <2>4. PhoneTyped'
    <3>1. address' \in 0..made'
      BY <2>1
    <3> QED BY <1>0, <1>1, <1>7, <2>1, <3>1 DEF PhoneTyped
  <2>5. AskedFirst'
    BY <1>1, <1>2 DEF AskedFirst
  <2>6. OrphansHaveACause'
    <3>1. \A k \in Address : k # address
      BY <1>7 DEF Address
    <3> QED BY <1>0, <1>1, <3>1 DEF PhoneInv, OrphansHaveACause
  <2>7. PhoneTab(t)'
    BY <1>1, <1>2, <2>1, <2>3 DEF PhoneTab
  <2>8. Mirror(t) => Mirror(t)'
    BY <1>1, <2>1, <2>3 DEF Mirror
  <2> QED BY <1>1, <1>2, <1>3, <1>5, <2>1, <2>3, <2>4, <2>5, <2>6, <2>7, <2>8, SwitchKept
<1>8. CASE /\ address # 0 /\ switch' = [switch EXCEPT ![t].doing = "post", ![t].about = address]
           /\ UNCHANGED <<address, made, browserFaults>>
  <2>1. address \in 0..MaxAddresses /\ address \in 1..made
    BY <1>4, <1>8
  <2>3. SwitchesTyped' /\ switch'[t].doing = "post" /\ switch'[t].shows = switch[t].shows /\ switch'[t].about = address
        /\ \A u \in Tabs \ {t} : switch'[u] = switch[u]
    BY <1>0, <1>8, <2>1, AboutKept
  <2>7. PhoneTab(t)'
    BY <1>1, <1>2, <1>8, <2>1, <2>3 DEF PhoneTab
  <2>8. ~Mirror(t)
    BY <1>6, <1>8
  <2>9. clicked' \in BOOLEAN
    BY <1>0, <1>1 DEF PhoneTyped
  <2> QED BY <1>1, <1>4, <1>8, <2>3, <2>7, <2>8, <2>9, MovesKept
<1>9. CASE Faulty /\ Shows(t, "error") /\ UNCHANGED <<address, made>>
  <2>1. SwitchesTyped' /\ switch'[t].doing = "nothing" /\ switch'[t].shows = "error" /\ \A u \in Tabs \ {t} : switch'[u] = switch[u]
    BY <1>0, <1>9, ShowsKept DEF Shown
  <2>2. PhoneTab(t)'
    BY <2>1 DEF PhoneTab
  <2>3. browserFaults' \in 0..MaxBrowserFaults /\ browserFaults' # 0
    BY <1>0, <1>9, FaultCounts
  <2>4. Mirror(t) => Mirror(t)'
    BY <2>1, <2>3 DEF Mirror
  <2>9. clicked' \in BOOLEAN
    BY <1>0, <1>1 DEF PhoneTyped
  <2> QED BY <1>1, <1>9, <2>1, <2>2, <2>3, <2>4, <2>9, MovesKept
<1> QED BY <1>7, <1>8, <1>9 DEF Obtain

\* The row of a phone.
LEMMA RegisterSteps ==
    ASSUME BrowserInv, NEW t \in Tabs, Register(t)
    PROVE  BrowserInv'
<1> DEFINE e == switch[t].about
<1>0. TabsTyped /\ SwitchesTyped /\ JarTyped /\ PhoneTyped /\ WebInv /\ PhoneInv /\ PhoneTab(t) /\ AskedFirst
  BY DEF BrowserInv, BrowserTyped, PhoneInv
<1>1. UNCHANGED <<deployment, jar, invite, entered, over, tab, permission, address, made, clicked, unremoved>> /\ switch[t].doing = "post"
  BY DEF Register
<1>2. clicked /\ permission = "granted" /\ tab[t].at \in {"page", "room"} /\ e \in 1..made /\ made \in 0..MaxAddresses /\ MaxAddresses \in Nat
  BY <1>0, <1>1, BrowserAssumption DEF PhoneTab, PhoneTyped
<1>3. e \in Address /\ browserFaults \in 0..MaxBrowserFaults /\ made <= made'
  BY <1>0, <1>1, <1>2 DEF Address, PhoneTyped
<1>4. AskedFirst'
  BY <1>0, <1>1 DEF AskedFirst
<1>5. ASSUME NEW shows \in {"on", "error"}, Shows(t, shows)
      PROVE  /\ SwitchesTyped' /\ switch'[t].doing = "nothing" /\ switch'[t].shows = shows /\ PhoneTab(t)'
             /\ \A u \in Tabs \ {t} : switch'[u] = switch[u]
  <2>1. shows \in Shown
    BY DEF Shown
  <2>2. SwitchesTyped' /\ switch'[t].doing = "nothing" /\ switch'[t].shows = shows /\ \A u \in Tabs \ {t} : switch'[u] = switch[u]
    BY <1>0, <1>5, <2>1, ShowsKept
  <2> QED BY <2>2 DEF PhoneTab
<1>6. CASE Authenticated /\ Recorded /\ phoneRow' = [phoneRow EXCEPT ![e] = Viewer]
           /\ crossed' = (IF GivenUp(e) THEN crossed \cup {e} ELSE crossed)
           /\ ((Shows(t, "on") /\ UNCHANGED browserFaults) \/ (Faulty /\ Shows(t, "error")))
  <2>1. PICK shows \in {"on", "error"} : Shows(t, shows)
    BY <1>6
  <2>2. SwitchesTyped' /\ switch'[t].doing = "nothing" /\ switch'[t].shows = shows /\ PhoneTab(t)'
             /\ \A u \in Tabs \ {t} : switch'[u] = switch[u]
    BY <1>5, <2>1
  <2>3. browserFaults' \in 0..MaxBrowserFaults /\ (browserFaults' = 0 => browserFaults = 0)
    <3>1. CASE UNCHANGED browserFaults
      BY <1>3, <3>1
    <3>2. CASE Faulty
      BY <1>0, <3>2, FaultCounts
    <3> QED BY <1>6, <3>1, <3>2
  <2>4. Viewer \in Anyone /\ Viewer # NoToken
    BY <1>0, <1>6 DEF JarTyped, Viewer, Anyone, Authenticated
  <2> HIDE DEF Viewer, e
  <2>5. crossed \subseteq crossed' /\ crossed' \subseteq Address /\ (GivenUp(e) => e \in crossed')
    BY <1>0, <1>3, <1>6 DEF PhoneTyped
  <2>6. phoneRow' \in [Address -> Anyone] /\ phoneRow'[e] = Viewer /\ \A k \in Address \ {e} : phoneRow'[k] = phoneRow[k]
    BY <1>0, <1>3, <1>6, <2>4 DEF PhoneTyped
  <2>7. PhoneTyped'
    BY <1>0, <1>1, <2>3, <2>5, <2>6 DEF PhoneTyped
  <2>8. JarTyped'
    <3>1. deed' \in [by : Anyone, joined : BOOLEAN, ended : BOOLEAN]
      BY <1>0, <1>6, RecordedIsTyped
    <3> QED BY <1>0, <1>1, <3>1 DEF JarTyped
  <2>9. WebInv'
    <3>1. ActsAreTheirs'
      BY <1>0, <1>1, <1>6, RecordedIsTrue
    <3>2. Coded(t)' /\ Loaded(t)'
      BY <1>0, <1>1 DEF WebInv, Coded, Loaded, Viewer
    <3> QED BY <1>0, <1>1, <3>1, <3>2, WebKept
  <2>10. OrphansHaveACause'
    <3>1. ASSUME NEW k \in Address, phoneRow'[k] # NoToken, address' # k PROVE k \in unremoved' \cup crossed'
      <4>1. CASE k = e
        BY <1>1, <2>5, <3>1, <4>1 DEF GivenUp
      <4>2. CASE k # e
        BY <1>0, <1>1, <2>5, <2>6, <3>1, <4>2 DEF PhoneInv, OrphansHaveACause
      <4> QED BY <4>1, <4>2
    <3> QED BY <3>1 DEF OrphansHaveACause
  <2>11. ASSUME NEW u \in Tabs \ {t}, switch[u].doing = "drop", switch[u].removed
         PROVE  phoneRow'[switch[u].about] = NoToken \/ switch[u].about \in crossed'
    <3>1. CASE switch[u].about = e
      BY <2>5, <2>11, <3>1 DEF GivenUp
    <3>2. CASE switch[u].about # e
      <4>1. switch[u].about \in 1..made /\ (phoneRow[switch[u].about] = NoToken \/ switch[u].about \in crossed)
        BY <1>0, <2>11 DEF PhoneInv, PhoneTab
      <4>2. switch[u].about \in Address
        BY <1>2, <4>1 DEF Address
      <4> QED BY <2>5, <2>6, <3>2, <4>1, <4>2
    <3> QED BY <3>1, <3>2
  <2>12. Mirror(t) => Mirror(t)'
    <3>1. shows # "off"
      OBVIOUS
    <3>2. Mirror(t) => e = address /\ address # 0
      BY <1>1 DEF Mirror, e
    <3>3. Mirror(t) => address' # 0 /\ phoneRow'[address'] # NoToken
      BY <1>1, <2>4, <2>6, <3>2
    <3> QED BY <2>2, <3>1, <3>3 DEF Mirror
  <2> QED BY <1>1, <1>3, <1>4, <2>2, <2>7, <2>8, <2>9, <2>10, <2>11, <2>12, SwitchKept
<1>7. ASSUME Shows(t, "error"), UNCHANGED <<deed, phoneRow, crossed>>,
             browserFaults' \in 0..MaxBrowserFaults, browserFaults' = 0 => browserFaults = 0, Mirror(t) => Mirror(t)'
      PROVE  BrowserInv'
  <2>1. SwitchesTyped' /\ switch'[t].doing = "nothing" /\ switch'[t].shows = "error" /\ PhoneTab(t)'
             /\ \A u \in Tabs \ {t} : switch'[u] = switch[u]
    BY <1>5, <1>7
  <2>2. UNCHANGED webVars
    BY <1>1, <1>7 DEF webVars
  <2>3. clicked' \in BOOLEAN
    BY <1>0, <1>1 DEF PhoneTyped
  <2> QED BY <1>1, <1>7, <2>1, <2>2, <2>3, MovesKept
<1>8. CASE ~Authenticated /\ Shows(t, "error") /\ UNCHANGED <<deed, phoneRow, crossed, browserFaults>>
  <2>1. over # {}
    BY <1>0, <1>2, <1>8 DEF WebInv, Loaded, Authenticated
  <2>2. switch'[t].doing = "nothing" /\ switch'[t].shows = "error"
    BY <1>5, <1>8
  <2>3. Mirror(t)'
    BY <1>1, <2>1, <2>2 DEF Mirror
  <2> QED BY <1>3, <1>7, <1>8, <2>3
<1>9. CASE Faulty /\ Shows(t, "error") /\ UNCHANGED <<deed, phoneRow, crossed>>
  <2>1. browserFaults' \in 0..MaxBrowserFaults /\ browserFaults' # 0
    BY <1>0, <1>9, FaultCounts
  <2>2. switch'[t].doing = "nothing" /\ switch'[t].shows = "error"
    BY <1>5, <1>9
  <2>3. Mirror(t)'
    BY <2>1, <2>2 DEF Mirror
  <2> QED BY <1>7, <1>9, <2>1, <2>3
<1> QED BY <1>6, <1>8, <1>9 DEF Register

\* A row that is removed, or not.
LEMMA RowWithoutIsLess ==
    ASSUME JarTyped, PhoneTyped, NEW e \in Address
    PROVE  /\ RowWithout(e) \in [Address -> Anyone]
           /\ \A k \in Address : RowWithout(e)[k] = phoneRow[k] \/ RowWithout(e)[k] = NoToken
           /\ RowWithout(e) # phoneRow => RowWithout(e)[e] = NoToken
<1>1. NoToken \in Anyone
  BY DEF Anyone
<1> QED BY <1>1 DEF RowWithout, PhoneTyped

\* The deletion, and its answer.
LEMMA UnregisterSteps ==
    ASSUME BrowserInv, NEW t \in Tabs, Unregister(t)
    PROVE  BrowserInv'
<1> DEFINE e == switch[t].about
<1>0. TabsTyped /\ SwitchesTyped /\ JarTyped /\ PhoneTyped /\ WebInv /\ PhoneInv /\ PhoneTab(t) /\ AskedFirst
  BY DEF BrowserInv, BrowserTyped, PhoneInv
<1>1. UNCHANGED <<webVars, permission, address, made, clicked, unremoved, crossed>> /\ switch[t].doing = "delete"
  BY DEF Unregister
<1>2. tab[t].at \in {"page", "room"} /\ e \in 1..made /\ made \in 0..MaxAddresses /\ MaxAddresses \in Nat
      /\ tab' = tab /\ over' = over
  BY <1>0, <1>1, BrowserAssumption DEF PhoneTab, PhoneTyped, webVars
<1>3. e \in Address /\ browserFaults \in 0..MaxBrowserFaults /\ made <= made'
  BY <1>0, <1>1, <1>2 DEF Address, PhoneTyped
<1>4. WebInv' /\ JarTyped' /\ AskedFirst'
  BY <1>0, <1>1, WebStays DEF JarTyped, webVars, AskedFirst
<1>5. phoneRow' \in {phoneRow, RowWithout(e)}
  BY DEF Unregister
<1>6. phoneRow' \in [Address -> Anyone] /\ \A k \in Address : phoneRow'[k] = phoneRow[k] \/ phoneRow'[k] = NoToken
  BY <1>0, <1>3, <1>5, RowWithoutIsLess DEF PhoneTyped
<1>7. OrphansHaveACause'
  BY <1>0, <1>1, <1>6 DEF PhoneInv, OrphansHaveACause
<1>8. ASSUME NEW u \in Tabs \ {t}, switch[u].doing = "drop", switch[u].removed
      PROVE  phoneRow'[switch[u].about] = NoToken \/ switch[u].about \in crossed'
  <2>1. switch[u].about \in 1..made /\ (phoneRow[switch[u].about] = NoToken \/ switch[u].about \in crossed)
    BY <1>0, <1>8 DEF PhoneInv, PhoneTab
  <2>2. switch[u].about \in Address
    BY <1>2, <2>1 DEF Address
  <2> QED BY <1>1, <1>6, <2>1, <2>2
<1>9. CASE /\ phoneRow' = RowWithout(e)
           /\ switch' = [switch EXCEPT ![t].doing = "drop", ![t].removed = phoneRow' # phoneRow] /\ UNCHANGED browserFaults
  <2> DEFINE removed == phoneRow' # phoneRow
  <2>1. removed \in BOOLEAN /\ switch' = [switch EXCEPT ![t].doing = "drop", ![t].removed = removed]
    BY <1>9
  <2>2. removed => phoneRow'[e] = NoToken
    BY <1>0, <1>3, <1>9, RowWithoutIsLess
  <2> HIDE DEF removed
  <2>3. SwitchesTyped' /\ switch'[t].doing = "drop" /\ switch'[t].shows = switch[t].shows
        /\ switch'[t].about = e /\ switch'[t].removed = removed
        /\ \A u \in Tabs \ {t} : switch'[u] = switch[u]
    BY <1>0, <2>1, RemovedKept
  <2>4. PhoneTyped'
    BY <1>0, <1>1, <1>6, <1>9 DEF PhoneTyped
  <2>5. PhoneTab(t)'
    BY <1>1, <1>2, <2>2, <2>3 DEF PhoneTab
  <2>6. Mirror(t) => Mirror(t)'
    BY <1>1, <2>3 DEF Mirror
  <2> QED BY <1>1, <1>2, <1>3, <1>4, <1>7, <1>8, <2>3, <2>4, <2>5, <2>6, SwitchKept
<1>10. CASE Faulty /\ Shows(t, "error")
  <2>1. SwitchesTyped' /\ switch'[t].doing = "nothing" /\ switch'[t].shows = "error" /\ \A u \in Tabs \ {t} : switch'[u] = switch[u]
    BY <1>0, <1>10, ShowsKept DEF Shown
  <2>2. browserFaults' \in 0..MaxBrowserFaults /\ browserFaults' # 0
    BY <1>0, <1>10, FaultCounts
  <2>4. PhoneTyped'
    BY <1>0, <1>1, <1>6, <2>2 DEF PhoneTyped
  <2>5. PhoneTab(t)'
    BY <2>1 DEF PhoneTab
  <2>6. Mirror(t) => Mirror(t)'
    BY <2>1, <2>2 DEF Mirror
  <2> QED BY <1>1, <1>2, <1>3, <1>4, <1>7, <1>8, <2>1, <2>4, <2>5, <2>6, SwitchKept
<1> QED BY <1>9, <1>10 DEF Unregister

\* The address is given up.
LEMMA DropSteps ==
    ASSUME BrowserInv, NEW t \in Tabs, Drop(t)
    PROVE  BrowserInv'
<1> DEFINE e == switch[t].about
<1>0. TabsTyped /\ SwitchesTyped /\ JarTyped /\ PhoneTyped /\ WebInv /\ PhoneInv /\ PhoneTab(t) /\ AskedFirst
  BY DEF BrowserInv, BrowserTyped, PhoneInv
<1>1. UNCHANGED <<webVars, permission, made, phoneRow, clicked, crossed, browserFaults>> /\ switch[t].doing = "drop" /\ Shows(t, "off")
      /\ address' = (IF address = e THEN 0 ELSE address)
      /\ unremoved' = (IF switch[t].removed THEN unremoved ELSE unremoved \cup {e})
  BY DEF Drop
<1>2. tab[t].at \in {"page", "room"} /\ e \in 1..made /\ made \in 0..MaxAddresses /\ MaxAddresses \in Nat
      /\ tab' = tab /\ over' = over
  BY <1>0, <1>1, BrowserAssumption DEF PhoneTab, PhoneTyped, webVars
<1>3. e \in Address /\ made <= made' /\ 0 \in 0..made
  BY <1>0, <1>1, <1>2 DEF Address, PhoneTyped
<1>4. WebInv' /\ JarTyped' /\ AskedFirst'
  BY <1>0, <1>1, WebStays DEF JarTyped, webVars, AskedFirst
<1>5. switch[t].removed => phoneRow[e] = NoToken \/ e \in crossed
  BY <1>0, <1>1 DEF PhoneTab
<1>5a. switch[t].removed \in BOOLEAN
  BY <1>0 DEF SwitchesTyped, SwitchRecords
<1> HIDE DEF e
<1>6. PhoneTyped'
  BY <1>0, <1>1, <1>3 DEF PhoneTyped
<1>7. OrphansHaveACause'
  <2>1. ASSUME NEW k \in Address, phoneRow[k] # NoToken, address' # k PROVE k \in unremoved' \cup crossed
    <3>1. unremoved \subseteq unremoved' /\ (~switch[t].removed => e \in unremoved')
      BY <1>1
    <3>2. CASE k = e
      BY <1>5, <1>5a, <2>1, <3>1, <3>2
    <3>3. CASE k # e
      <4>1. address # k
        BY <1>1, <2>1, <3>3
      <4> QED BY <1>0, <2>1, <3>1, <4>1 DEF PhoneInv, OrphansHaveACause
    <3> QED BY <3>2, <3>3
  <2> QED BY <1>1, <2>1 DEF OrphansHaveACause
<1>8. \A u \in Tabs \ {t} : switch[u].doing = "drop" /\ switch[u].removed =>
               phoneRow'[switch[u].about] = NoToken \/ switch[u].about \in crossed'
  BY <1>0, <1>1 DEF PhoneInv, PhoneTab
<1>9. SwitchesTyped' /\ switch'[t].doing = "nothing" /\ switch'[t].shows = "off" /\ \A u \in Tabs \ {t} : switch'[u] = switch[u]
  BY <1>0, <1>1, ShowsKept DEF Shown
<1>10. PhoneTab(t)'
  BY <1>9 DEF PhoneTab
<1>11. Mirror(t) => Mirror(t)'
  <2>1. Mirror(t) => address' = 0
    BY <1>1 DEF Mirror, e
  <2> QED BY <1>9, <2>1 DEF Mirror
<1> QED BY <1>1, <1>2, <1>3, <1>4, <1>6, <1>7, <1>8, <1>9, <1>10, <1>11, SwitchKept

\* Every step of the browser.
LEMMA BrowserGoesOn == BrowserInv /\ [BrowserNext]_browserVars => BrowserInv'
<1>1. CASE BrowserInv /\ BrowserNext
  BY <1>1, OpenPageSteps, EnterSteps, CreateSteps, FormSteps, EndSteps, LookSteps, AskSteps, ObtainSteps,
     RegisterSteps, UnregisterSteps, DropSteps DEF BrowserNext
<1>2. CASE BrowserInv /\ UNCHANGED browserVars
  <2>0. TabsTyped /\ SwitchesTyped /\ JarTyped /\ PhoneTyped /\ WebInv /\ PhoneInv
    BY <1>2 DEF BrowserInv, BrowserTyped
  <2>1. UNCHANGED <<deployment, jar, invite, entered, over, tab, deed, permission, address, made, phoneRow, switch,
                    clicked, unremoved, crossed, browserFaults>>
    BY <1>2 DEF browserVars, webVars, phoneVars
  <2>2. TabsTyped' /\ SwitchesTyped' /\ JarTyped' /\ PhoneTyped'
    BY <2>0, <2>1 DEF TabsTyped, SwitchesTyped, JarTyped, PhoneTyped
  <2>3. WebInv'
    BY <2>0, <2>1, WebStays DEF webVars
  <2>4. AskedFirst' /\ OrphansHaveACause'
    BY <2>0, <2>1 DEF PhoneInv, AskedFirst, OrphansHaveACause
  <2>5. \A t \in Tabs : PhoneTab(t)' /\ Solo(t)'
    BY <2>0, <2>1 DEF PhoneInv, PhoneTab, Solo, Mirror
  <2> QED BY <2>2, <2>3, <2>4, <2>5 DEF BrowserInv, BrowserTyped, PhoneInv
<1> QED BY <1>1, <1>2

\* And where it begins.
LEMMA BrowserBegins == BrowserInit => BrowserInv
<1> SUFFICES ASSUME BrowserInit PROVE BrowserInv
  OBVIOUS
<1>0. MaxAddresses \in Nat /\ MaxBrowserFaults \in Nat
  BY BrowserAssumption
<1>1. Closed \in TabRecords /\ Closed.at = "closed"
  BY DEF Closed, TabRecords, Anyone
<1>2. Mounted \in SwitchRecords /\ Mounted.doing = "nothing" /\ Mounted.shows = "checking"
  BY <1>0 DEF Mounted, SwitchRecords, Shown
<1>3. TabsTyped /\ SwitchesTyped
  BY <1>1, <1>2 DEF BrowserInit, TabsTyped, SwitchesTyped
<1>4. JarTyped
  BY DEF BrowserInit, JarTyped, Anyone
<1>5. PhoneTyped
  <2>1. phoneRow \in [Address -> Anyone]
    BY DEF BrowserInit, Anyone
  <2>2. made \in 0..MaxAddresses /\ address \in 0..made /\ browserFaults \in 0..MaxBrowserFaults
    BY <1>0 DEF BrowserInit
  <2> QED BY <2>1, <2>2 DEF BrowserInit, PhoneTyped
<1>6. \A t \in Tabs : tab[t].at = "closed" /\ switch[t].doing = "nothing" /\ switch[t].shows = "checking"
  BY <1>1, <1>2 DEF BrowserInit
<1>7. WebInv
  <2>1. ActsAreTheirs
    BY BrowserAssumption DEF BrowserInit, ActsAreTheirs
  <2> QED BY <1>6, <2>1, BrowserAssumption DEF BrowserInit, WebInv, Coded, Loaded
<1>8. AskedFirst /\ OrphansHaveACause
  BY DEF BrowserInit, AskedFirst, OrphansHaveACause
<1>9. \A t \in Tabs : PhoneTab(t) /\ Mirror(t)
  BY <1>6 DEF BrowserInit, PhoneTab, Mirror
<1> QED BY <1>3, <1>4, <1>5, <1>7, <1>8, <1>9 DEF BrowserInv, BrowserTyped, PhoneInv, Solo

\* What the web tier does with a browser's cookie and switch: a deed is whoever's is logged in, a row whose
\* address is given up has a cause, the switch of the only room says what is, and nothing is asked before a click.
THEOREM BrowserHoldsAlways == BrowserSpec => []BrowserHolds
<1>1. BrowserSpec => []BrowserInv
  BY BrowserBegins, BrowserGoesOn, PTL DEF BrowserSpec
<1>2. ASSUME BrowserInv PROVE BrowserHolds
  <2>1. ActsAreTheirs /\ OrphansHaveACause /\ AskedFirst
    BY <1>2 DEF BrowserInv, WebInv, PhoneInv
  <2>2. SwitchIsTrue
    <3> SUFFICES ASSUME NEW t \in Tabs, Alone(t)
                 PROVE  /\ switch[t].shows = "off" => address = 0
                        /\ switch[t].shows = "on" => address # 0
                        /\ switch[t].shows = "on" /\ browserFaults = 0 /\ over = {} => phoneRow[address] # NoToken
      BY DEF SwitchIsTrue
    <3>1. Mirror(t) /\ switch[t].doing = "nothing"
      BY <1>2 DEF BrowserInv, PhoneInv, Solo, Alone, SwitchIdle
    <3> QED BY <3>1 DEF Mirror
  <2> QED BY <2>1, <2>2 DEF BrowserHolds
<1> QED BY <1>1, <1>2, PTL

\* The variables of the browser keep their types.
LEMMA BrowserTypes == BrowserSpec => []BrowserTypeOK
<1>1. BrowserInv => BrowserTypeOK
  BY BrowserTyping DEF BrowserInv
<1> QED BY <1>1, BrowserBegins, BrowserGoesOn, PTL DEF BrowserSpec

-----------------------------------------------------------------------------
(* Side by side. *)

\* The components beside one another: a behaviour of all of them is one of each.
LEMMA EachBegins == Init => OrderInit /\ IntInit /\ PushInit /\ OAuthInit /\ LeaseInit /\ SeatInit /\ BrowserInit
BY DEF Init

\* A step of one component is a step of it, and leaves the others as they are.
LEMMA EachGoesOn == [Next]_peopleVars =>
    /\ [OrderNext]_orderVars /\ [IntNext]_intVars /\ [PushNext]_pushVars /\ [OAuthNext]_oauthVars
    /\ [LeaseNext]_leaseVars /\ [SeatNext]_seatVars /\ [BrowserNext]_browserVars
<1>1. CASE UNCHANGED peopleVars
  BY <1>1 DEF peopleVars
<1>2. CASE Next
  BY <1>2 DEF Next
<1> QED BY <1>1, <1>2

\* So each keeps to its own specification.
LEMMA EachIsItself ==
    Spec => OrderSpec /\ IntSpec /\ PushSpec /\ OAuthSpec /\ LeaseSpec /\ SeatSpec /\ BrowserSpec
BY EachBegins, EachGoesOn, PTL DEF Spec, OrderSpec, IntSpec, PushSpec, OAuthSpec, LeaseSpec, SeatSpec, BrowserSpec

\* The standing orders, interrupts, tokens, leases and seats keep their promises in any behaviour in
\* which each of them moves as its own module says.
THEOREM PeopleKeepTheirWord ==
    Spec => [](BoundsHold /\ InterruptsHold /\ GrantIsOneChain /\ LeaseIsTrue /\ SeatsHold)
BY EachIsItself, BoundsHoldAlways, InterruptsHoldAlways, GrantIsOneChainHolds, LeaseIsTrueHolds, SeatsHoldAlways, PTL

\* A person's phones are told what push_sends says, and their browser shows what it is set to.
THEOREM DevicesHoldAlways == Spec => []DevicesHold
<1>1. SendsAreTrue /\ BrowserHolds => DevicesHold
  BY DEF DevicesHold
<1> QED BY <1>1, EachIsItself, SendsAreTrueHolds, BrowserHoldsAlways, PTL

\* What ends an order, a lease, a token or the credential behind them ends what they allowed.
THEOREM WhatEndsStaysEndedHolds == Spec => WhatEndsStaysEnded
BY EachIsItself, SettledIsOverHolds, OverIsForGoodHolds, AccessEndsHolds, PTL DEF WhatEndsStaysEnded

\* Every variable of the people's side keeps its type.
THEOREM TypeInvariant == Spec => []TypeOK
<1>1. PushTyped => PushTypeOK
  BY DEF PushTyped
<1>2. OrderTypeOK /\ IntTypeOK /\ PushTypeOK /\ OAuthTypeOK /\ LeaseTypeOK /\ SeatTypeOK /\ BrowserTypeOK => TypeOK
  BY DEF TypeOK
<1> QED BY <1>1, <1>2, EachIsItself, IntTyping, OrderTypesHold, IntTypes, PushTypes, OAuthTypes, LeaseTypes, SeatTypes,
       BrowserTypes, PTL
=============================================================================
