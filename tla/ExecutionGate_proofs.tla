----------------------- MODULE ExecutionGate_proofs -----------------------
(***************************************************************************)
(* Proofs about the permission engine for every set of action types,       *)
(* resources, globs, facts and members, and mandates of any size.          *)
(***************************************************************************)
EXTENDS ExecutionGate, TLAPS

\* The world keeps its types, so every mandate the engine is handed is a mandate.
LEMMA TypeInvariant == Spec => []TypeOK
<1> USE DEF TypeOK
<1>1. Init => TypeOK
  BY DEF Init
<1>2. TypeOK /\ [Next]_vars => TypeOK'
  <2> SUFFICES ASSUME TypeOK, [Next]_vars PROVE TypeOK'
    OBVIOUS
  <2>1. ASSUME NEW g \in Grants, GrantHost(g) PROVE TypeOK'
    BY <2>1 DEF GrantHost, Mandates
  <2>2. ASSUME NEW g \in Grants, ProtectHost(g) PROVE TypeOK'
    BY <2>2 DEF ProtectHost, Mandates
  <2>3. ASSUME NEW f \in Facts, FactProved(f) \/ FactLost(f) PROVE TypeOK'
    BY <2>3 DEF FactProved, FactLost
  <2>4. ASSUME NEW m \in Members, Join(m) PROVE TypeOK'
    BY <2>4 DEF Join
  <2>5. CASE Expire
    BY <2>5 DEF Expire
  <2>6. CASE UNCHANGED vars
    BY <2>6 DEF vars
  <2> QED BY <2>1, <2>2, <2>3, <2>4, <2>5, <2>6 DEF Next
<1> QED BY <1>1, <1>2, PTL DEF Spec

\* The execution gate allows what a grant covers and no protection touches.
LEMMA HostOpAllows ==
    ASSUME NEW r, NEW m, NEW known
    PROVE  HostOp(r, m, known).decision = "ALLOW" <=>
             /\ \E g \in Matching(r, m.host_scope) : FactsMet(g, known)
             /\ Matching(r, m.host_protected) = {}
BY DEF HostOp, Allow, Block, CoSign, Matching, GrantsFor, Applies

\* It asks for a signature where a protection applies, or where a command matches no pattern.
LEMMA HostOpAsks ==
    ASSUME NEW r, NEW m, NEW known
    PROVE  HostOp(r, m, known).decision = "CO_SIGN" <=>
             \/ \E g \in Matching(r, m.host_protected) : FactsMet(g, known)
             \/ /\ r.type \in ShellTypes
                /\ GrantsFor(r, m.host_scope \cup m.host_protected) # {}
                /\ Matching(r, m.host_scope \cup m.host_protected) = {}
BY DEF HostOp, Allow, Block, CoSign, Matching, GrantsFor, Applies

\* Before the gate, and for an abstract action, the facts are not looked at.
LEMMA EvaluateInForce ==
    ASSUME NEW r, NEW known
    PROVE  Evaluate(r, mandate, expired, roster, known) =
             IF InForce(r) /\ r.type \in HostTypes THEN HostOp(r, mandate, known)
             ELSE Evaluate(r, mandate, expired, roster, {})
BY DEF Evaluate, InForce

\* What the types say of a request and the grants of the mandate.
LEMMA RequestKinds ==
    ASSUME TypeOK, NEW r \in Requests
    PROVE  /\ r.type \in HostTypes => r.type \notin mandate.scope
           /\ r.type \notin HostTypes =>
                 /\ Matching(r, mandate.host_scope) = {}
                 /\ Matching(r, mandate.host_protected) = {}
                 /\ r.type \notin ShellTypes
           /\ \A g \in mandate.host_scope \cup mandate.host_protected : g.requires \subseteq Facts
<1>1. /\ mandate.host_scope \subseteq Grants /\ mandate.host_protected \subseteq Grants
      /\ mandate.scope \subseteq AbstractTypes /\ r.type \in AbstractTypes \cup HostTypes
  BY DEF TypeOK, Mandates, Requests
<1>2. \A g \in Grants : g.action \in HostTypes /\ g.requires \subseteq Facts
  BY DEF Grants
<1> QED BY <1>1, <1>2, TypesAssumption DEF Matching, GrantsFor

\* Deny by default: an ALLOW is a mandate in force, a grant covering the request with its facts
\* proved, and no protection touching it.
THEOREM AllowIsGrantedHolds == Spec => []AllowIsGranted
<1>1. ASSUME TypeOK, NEW r \in Requests
      PROVE  Verdict(r).decision = "ALLOW" <=>
               /\ InForce(r)
               /\ \/ r.type \in mandate.scope \ mandate.protected_actions
                  \/ /\ \E g \in Matching(r, mandate.host_scope) : FactsMet(g, facts)
                     /\ Matching(r, mandate.host_protected) = {}
  <2>1. CASE r.type \in HostTypes
    <3>1. Verdict(r).decision = "ALLOW" <=>
            InForce(r) /\ HostOp(r, mandate, facts).decision = "ALLOW"
      BY <2>1 DEF Verdict, Evaluate, InForce, Block
    <3> QED BY <1>1, <2>1, <3>1, HostOpAllows, RequestKinds
  <2>2. CASE r.type \notin HostTypes
    <3>1. Verdict(r).decision = "ALLOW" <=>
            InForce(r) /\ r.type \in mandate.scope \ mandate.protected_actions
      BY <2>2 DEF Verdict, Evaluate, InForce, Block, CoSign, Allow
    <3> QED BY <1>1, <2>2, <3>1, RequestKinds
  <2> QED BY <2>1, <2>2
<1>2. TypeOK => AllowIsGranted
  BY <1>1 DEF AllowIsGranted
<1> QED BY <1>2, TypeInvariant, PTL

\* A signature is asked for exactly what is protected, and for a command no pattern names; the
\* verdict then names who must sign.
THEOREM CoSignIsProtectedHolds == Spec => []CoSignIsProtected
<1>1. ASSUME TypeOK, NEW r \in Requests
      PROVE  Verdict(r).decision = "CO_SIGN" <=>
               /\ InForce(r)
               /\ \/ r.type \in mandate.scope \cap mandate.protected_actions
                  \/ \E g \in Matching(r, mandate.host_protected) : FactsMet(g, facts)
                  \/ /\ r.type \in ShellTypes
                     /\ GrantsFor(r, mandate.host_scope \cup mandate.host_protected) # {}
                     /\ Matching(r, mandate.host_scope \cup mandate.host_protected) = {}
  <2>1. CASE r.type \in HostTypes
    <3>1. Verdict(r).decision = "CO_SIGN" <=>
            InForce(r) /\ HostOp(r, mandate, facts).decision = "CO_SIGN"
      BY <2>1 DEF Verdict, Evaluate, InForce, Block
    <3> QED BY <1>1, <2>1, <3>1, HostOpAsks, RequestKinds
  <2>2. CASE r.type \notin HostTypes
    <3>1. Verdict(r).decision = "CO_SIGN" <=>
            InForce(r) /\ r.type \in mandate.scope \cap mandate.protected_actions
      BY <2>2 DEF Verdict, Evaluate, InForce, Block, CoSign, Allow
    <3> QED BY <1>1, <2>2, <3>1, RequestKinds
  <2> QED BY <2>1, <2>2
<1>2. ASSUME NEW r PROVE Verdict(r).decision = "CO_SIGN" <=> Verdict(r).signer # "none"
  BY DEF Verdict, Evaluate, HostOp, Allow, Block, CoSign
<1>3. TypeOK => CoSignIsProtected
  BY <1>1, <1>2 DEF CoSignIsProtected
<1> QED BY <1>3, TypeInvariant, PTL

\* CONDITION_UNMET is the one refusal that facts can lift, and they always can.
THEOREM NotYetIsNotNeverHolds == Spec => []NotYetIsNotNever
<1>1. ASSUME TypeOK, NEW r \in Requests, Verdict(r).decision = "BLOCK"
      PROVE  Verdict(r).reason = "CONDITION_UNMET" <=>
               \E known \in SUBSET Facts :
                   Evaluate(r, mandate, expired, roster, known).decision # "BLOCK"
  <2> DEFINE Op(known) == HostOp(r, mandate, known)
  <2>1. CASE InForce(r) /\ r.type \in HostTypes
    <3>1. \A known : Evaluate(r, mandate, expired, roster, known) = Op(known)
      BY <2>1 DEF Evaluate, InForce
    <3>2. Op(facts).decision = "BLOCK" /\ Verdict(r) = Op(facts)
      BY <1>1, <3>1 DEF Verdict
    <3>3. ASSUME Op(facts).reason = "CONDITION_UNMET" PROVE Op(Facts).decision # "BLOCK"
      <4>1. Matching(r, mandate.host_scope) # {} \/ Matching(r, mandate.host_protected) # {}
        BY <3>3 DEF HostOp, Allow, Block, CoSign, Matching, GrantsFor, Applies
      <4>2. \A g \in Matching(r, mandate.host_scope) \cup Matching(r, mandate.host_protected) :
               FactsMet(g, Facts)
        BY <1>1, RequestKinds DEF FactsMet, Matching, GrantsFor
      <4> QED BY <4>1, <4>2, HostOpAllows, HostOpAsks
    <3>4. ASSUME NEW known \in SUBSET Facts, Op(known).decision # "BLOCK",
                 Op(facts).reason # "CONDITION_UNMET"
          PROVE  FALSE
      <4>1. Matching(r, mandate.host_scope) = {} /\ Matching(r, mandate.host_protected) = {}
        BY <3>2, <3>4 DEF HostOp, Allow, Block, CoSign, Matching, GrantsFor, Applies
      <4>2. Op(known) = Op(facts)
        BY <4>1 DEF HostOp, Matching, GrantsFor, Applies
      <4> QED BY <3>2, <3>4, <4>2
    <3> QED BY <3>1, <3>2, <3>3, <3>4
  <2>2. CASE ~(InForce(r) /\ r.type \in HostTypes)
    <3>1. \A known : Evaluate(r, mandate, expired, roster, known) = Verdict(r)
      BY <2>2, EvaluateInForce DEF Verdict
    <3>2. Verdict(r).reason # "CONDITION_UNMET"
      BY <2>2 DEF Verdict, Evaluate, InForce, Block, CoSign, Allow
    <3> QED BY <1>1, <3>1, <3>2
  <2> QED BY <2>1, <2>2
<1>2. TypeOK => NotYetIsNotNever
  BY <1>1 DEF NotYetIsNotNever
<1> QED BY <1>2, TypeInvariant, PTL

\* Learning a fact never takes authority away.
THEOREM FactsOnlyOpenHolds == Spec => FactsOnlyOpen
<1>1. ASSUME NEW r, NEW m, NEW known, NEW more, known \subseteq more
      PROVE  /\ HostOp(r, m, known).decision = "ALLOW" => HostOp(r, m, more).decision = "ALLOW"
             /\ HostOp(r, m, known).decision = "CO_SIGN" => HostOp(r, m, more).decision = "CO_SIGN"
  <2>1. \A g : FactsMet(g, known) => FactsMet(g, more)
    BY <1>1 DEF FactsMet
  <2> DEFINE Held == Matching(r, m.host_scope)
             Kept == Matching(r, m.host_protected)
             Bare == /\ r.type \in ShellTypes
                     /\ GrantsFor(r, m.host_scope \cup m.host_protected) # {}
                     /\ Matching(r, m.host_scope \cup m.host_protected) = {}
  <2>2. ASSUME NEW k
        PROVE  /\ HostOp(r, m, k).decision = "ALLOW"
                    <=> (\E g \in Held : FactsMet(g, k)) /\ Kept = {}
               /\ HostOp(r, m, k).decision = "CO_SIGN"
                    <=> (\E g \in Kept : FactsMet(g, k)) \/ Bare
    <3>1. HostOp(r, m, k).decision = "ALLOW" <=> (\E g \in Held : FactsMet(g, k)) /\ Kept = {}
      BY HostOpAllows, Zenon
    <3>2. HostOp(r, m, k).decision = "CO_SIGN" <=> (\E g \in Kept : FactsMet(g, k)) \/ Bare
      BY HostOpAsks, Zenon
    <3> QED BY <3>1, <3>2
  <2> HIDE DEF Held, Kept, Bare
  <2> QED BY <2>1, <2>2
<1>2. ASSUME NEW r, NEW m, NEW known
      PROVE  HostOp(r, m, known).decision \in {"BLOCK", "CO_SIGN", "ALLOW"}
  BY DEF HostOp, Allow, Block, CoSign
<1>3. ASSUME NEW r PROVE Verdict(r).decision \in {"BLOCK", "CO_SIGN", "ALLOW"}
  BY <1>2 DEF Verdict, Evaluate, Allow, Block, CoSign
<1>4. ASSUME facts \subseteq facts', UNCHANGED <<mandate, expired, roster>>, NEW r \in Requests
      PROVE  Rank(Verdict(r)'.decision) >= Rank(Verdict(r).decision)
  <2>1. CASE InForce(r) /\ r.type \in HostTypes
    <3>1. Verdict(r) = HostOp(r, mandate, facts) /\ Verdict(r)' = HostOp(r, mandate, facts')
      BY <1>4, <2>1 DEF Verdict, Evaluate, InForce
    <3> QED BY <1>1, <1>2, <1>4, <3>1 DEF Rank
  <2>2. CASE ~(InForce(r) /\ r.type \in HostTypes)
    <3>1. Verdict(r)' = Verdict(r)
      BY <1>4, <2>2, EvaluateInForce DEF Verdict
    <3> QED BY <1>3, <3>1 DEF Rank
  <2> QED BY <2>1, <2>2
<1>5. [Next]_vars => [facts # facts' /\ facts \subseteq facts' /\ UNCHANGED <<mandate, expired, roster>> =>
          \A r \in Requests : Rank(Verdict(r)'.decision) >= Rank(Verdict(r).decision)]_vars
  BY <1>4
<1> QED BY <1>5, PTL DEF Spec, FactsOnlyOpen

\* Protecting an operation never allows anything that was not allowed before.
THEOREM ProtectionNeverAllowsHolds == Spec => ProtectionNeverAllows
<1>1. ASSUME TypeOK, AllowIsGranted, AllowIsGranted', NEW g \in Grants, ProtectHost(g),
             NEW r \in Requests, Verdict(r)'.decision = "ALLOW"
      PROVE  Verdict(r).decision = "ALLOW"
  <2>1. /\ mandate' = [mandate EXCEPT !.host_protected = @ \cup {g}]
        /\ UNCHANGED <<expired, roster, facts>>
        /\ mandate \in Mandates
    BY <1>1 DEF ProtectHost, TypeOK
  <2>2. /\ mandate'.loaded = mandate.loaded /\ mandate'.sig_valid = mandate.sig_valid
        /\ mandate'.member = mandate.member /\ mandate'.roster_only = mandate.roster_only
        /\ mandate'.scope = mandate.scope
        /\ mandate'.protected_actions = mandate.protected_actions
        /\ mandate'.host_scope = mandate.host_scope
        /\ mandate.host_protected \subseteq mandate'.host_protected
    BY <2>1 DEF Mandates
  <2>3. InForce(r)' <=> InForce(r)
    BY <2>1, <2>2 DEF InForce
  <2>4. /\ Matching(r, mandate'.host_scope) = Matching(r, mandate.host_scope)
        /\ Matching(r, mandate.host_protected) \subseteq Matching(r, mandate'.host_protected)
    BY <2>2 DEF Matching, GrantsFor
  <2>5. /\ InForce(r)'
        /\ \/ r.type \in mandate'.scope \ mandate'.protected_actions
           \/ /\ \E h \in Matching(r, mandate'.host_scope) : FactsMet(h, facts')
              /\ Matching(r, mandate'.host_protected) = {}
    BY <1>1 DEF AllowIsGranted
  <2> QED BY <1>1, <2>1, <2>2, <2>3, <2>4, <2>5 DEF AllowIsGranted
<1>2. TypeOK /\ AllowIsGranted /\ AllowIsGranted' /\ [Next]_vars
        => [mandate # mandate' /\ (\E g \in Grants : ProtectHost(g)) =>
              \A r \in Requests : Verdict(r)'.decision = "ALLOW" => Verdict(r).decision = "ALLOW"]_vars
  BY <1>1
<1> QED BY <1>2, TypeInvariant, AllowIsGrantedHolds, PTL DEF Spec, ProtectionNeverAllows

\* Every verdict means what the engine promises of it, for every mandate, roster and set of facts.
THEOREM VerdictIsMeantHolds == Spec => []VerdictIsMeant
  BY AllowIsGrantedHolds, CoSignIsProtectedHolds, NotYetIsNotNeverHolds, PTL DEF VerdictIsMeant

\* Verdicts move one way, for every mandate, roster and set of facts.
THEOREM VerdictsMoveHolds == Spec => VerdictsMove
  BY FactsOnlyOpenHolds, ProtectionNeverAllowsHolds DEF VerdictsMove
=============================================================================
