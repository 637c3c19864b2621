---------------------------- MODULE OAuthGrants ------------------------------
(***************************************************************************)
(* The login of a subscription (oauth.ts and its routes in server.ts): a   *)
(* member consents with a credential, the code is exchanged once for an    *)
(* access and a refresh token, a refresh token is exchanged for the next   *)
(* pair, and a family of tokens is revoked by its holder or by the reuse   *)
(* of a refresh token.  The consuming UPDATE of an exchange and the INSERT *)
(* of the new pair are two statements.                                     *)
(*                                                                         *)
(* Abstracted: secrets, hashes, PKCE and the client (an exchange matches   *)
(* its code or refresh token, or does not); a family and its code are one  *)
(* grant; pairs are numbered.                                              *)
(***************************************************************************)
EXTENDS Naturals

CONSTANTS
    Grants,         \* consents, each with its code and its family of tokens
    TokenCalls,     \* requests to /token
    McpCalls,       \* requests to /mcp with an access token
    Pairs,          \* the pairs of tokens a family can come to have: one for each request is enough
    MaxLogouts      \* bound: revocations, of a family or of the credential

ASSUME LogoutsAssumption == MaxLogouts \in Nat /\ Grants # {} /\ Pairs # {}

Unissued == [p \in Pairs |-> "none"]

VARIABLES
    credential, \* the prm_ credential the consents are given with: live or dead
    code,       \* grant -> none, open, used or expired
    access,     \* grant -> pair -> the row of its access token
    refresh,    \* grant -> pair -> the row of its refresh token
    tokenCall,  \* the requests to /token
    mcpCall,    \* the requests to /mcp
    severed,    \* grant -> "no", or whether a new pair was on its way when the family was revoked
    logouts

oauthVars == <<credential, code, access, refresh, tokenCall, mcpCall, severed, logouts>>

TokenStates == {"none", "live", "revoked", "expired"}

OAuthTypeOK ==
    /\ credential \in {"live", "dead"} /\ code \in [Grants -> {"none", "open", "used", "expired"}]
    /\ access \in [Grants -> [Pairs -> TokenStates]] /\ refresh \in [Grants -> [Pairs -> TokenStates]]
    /\ tokenCall \in [TokenCalls -> [pc : {"none", "issue", "lookup", "kill", "over"},
                                     grant : Grants, pair : Pairs]]
    /\ mcpCall \in [McpCalls -> [pc : {"none", "acting", "over"}, grant : Grants]]
    /\ severed \in [Grants -> {"no", "idle", "issuing"}] /\ logouts \in 0..MaxLogouts
    /\ \A g \in Grants, p \in Pairs : access[g][p] = "none" <=> refresh[g][p] = "none"

SomeGrant == CHOOSE g \in Grants : TRUE
SomePair == CHOOSE p \in Pairs : TRUE

OAuthInit ==
    /\ credential = "live" /\ logouts = 0
    /\ code = [g \in Grants |-> "none"] /\ severed = [g \in Grants |-> "no"]
    /\ access = [g \in Grants |-> Unissued] /\ refresh = [g \in Grants |-> Unissued]
    /\ tokenCall = [c \in TokenCalls |-> [pc |-> "none", grant |-> SomeGrant, pair |-> SomePair]]
    /\ mcpCall = [m \in McpCalls |-> [pc |-> "none", grant |-> SomeGrant]]

-----------------------------------------------------------------------------
(* The code. *)

\* POST /authorize/consent: a live credential, a registered client; GET /authorize only shows.
Consent(g) ==
    /\ credential = "live" /\ code[g] = "none"
    /\ code' = [code EXCEPT ![g] = "open"]
    /\ UNCHANGED <<credential, access, refresh, tokenCall, mcpCall, severed, logouts>>

CodeExpires(g) ==
    /\ code[g] = "open" /\ code' = [code EXCEPT ![g] = "expired"]
    /\ UNCHANGED <<credential, access, refresh, tokenCall, mcpCall, severed, logouts>>

At(c, pc, g, p) == tokenCall' = [tokenCall EXCEPT ![c] = [pc |-> pc, grant |-> g, pair |-> p]]
CallEnds(c) == tokenCall' = [tokenCall EXCEPT ![c].pc = "over"]

\* Mutant: any code that was issued is accepted.
AcceptedAgain(g) == code[g] \in {"open", "used"}
Accepted(g) == code[g] = "open"

\* exchangeCode: the UPDATE spends an open code; a client, address or verifier that does not
\* match ends the request with the code spent.
ExchangeCode(c, g) ==
    /\ tokenCall[c].pc = "none" /\ code[g] # "none"
    /\ IF Accepted(g)
       THEN code' = [code EXCEPT ![g] = "used"] /\ (At(c, "issue", g, SomePair) \/ At(c, "over", g, SomePair))
       ELSE UNCHANGED code /\ At(c, "over", g, SomePair)
    /\ UNCHANGED <<credential, access, refresh, mcpCall, severed, logouts>>

-----------------------------------------------------------------------------
(* The tokens. *)

Issuing(g) == {c \in TokenCalls : tokenCall[c].pc = "issue" /\ tokenCall[c].grant = g}

\* Mutant: the rows of the access tokens are deleted, and the refresh tokens left.
RowsDeleted(rows, kind) == IF kind = "access" THEN Unissued ELSE rows
RowsRevoked(rows, kind) == [p \in Pairs |-> IF rows[p] = "none" THEN "none" ELSE "revoked"]

\* revokeFamily: one statement over the rows there are.
FamilyRevoked(g) ==
    /\ access' = [access EXCEPT ![g] = RowsRevoked(@, "access")]
    /\ refresh' = [refresh EXCEPT ![g] = RowsRevoked(@, "refresh")]
    /\ severed' = [severed EXCEPT ![g] = IF Issuing(g) = {} /\ @ # "issuing" THEN "idle" ELSE "issuing"]

\* issueTokens: one statement inserts the pair.
IssueTokens(c) ==
    LET g == tokenCall[c].grant IN
    /\ tokenCall[c].pc = "issue"
    /\ \E p \in Pairs : /\ refresh[g][p] = "none"
                       /\ access' = [access EXCEPT ![g][p] = "live"]
                       /\ refresh' = [refresh EXCEPT ![g][p] = "live"]
    /\ CallEnds(c)
    /\ UNCHANGED <<credential, code, mcpCall, severed, logouts>>

\* exchangeRefresh: the UPDATE rotates a live token of this client; another's, or one that is
\* not live, is a miss ...
RotateRefresh(c, g, p) ==
    /\ tokenCall[c].pc = "none" /\ refresh[g][p] # "none"
    /\ \/ /\ refresh[g][p] = "live" /\ refresh' = [refresh EXCEPT ![g][p] = "revoked"]
          /\ At(c, "issue", g, p)
       \/ At(c, "lookup", g, p) /\ UNCHANGED refresh
    /\ UNCHANGED <<credential, code, access, mcpCall, severed, logouts>>

\* ... that looks again: a token that is revoked by now has been used before ...
LookReused(c) ==
    /\ tokenCall[c].pc = "lookup"
    /\ IF refresh[tokenCall[c].grant][tokenCall[c].pair] = "revoked"
       THEN tokenCall' = [tokenCall EXCEPT ![c].pc = "kill"] ELSE CallEnds(c)
    /\ UNCHANGED <<credential, code, access, refresh, mcpCall, severed, logouts>>

\* ... and ends its family.
KillFamily(c) ==
    /\ tokenCall[c].pc = "kill" /\ FamilyRevoked(tokenCall[c].grant) /\ CallEnds(c)
    /\ UNCHANGED <<credential, code, mcpCall, logouts>>

\* POST /revoke, with either token of the family.
RevokeToken(g) ==
    /\ logouts < MaxLogouts /\ logouts' = logouts + 1
    /\ \E p \in Pairs : refresh[g][p] # "none"
    /\ FamilyRevoked(g)
    /\ UNCHANGED <<credential, code, tokenCall, mcpCall>>

\* revokeCredential, or its expiry.
CredentialEnds ==
    /\ credential = "live" /\ logouts < MaxLogouts /\ logouts' = logouts + 1
    /\ credential' = "dead"
    /\ UNCHANGED <<code, access, refresh, tokenCall, mcpCall, severed>>

TokenExpires(g, p) ==
    /\ \/ access[g][p] = "live" /\ access' = [access EXCEPT ![g][p] = "expired"] /\ UNCHANGED refresh
       \/ refresh[g][p] = "live" /\ refresh' = [refresh EXCEPT ![g][p] = "expired"] /\ UNCHANGED access
    /\ UNCHANGED <<credential, code, tokenCall, mcpCall, severed, logouts>>

\* A request dies with the process, or a statement throws.
CallDies(c) ==
    /\ tokenCall[c].pc \in {"issue", "lookup", "kill"} /\ CallEnds(c)
    /\ UNCHANGED <<credential, code, access, refresh, mcpCall, severed, logouts>>

-----------------------------------------------------------------------------
(* POST /mcp. *)

\* Mutant: the credential behind the token is not joined.
AuthenticatesAlone(g, p) == access[g][p] = "live"

\* verifyOAuthToken: a live access token, whose credential still lives.
Authenticates(g, p) == access[g][p] = "live" /\ credential = "live"

McpVerify(m, g, p) ==
    /\ mcpCall[m].pc = "none" /\ access[g][p] # "none"
    /\ mcpCall' = [mcpCall EXCEPT ![m] = [pc |-> IF Authenticates(g, p) THEN "acting" ELSE "over",
                                          grant |-> g]]
    /\ UNCHANGED <<credential, code, access, refresh, tokenCall, severed, logouts>>

\* handleMcpRequest: the tool runs a command of the room as the member.
McpAct(m) ==
    /\ mcpCall[m].pc = "acting" /\ mcpCall' = [mcpCall EXCEPT ![m].pc = "over"]
    /\ UNCHANGED <<credential, code, access, refresh, tokenCall, severed, logouts>>

OAuthNext ==
    \/ \E g \in Grants : Consent(g) \/ CodeExpires(g) \/ RevokeToken(g)
    \/ \E g \in Grants, p \in Pairs : TokenExpires(g, p)
    \/ \E c \in TokenCalls : IssueTokens(c) \/ LookReused(c) \/ KillFamily(c) \/ CallDies(c)
    \/ \E c \in TokenCalls, g \in Grants : ExchangeCode(c, g) \/ \E p \in Pairs : RotateRefresh(c, g, p)
    \/ \E m \in McpCalls : McpAct(m) \/ \E g \in Grants, p \in Pairs : McpVerify(m, g, p)
    \/ CredentialEnds

OAuthSpec == OAuthInit /\ [][OAuthNext]_oauthVars

-----------------------------------------------------------------------------
(* Properties. *)

\* Rotation: however many requests present a code or a refresh token at once, a family never
\* has more than one live refresh token, counting the one that is about to be inserted.
OneLiveRefresh == \A g \in Grants :
    /\ \A p, q \in Pairs : refresh[g][p] = "live" /\ refresh[g][q] = "live" => p = q
    /\ \A c, d \in Issuing(g) : c = d
    /\ Issuing(g) # {} => \A p \in Pairs : refresh[g][p] # "live"

\* "The entire grant is severed": a family revoked while no pair was on its way to it has no
\* live token ever again, and none is coming.
SeveredIsSevered == \A g \in Grants : severed[g] = "idle" =>
    /\ Issuing(g) = {}
    /\ \A p \in Pairs : access[g][p] # "live" /\ refresh[g][p] # "live"

\* The promise without that condition ("one /revoke actually cuts off a compromised
\* subscription", "the thief and the victim both lose the grant"): a revoked family has no
\* live token.
RevocationSevers == \A g \in Grants : severed[g] # "no" =>
    \A p \in Pairs : access[g][p] # "live"

\* A credential that ends, or a family severed, ends the access under it: from then on no call
\* starts to act, and those that were verified before run out.
AccessEnds == [][\A m \in McpCalls :
    mcpCall[m].pc # "acting" /\ mcpCall'[m].pc = "acting" =>
        credential = "live" /\ severed[mcpCall'[m].grant] # "idle"]_oauthVars

\* A grant is one chain of tokens, and it can be cut.
GrantIsOneChain == OneLiveRefresh /\ SeveredIsSevered
=============================================================================
