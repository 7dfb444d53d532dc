---------------------------- MODULE AgentAccess ----------------------------
(***************************************************************************)
(* The authority of an external agent: an integration, its OAuth grants    *)
(* and service credentials, the codes and refresh tokens that are spent    *)
(* once, and the calls made with delegated tokens.  Handlers serialise on  *)
(* the integration's row and share-lock the people who answer for it; what *)
(* they read before they hold the row may have changed.  Expiry is left    *)
(* out: it only refuses what here may always be left undone.               *)
(***************************************************************************)
EXTENDS Integers, FiniteSets

CONSTANTS
    People,             \* staff who answer for the integration or consent
    Grants, Credentials,
    Exchanges,          \* requests to the token endpoint in flight at once
    Calls,              \* tool calls in flight at once
    NoCall, NoOne,
    CallLimits,         \* values an operator may give concurrent_calls
    MaxRefreshes,       \* bound on the refresh tokens of a grant
    MaxAgentEdits       \* bound on administrative changes

Origins == Grants \cup Credentials

ASSUME AgentAssumption ==
    /\ Grants \cap Credentials = {} /\ Origins # {}
    /\ NoCall \notin Calls /\ NoOne \notin People
    /\ CallLimits # {} /\ CallLimits \subseteq Nat \ {0}
    /\ MaxRefreshes \in Nat \ {0}
    /\ MaxAgentEdits \in Nat

\* Spendable tokens of a grant: 0 is its code, the others its refresh tokens.
Artifacts == 0..MaxRefreshes

Integration ==
    [state : {"paused", "active", "revoked"}, scope : BOOLEAN, responsible : People,
     concurrent : CallLimits]
Origin == [state : {"none", "live", "revoked"}, user : People \cup {NoOne}]
ExchangeRow ==
    [busy : BOOLEAN, origin : Origins, artifact : Artifacts, spent : BOOLEAN]
CallRow == [stage : {"idle", "delegated", "reserved", "acting", "ending"}, origin : Origins]

VARIABLES
    integration,
    eligiblePeople, \* active human staff
    origin,         \* grants and credentials
    unspent,        \* of each grant, the artifacts not consumed
    issued,         \* of each grant, how many refresh tokens it has had
    access,         \* origins that an access token was issued for
    exchange, call,
    leases, staleLeases,
    limitCut,       \* was concurrent lowered since a call was last reserved? (history)
    replayed,       \* grants with an artifact presented twice (history)
    freshPage,      \* does the operator's page show the row's revision?
    agentEdits

agentVars ==
    <<integration, eligiblePeople, origin, unspent, issued, access, exchange, call,
      leases, staleLeases, limitCut, replayed, freshPage, agentEdits>>

AnyOrigin == CHOOSE o \in Origins : TRUE
FreeExchange == [busy |-> FALSE, origin |-> AnyOrigin, artifact |-> 0, spent |-> FALSE]
NoCallRow == [stage |-> "idle", origin |-> AnyOrigin]

AgentInit ==
    /\ \E p \in People, n \in CallLimits :
         integration = [state |-> "paused", scope |-> TRUE, responsible |-> p, concurrent |-> n]
    /\ eligiblePeople = People
    /\ origin = [o \in Origins |-> [state |-> "none", user |-> NoOne]]
    /\ unspent = [g \in Grants |-> {}]
    /\ issued = [g \in Grants |-> 0]
    /\ access = {}
    /\ exchange = [x \in Exchanges |-> FreeExchange]
    /\ call = [c \in Calls |-> NoCallRow]
    /\ leases = {}
    /\ staleLeases = {}
    /\ limitCut = FALSE
    /\ replayed = {}
    /\ freshPage = FALSE
    /\ agentEdits = 0

\* The integration's row is locked until the call's transaction ends; so are,
\* for share, the rows of the people it looked at.
Acting == {c \in Calls : call[c].stage = "acting"}
RowFree == Acting = {}

\* integration(): active, its responsible eligible
IntegrationLive ==
    /\ integration.state = "active"
    /\ integration.responsible \in eligiblePeople

\* validate(), from the lock on
ValidOrigin(o) ==
    /\ IntegrationLive
    /\ origin[o].state = "live"
    /\ o \in Grants => origin[o].user \in eligiblePeople

-----------------------------------------------------------------------------
(* Administration.                                                         *)

AgentEdit == agentEdits < MaxAgentEdits /\ agentEdits' = agentEdits + 1

OpenPage ==
    /\ ~freshPage
    /\ freshPage' = TRUE
    /\ UNCHANGED <<integration, eligiblePeople, origin, unspent, issued, access, exchange,
                   call, leases, staleLeases, limitCut, replayed, agentEdits>>

\* check_version, then the refusal of a revoked integration
Editable == RowFree /\ freshPage /\ integration.state # "revoked"

Revised(row) ==
    /\ Editable
    /\ AgentEdit
    /\ integration' = row
    /\ limitCut' = (limitCut \/ row.concurrent < integration.concurrent)
    /\ freshPage' = FALSE
    /\ UNCHANGED <<eligiblePeople, origin, unspent, issued, access, exchange, call, leases,
                   staleLeases, replayed>>

Transition(state) ==
    /\ state = "active" => integration.responsible \in eligiblePeople
    /\ Revised([integration EXCEPT !.state = state])

\* The new configuration may drop the scope, or bring it back, and set another
\* limit of concurrent calls, whatever leases are held.
EditIntegration(scope, n) ==
    Revised([integration EXCEPT !.scope = scope, !.concurrent = n])

TransferResponsibility(p) ==
    /\ p \in eligiblePeople
    /\ Revised([integration EXCEPT !.responsible = p])

IssueCredential(k) ==
    /\ RowFree
    /\ integration.state # "revoked"
    /\ integration.responsible \in eligiblePeople
    /\ origin[k].state = "none"
    /\ origin' = [origin EXCEPT ![k].state = "live"]
    /\ UNCHANGED <<integration, eligiblePeople, unspent, issued, access, exchange, call,
                   leases, staleLeases, limitCut, replayed, freshPage, agentEdits>>

RevokeOrigin(o) ==
    /\ RowFree
    /\ origin[o].state # "none"
    /\ AgentEdit
    /\ origin' = [origin EXCEPT ![o].state = "revoked"]
    /\ UNCHANGED <<integration, eligiblePeople, unspent, issued, access, exchange, call,
                   leases, staleLeases, limitCut, replayed, freshPage>>

\* The people a call's transaction holds share locks on.
LockedPeople ==
    IF RowFree THEN {}
    ELSE {integration.responsible} \cup {origin[call[c].origin].user : c \in Acting}

\* A person loses the staff role or the account, or gets them back.
PersonChanges(p) ==
    /\ p \notin LockedPeople
    /\ AgentEdit
    /\ eligiblePeople' = IF p \in eligiblePeople THEN eligiblePeople \ {p} ELSE eligiblePeople \cup {p}
    /\ UNCHANGED <<integration, origin, unspent, issued, access, exchange, call, leases,
                   staleLeases, limitCut, replayed, freshPage>>

-----------------------------------------------------------------------------
(* OAuth.                                                                  *)

\* A member of the staff consents: a grant, and its code.
Consent(p, g) ==
    /\ RowFree /\ IntegrationLive /\ integration.scope
    /\ p \in eligiblePeople
    /\ origin[g].state = "none"
    /\ origin' = [origin EXCEPT ![g] = [state |-> "live", user |-> p]]
    /\ unspent' = [unspent EXCEPT ![g] = {0}]
    /\ UNCHANGED <<integration, eligiblePeople, issued, access, exchange, call, leases,
                   staleLeases, limitCut, replayed, freshPage, agentEdits>>

\* The token, or the credential, is first read without the lock.
BeginExchange(x, o, n) ==
    /\ ~exchange[x].busy
    /\ IF o \in Grants
       THEN origin[o].state # "none" /\ n <= issued[o]
       ELSE origin[o].state = "live" /\ n = 0
    /\ exchange' = [exchange EXCEPT ![x] =
         [busy |-> TRUE, origin |-> o, artifact |-> n,
          spent |-> o \in Grants /\ n \notin unspent[o]]]
    /\ UNCHANGED <<integration, eligiblePeople, origin, unspent, issued, access, call, leases,
                   staleLeases, limitCut, replayed, freshPage, agentEdits>>

\* consumed_at is read again under the lock.
Spent(e) == e.artifact \notin unspent[e.origin]

ExchangeEnds(x) == exchange' = [exchange EXCEPT ![x] = FreeExchange]

\* The artifact is consumed, an access token and a refresh token inserted.
ExchangeArtifact(x) ==
    LET e == exchange[x]
        g == e.origin
    IN
    /\ e.busy /\ g \in Grants
    /\ RowFree /\ ValidOrigin(g)
    /\ ~Spent(e)
    /\ issued[g] < MaxRefreshes
    /\ issued' = [issued EXCEPT ![g] = @ + 1]
    /\ unspent' = [unspent EXCEPT ![g] = (@ \ {e.artifact}) \cup {issued[g] + 1}]
    /\ access' = access \cup {g}
    /\ ExchangeEnds(x)
    /\ UNCHANGED <<integration, eligiblePeople, origin, call, leases, staleLeases, limitCut, replayed,
                   freshPage, agentEdits>>

\* A second use revokes the grant; the answer is an error that commits.
AfterReplay_RolledBack(g) == origin
AfterReplay(g) == [origin EXCEPT ![g].state = "revoked"]

ReplayArtifact(x) ==
    LET e == exchange[x] IN
    /\ e.busy /\ e.origin \in Grants
    /\ RowFree /\ ValidOrigin(e.origin)
    /\ Spent(e)
    /\ origin' = AfterReplay(e.origin)
    /\ replayed' = replayed \cup {e.origin}
    /\ ExchangeEnds(x)
    /\ UNCHANGED <<integration, eligiblePeople, unspent, issued, access, call, leases,
                   staleLeases, limitCut, freshPage, agentEdits>>

\* client_credentials does not look at the credential again.
ExchangeCredential(x) ==
    LET e == exchange[x] IN
    /\ e.busy /\ e.origin \in Credentials
    /\ RowFree /\ IntegrationLive
    /\ access' = access \cup {e.origin}
    /\ ExchangeEnds(x)
    /\ UNCHANGED <<integration, eligiblePeople, origin, unspent, issued, call, leases,
                   staleLeases, limitCut, replayed, freshPage, agentEdits>>

ExchangeRefused(x) ==
    /\ exchange[x].busy
    /\ ExchangeEnds(x)
    /\ UNCHANGED <<integration, eligiblePeople, origin, unspent, issued, access, call, leases,
                   staleLeases, limitCut, replayed, freshPage, agentEdits>>

\* /oauth/revoke takes any refresh token of the grant, consumed ones too.
RevokeByToken(g) ==
    /\ RowFree /\ ValidOrigin(g)
    /\ issued[g] > 0
    /\ origin' = [origin EXCEPT ![g].state = "revoked"]
    /\ UNCHANGED <<integration, eligiblePeople, unspent, issued, access, exchange, call,
                   leases, staleLeases, limitCut, replayed, freshPage, agentEdits>>

-----------------------------------------------------------------------------
(* Tool calls.                                                             *)

Staged(c, stage) == call' = [call EXCEPT ![c].stage = stage]

Delegate(c, o) ==
    /\ call[c].stage = "idle" /\ c \notin leases
    /\ o \in access
    /\ RowFree /\ ValidOrigin(o)
    /\ call' = [call EXCEPT ![c] = [stage |-> "delegated", origin |-> o]]
    /\ UNCHANGED <<integration, eligiblePeople, origin, unspent, issued, access, exchange,
                   leases, staleLeases, limitCut, replayed, freshPage, agentEdits>>

\* Leases that ran out are deleted before the others are counted.
RoomForLease == Cardinality(leases \ staleLeases) < integration.concurrent

ReserveCall(c) ==
    /\ call[c].stage = "delegated"
    /\ RowFree /\ ValidOrigin(call[c].origin) /\ integration.scope
    /\ RoomForLease
    /\ leases' = (leases \ staleLeases) \cup {c}
    /\ staleLeases' = {}
    /\ limitCut' = FALSE
    /\ Staged(c, "reserved")
    /\ UNCHANGED <<integration, eligiblePeople, origin, unspent, issued, access, exchange,
                   replayed, freshPage, agentEdits>>

\* The token, a quota, the scope or the lack of a lease refuses the call.
RefuseCall(c) ==
    /\ call[c].stage = "delegated"
    /\ call' = [call EXCEPT ![c] = NoCallRow]
    /\ leases' = IF RowFree THEN leases \ staleLeases ELSE leases
    /\ staleLeases' = IF RowFree THEN {} ELSE staleLeases
    /\ UNCHANGED <<integration, eligiblePeople, origin, unspent, issued, access, exchange,
                   limitCut, replayed, freshPage, agentEdits>>

\* A second transaction checks everything again.
BeginAct(c) ==
    /\ call[c].stage = "reserved"
    /\ RowFree /\ ValidOrigin(call[c].origin) /\ integration.scope
    /\ Staged(c, "acting")
    /\ UNCHANGED <<integration, eligiblePeople, origin, unspent, issued, access, exchange,
                   leases, staleLeases, limitCut, replayed, freshPage, agentEdits>>

\* The operation commits or fails, or the second check refuses the call.
EndAct(c) ==
    /\ call[c].stage \in {"reserved", "acting"}
    /\ Staged(c, "ending")
    /\ UNCHANGED <<integration, eligiblePeople, origin, unspent, issued, access, exchange,
                   leases, staleLeases, limitCut, replayed, freshPage, agentEdits>>

ReleaseCall(c) ==
    /\ call[c].stage = "ending"
    /\ call' = [call EXCEPT ![c] = NoCallRow]
    /\ leases' = leases \ {c}
    /\ staleLeases' = staleLeases \ {c}
    /\ UNCHANGED <<integration, eligiblePeople, origin, unspent, issued, access, exchange,
                   limitCut, replayed, freshPage, agentEdits>>

\* The API process dies, or the release does: the lease stays behind.
CallDies(c) ==
    /\ call[c].stage # "idle"
    /\ call' = [call EXCEPT ![c] = NoCallRow]
    /\ UNCHANGED <<integration, eligiblePeople, origin, unspent, issued, access, exchange,
                   leases, staleLeases, limitCut, replayed, freshPage, agentEdits>>

\* Forty-five seconds are over, whether or not the call is.
LeaseRunsOut(c) ==
    /\ c \in leases \ staleLeases
    /\ staleLeases' = staleLeases \cup {c}
    /\ UNCHANGED <<integration, eligiblePeople, origin, unspent, issued, access, exchange,
                   call, leases, limitCut, replayed, freshPage, agentEdits>>

-----------------------------------------------------------------------------
AgentNext ==
    \/ OpenPage
    \/ \E state \in {"paused", "active", "revoked"} : Transition(state)
    \/ \E scope \in BOOLEAN, n \in CallLimits : EditIntegration(scope, n)
    \/ \E p \in People : TransferResponsibility(p) \/ PersonChanges(p)
    \/ \E k \in Credentials : IssueCredential(k)
    \/ \E o \in Origins : RevokeOrigin(o)
    \/ \E p \in People, g \in Grants : Consent(p, g)
    \/ \E x \in Exchanges, o \in Origins, n \in Artifacts : BeginExchange(x, o, n)
    \/ \E x \in Exchanges :
         ExchangeArtifact(x) \/ ReplayArtifact(x) \/ ExchangeCredential(x) \/ ExchangeRefused(x)
    \/ \E g \in Grants : RevokeByToken(g)
    \/ \E c \in Calls, o \in Origins : Delegate(c, o)
    \/ \E c \in Calls :
         ReserveCall(c) \/ RefuseCall(c) \/ BeginAct(c) \/ EndAct(c) \/ ReleaseCall(c)
         \/ CallDies(c) \/ LeaseRunsOut(c)

-----------------------------------------------------------------------------
(* Properties.                                                             *)

\* Rows keep their types; one call at a time works on an integration.
AgentTypeOK ==
    /\ integration \in Integration
    /\ eligiblePeople \subseteq People
    /\ origin \in [Origins -> Origin]
    /\ unspent \in [Grants -> SUBSET Artifacts]
    /\ issued \in [Grants -> Artifacts]
    /\ access \subseteq Origins
    /\ exchange \in [Exchanges -> ExchangeRow]
    /\ call \in [Calls -> CallRow]
    /\ leases \subseteq Calls /\ staleLeases \subseteq leases
    /\ limitCut \in BOOLEAN
    /\ Cardinality(Acting) <= 1

\* While a tool call works on the database, nothing it rests on is taken away:
\* the integration is active with the scope, its origin is not revoked, and
\* the people who answer for it are still staff (agent, validate, eligible).
ActsUnderLiveAuthority ==
    \A c \in Acting :
      LET o == call[c].origin IN
      /\ integration.state = "active" /\ integration.scope
      /\ integration.responsible \in eligiblePeople
      /\ origin[o].state = "live"
      /\ o \in Grants => origin[o].user \in eligiblePeople

\* A grant has one spendable token at a time, however often and at once its
\* code or refresh tokens are presented.
OneSuccessor == \A g \in Grants : Cardinality(unspent[g]) <= 1

\* A grant one of whose tokens was presented twice stays revoked.
ReplayedGrantIsDead == \A g \in replayed : origin[g].state = "revoked"

\* The leases of an integration never exceed its concurrent calls, whichever
\* processes died holding one.  An operator who lowers the limit takes no lease
\* away (edit_integration), but then no call is reserved before the leases fit
\* the new limit with it.
LeasesWithinLimit == Cardinality(leases) <= integration.concurrent \/ limitCut

\* A revoked integration, grant or credential is never live again.
RevokedForGood ==
    [][/\ integration.state = "revoked" => integration'.state = "revoked"
       /\ \A o \in Origins : origin[o].state = "revoked" => origin'[o].state = "revoked"]_agentVars

\* The agent acts only under an authority that lives, and spends each token of
\* a grant once (validate, artifact, reserve_call).
AgentInvariant ==
    AgentTypeOK /\ ActsUnderLiveAuthority /\ OneSuccessor /\ ReplayedGrantIsDead
      /\ LeasesWithinLimit

=============================================================================
