---------------------------- MODULE AccessTokens ----------------------------
(***************************************************************************)
(* The keys that sign JSON Web Tokens, and the sessions they open.         *)
(*                                                                         *)
(* Every SSO Provider signs with the key of its file, or with one it makes *)
(* when it starts, and publishes it.  An SSO Manager loads the key of some *)
(* provider once, when it starts, and from then on lets a call in if its   *)
(* session passes ValidateSession.  Processes stop and start again; calls  *)
(* are delivered late; the callers' clocks differ.  What NewRefreshToken   *)
(* does is in RefreshTokens.                                               *)
(***************************************************************************)
EXTENDS Integers, FiniteSets, Sequences

CONSTANTS
    Providers, Managers,   \* processes
    TenantOf,              \* [Providers -> the tenant it is for]
    Tenants, Clients, Scopes,
    AccessTokenDuration, RefreshTokenDuration,
    Operations,            \* what a manager can be asked for
    RequiredScopes,        \* [Operations -> sequence of sets of scopes, any of which will do]
    AllowedTenants, Audience, TimestampPastToleration,
    Calls, Refreshes,      \* requests to managers and to RefreshTokenHandler
    MaxTime, MaxStarts, MaxTokens,   \* bounds
    MaxRequests,           \* bound: how many of the calls and refreshes are sent
    Nil

ASSUME AccessTokenAssumption ==
    /\ TenantOf \in [Providers -> Tenants]
    /\ AccessTokenDuration \in Nat \ {0} /\ RefreshTokenDuration \in Nat \ {0}
    /\ RequiredScopes \in [Operations -> Seq(SUBSET Scopes)]
    /\ AllowedTenants \subseteq Tenants /\ Audience \in Clients
    /\ TimestampPastToleration \in Int
    /\ MaxTime \in Nat /\ MaxStarts \in Nat \ {0} /\ MaxTokens \in Nat /\ MaxRequests \in Nat

FileKey == 0                  \* the key in the file; the others are made at a start
Keys == 0..MaxStarts
\* The claims of a token; `by' is a history field: the provider that signed it.
Token == [kind : {"access", "refresh"}, kid : Keys, by : Providers, tenant : Tenants,
          client : Clients, scopes : SUBSET Scopes, exp : Nat]

ASSUME AccessNilAssumption == Nil \notin Keys \cup Token \cup Operations \cup {"OK"}

VARIABLES
    now,
    keyFile,     \* whether SSO_PRIVATE_KEY_PATH names a file that all providers can read
    starts,      \* bound: starts of providers so far
    provider,    \* [Providers -> the key it signs with; Nil when it is down]
    manager,     \* [Managers -> the key it has loaded; Nil when it is down]
    issued,      \* history: the tokens that were signed
    call,        \* [Calls -> a request to a manager]
    refresh      \* [Refreshes -> a request to RefreshTokenHandler]

vars == <<now, keyFile, starts, provider, manager, issued, call, refresh>>
processes == <<keyFile, starts, provider, manager>>

Init ==
    /\ now = 1
    /\ keyFile \in BOOLEAN
    /\ starts = 0
    /\ provider = [p \in Providers |-> Nil]
    /\ manager = [m \in Managers |-> Nil]
    /\ issued = {}
    /\ call = [x \in Calls |-> [pc |-> "idle", op |-> Nil, token |-> Nil, timestamp |-> 0,
                                loaded |-> Nil, time |-> 0, slug |-> Nil]]
    /\ refresh = [x \in Refreshes |-> [pc |-> "idle", token |-> Nil, by |-> Nil, key |-> Nil,
                                       client |-> Nil]]

Tick ==
    /\ now < MaxTime
    /\ now' = now + 1
    /\ UNCHANGED <<processes, issued, call, refresh>>

\* Few of the requests there could be have been sent.
MaySend == Cardinality({x \in Calls : call[x].pc # "idle"})
           + Cardinality({x \in Refreshes : refresh[x].pc # "idle"}) < MaxRequests

-----------------------------------------------------------------------------
(* Keys.                                                                   *)

\* (mutant) The file is not looked for.
SigningKey_Temporary == starts + 1

\* SetupOAuth2Jose: the key of the file, or a temporary one.
SigningKey == IF keyFile THEN FileKey ELSE starts + 1

\* A provider starts and publishes its key.
StartProvider(p) ==
    /\ provider[p] = Nil /\ starts < MaxStarts
    /\ starts' = starts + 1
    /\ provider' = [provider EXCEPT ![p] = SigningKey]
    /\ UNCHANGED <<now, keyFile, manager, issued, call, refresh>>

StopProvider(p) ==
    /\ provider[p] # Nil
    /\ provider' = [provider EXCEPT ![p] = Nil]
    /\ UNCHANGED <<now, keyFile, starts, manager, issued, call, refresh>>

\* The keys that JWKSHandler serves: whoever answers at SSO_JWKS_URL.
Published == {provider[p] : p \in {q \in Providers : provider[q] # Nil}}

\* A manager starts and loads the first key; without one it ends at once.
StartManager(m) ==
    /\ manager[m] = Nil
    /\ \E key \in Published : manager' = [manager EXCEPT ![m] = key]
    /\ UNCHANGED <<now, keyFile, starts, provider, issued, call, refresh>>

StopManager(m) ==
    /\ manager[m] # Nil
    /\ manager' = [manager EXCEPT ![m] = Nil]
    /\ UNCHANGED <<now, keyFile, starts, provider, issued, call, refresh>>

\* (mutant) The fingerprint is not put into the claims.
Signed_Unmarked(p, claims) == [claims EXCEPT !.by = p]

\* GenerateJWT: the claims, signed with p's key and marked with its fingerprint.
Signed(p, claims) == [claims EXCEPT !.kid = provider[p], !.by = p]

\* DecodeJWT: the signature and the fingerprint are those of the key.
Decodes(key, token) == token.kid = key

-----------------------------------------------------------------------------
(* SSO Provider: tokens are issued.                                        *)

Claims(kind, tenant, client, scopes, exp) ==
    [kind |-> kind, kid |-> Nil, by |-> Nil, tenant |-> tenant, client |-> client,
     scopes |-> scopes, exp |-> exp]

\* ExchangeHandler signs a refresh and an access token with the same claims.
Exchange(p) ==
    /\ provider[p] # Nil /\ Cardinality(issued) + 1 < MaxTokens
    /\ \E client \in Clients, scopes \in SUBSET Scopes :
         issued' = issued \cup
           {Signed(p, Claims("refresh", TenantOf[p], client, scopes, now + RefreshTokenDuration)),
            Signed(p, Claims("access", TenantOf[p], client, scopes, now + AccessTokenDuration))}
    /\ UNCHANGED <<now, processes, call, refresh>>

\* (mutant) The tenant of the token is not looked at.
Own_AnyTenant(p, client, token) == Decodes(provider[p], token) /\ token.client = client

\* A token of this provider's key and tenant for this client.
Own(p, client, token) ==
    Decodes(provider[p], token) /\ token.client = client /\ token.tenant = TenantOf[p]

\* RefreshTokenHandler: any token may be presented, in the name of any client.  The
\* answer of SSO Service matches a refresh token at most until it expires.  The access
\* token has its claims.
Refresh(x, p) ==
    /\ refresh[x].pc = "idle" /\ MaySend /\ provider[p] # Nil
    /\ Cardinality(issued) < MaxTokens
    /\ \E token \in issued, client \in Clients, pc \in {"done", "forbidden", "invalid"} :
         /\ (pc = "invalid") <=> ~Own(p, client, token)
         /\ pc = "done" => token.kind = "refresh" /\ token.exp > now
         /\ refresh' = [refresh EXCEPT ![x] =
               [pc |-> pc, token |-> token, by |-> p, key |-> provider[p], client |-> client]]
         /\ issued' = IF pc # "done" THEN issued
                      ELSE issued \cup
                        {Signed(p, [token EXCEPT !.kind = "access", !.exp = now + AccessTokenDuration])}
    /\ UNCHANGED <<now, processes, call>>

-----------------------------------------------------------------------------
(* SSO Manager: ValidateSession.                                           *)

\* Somebody sends a request, with a timestamp of his own clock and a token he has, or
\* (Nil) without a session.
Send(x) ==
    /\ call[x].pc = "idle" /\ MaySend
    /\ \E op \in Operations, token \in issued \cup {Nil}, timestamp \in 0..MaxTime :
         call' = [call EXCEPT ![x] = [@ EXCEPT !.pc = "sent", !.op = op, !.token = token,
                                               !.timestamp = timestamp]]
    /\ UNCHANGED <<now, processes, issued, refresh>>

\* (mutant) The toleration is taken for a positive duration.
InTime_Positive(x) ==
    /\ call[x].timestamp <= now
    /\ TimestampPastToleration > 0 => call[x].timestamp >= now - TimestampPastToleration

InTime(x) ==
    /\ call[x].timestamp <= now
    /\ TimestampPastToleration < 0 => call[x].timestamp >= now + TimestampPastToleration

\* (mutant) The flag is not reset for the next group.
Lacking_NoReset(groups, scopes) ==
    \E i \in DOMAIN groups : ~(groups[i] \subseteq scopes)

\* The flag `invalid' after the loop over the groups: it is reset for each group,
\* and the loop ends at the first one that is satisfied.
Lacking(groups, scopes) ==
    LET invalid[i \in 0..Len(groups)] ==
          IF i = 0 THEN FALSE
          ELSE IF i > 1 /\ ~invalid[i - 1] THEN FALSE
          ELSE ~(groups[i] \subseteq scopes)
    IN invalid[Len(groups)]

\* The first check that fails decides; a token that does not verify has no slug of
\* its own, and the default is the message instead of the slug.
SessionSlug(x, key) ==
    LET token == call[x].token IN
    IF token = Nil THEN "INVALID_REQUEST_SESSION"
    ELSE IF ~InTime(x) THEN "INVALID_TIMESTAMP"
    ELSE IF ~Decodes(key, token) THEN "internal server error"
    ELSE IF token.tenant \notin AllowedTenants THEN "INVALID_TENANT"
    ELSE IF token.client # Audience THEN "INVALID_AUDIENCE"
    ELSE IF Lacking(RequiredScopes[call[x].op], token.scopes) THEN "REQUIRED_SCOPES"
    ELSE "OK"

\* The request arrives at some manager, which validates its session.
Validate(x, m) ==
    /\ call[x].pc = "sent" /\ manager[m] # Nil
    /\ call' = [call EXCEPT ![x] = [@ EXCEPT !.pc = "done", !.loaded = manager[m],
                                             !.time = now, !.slug = SessionSlug(x, manager[m])]]
    /\ UNCHANGED <<now, processes, issued, refresh>>

-----------------------------------------------------------------------------

\* Requests have been answered, and the clock and the starts are at their bounds.
Terminating ==
    /\ now = MaxTime /\ starts = MaxStarts
    /\ UNCHANGED vars

Next == \/ Tick
        \/ \E p \in Providers : StartProvider(p) \/ StopProvider(p) \/ Exchange(p)
        \/ \E m \in Managers : StartManager(m) \/ StopManager(m)
        \/ \E x \in Refreshes, p \in Providers : Refresh(x, p)
        \/ \E x \in Calls : Send(x) \/ \E m \in Managers : Validate(x, m)
        \/ Terminating

Spec == Init /\ [][Next]_vars
=============================================================================
