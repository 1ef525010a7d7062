-------------------------- MODULE AccessProperties --------------------------
(***************************************************************************)
(* What tokens and sessions promise, over the states of AccessTokens.      *)
(***************************************************************************)
EXTENDS AccessTokens

SessionSlugs == {"INVALID_TIMESTAMP", "INVALID_TENANT", "INVALID_AUDIENCE", "REQUIRED_SCOPES",
                 "INVALID_TOKEN", "INVALID_REQUEST_SESSION", "INTERNAL_ERROR", "OK"}

CallState ==
    [pc : {"idle", "sent", "done"}, op : Operations \cup {Nil}, token : Token \cup {Nil},
     timestamp : Nat, loaded : Keys \cup {Nil}, time : Nat,
     slug : SessionSlugs \cup {"internal server error", Nil}]
RefreshState ==
    [pc : {"idle", "done", "forbidden", "invalid"}, token : Token \cup {Nil},
     by : Providers \cup {Nil}, key : Keys \cup {Nil}, client : Clients \cup {Nil}]

\* Type invariant of the keys, the tokens and the requests.
TypeOK ==
    /\ now \in Nat /\ keyFile \in BOOLEAN /\ starts \in 0..MaxStarts
    /\ provider \in [Providers -> Keys \cup {Nil}]
    /\ manager \in [Managers -> Keys \cup {Nil}]
    /\ issued \in SUBSET Token
    /\ call \in [Calls -> CallState]
    /\ refresh \in [Refreshes -> RefreshState]

-----------------------------------------------------------------------------

\* What the configuration of a manager asks for, without the loop: a token for this
\* application and an administrating tenant, with all scopes of some group.
Entitled(op, token) ==
    /\ token.tenant \in AllowedTenants /\ token.client = Audience
    /\ \/ RequiredScopes[op] = <<>>
       \/ \E i \in DOMAIN RequiredScopes[op] : RequiredScopes[op][i] \subseteq token.scopes

\* The timestamp is not ahead of the manager's clock, and not older than tolerated.
Timely(x) ==
    /\ call[x].timestamp <= call[x].time
    /\ TimestampPastToleration < 0 =>
         call[x].time - call[x].timestamp <= -TimestampPastToleration

\* A manager lets a call in only with a token that a provider has signed, with the very
\* key the manager has loaded, that entitles to the operation, and in time, however
\* late the call arrives and whoever has restarted since (session.go:53-104).
AcceptedIsEntitled ==
    \A x \in Calls : call[x].slug = "OK" =>
        /\ call[x].token \in issued /\ call[x].token.kid = call[x].loaded
        /\ Entitled(call[x].op, call[x].token) /\ Timely(x)

\* An entitled call that arrives in time is refused only where keys are temporary, and
\* only if its token was signed after another start than the one whose key the manager
\* has loaded (session.go:84-100, jose.go:58-71, jose.go:189-220).
RefusalHasReason ==
    \A x \in Calls : call[x].pc = "done" /\ call[x].slug # "OK" =>
        \/ call[x].token = Nil \/ ~Timely(x)
        \/ ~Entitled(call[x].op, call[x].token)
        \/ ~keyFile /\ call[x].token.kid # call[x].loaded

\* A token is for the tenant of the provider that signed it, although providers that
\* share a key file can decode each other's tokens, and a refresh copies the claims
\* (token.go:185-192, token.go:226-238).
TenantsStayApart == \A token \in issued : token.tenant = TenantOf[token.by]

\* With a key file any provider of the tenant renews a refresh token for its client, also
\* after restarts; where keys are temporary it is invalid after the restart of the one
\* that signed it (jose.go:56-71, token.go:185-192).
InvalidRefreshHasReason ==
    \A x \in Refreshes : refresh[x].pc = "invalid" =>
        \/ refresh[x].client # refresh[x].token.client
        \/ TenantOf[refresh[x].by] # refresh[x].token.tenant
        \/ ~keyFile /\ refresh[x].key # refresh[x].token.kid
=============================================================================
