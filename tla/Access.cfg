\* Two providers, of two tenants, share a key file or make a key at each start; a call to
\* a manager or a refresh is delivered late.
SPECIFICATION Spec
CONSTANTS
    Nil = Nil
    p1 = p1
    p2 = p2
    sso = sso
    other = other
    superadmin = superadmin
    write = write
    Providers = {p1, p2}
    Managers = {m1}
    TenantOf <- TwoTenants
    Tenants = {sso, other}
    Clients = {app, web}
    Scopes = {superadmin, write}
    AccessTokenDuration = 1
    RefreshTokenDuration = 2
    Operations = {"upsert", "both", "any"}
    RequiredScopes <- Groups
    AllowedTenants = {sso}
    Audience = app
    TimestampPastToleration <- Toleration
    Calls = {c1}
    Refreshes = {r1}
    MaxTime = 3
    MaxStarts = 2
    MaxTokens = 3
    MaxRequests = 2
INVARIANTS TypeOK AcceptedIsEntitled RefusalHasReason TenantsStayApart InvalidRefreshHasReason
