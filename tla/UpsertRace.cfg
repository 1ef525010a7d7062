\* Upserts of clients, tenants and scopes, with and without an id; any three of them, on
\* two connections.
SPECIFICATION Spec
CONSTANTS
    Nil = Nil
    Clients = {k1}
    Tenants = {t1}
    ScopeNames = {s1}
    Locales = {en, pt}
    ClientUpserts = {a, b}
    TenantUpserts = {d}
    ScopeUpserts = {x, y, z}
    MaxConnections = 2
    MaxStamp = 2
    MaxRequests = 3
SYMMETRY Symmetry
INVARIANTS TypeOK AnswersAreTrue ScopeAndTextAgree NobodyWaitsInACircle
PROPERTIES GoesBackOnlyInRace UpsertsAreAtomic
