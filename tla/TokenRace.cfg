\* Two exchanges, a refresh and a revocation, for the same or for different owners;
\* two redirect URIs.
SPECIFICATION Spec
CONSTANTS
    Nil = Nil
    Owners = {o1, o2}
    Codes = {c1, c2}
    Redirects = {u1, u2}
    Exchanges = {e1, e2}
    Refreshes = {r1}
    Revocations = {v1}
    AuthorizationCodeDuration = 2
    RefreshTokenDuration = 1
    MaxTime = 3
SYMMETRY Symmetry
INVARIANTS TypeOK NoStaleAnswer RevokedStaysRevoked OneLiveUnlessRaced RefusalJustified
PROPERTIES AuthorizationCodeIsOneTime
