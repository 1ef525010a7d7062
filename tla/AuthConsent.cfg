\* Three pages and two consents for one account and client; two scopes, wanted together
\* or one by one.
SPECIFICATION Spec
CONSTANTS
    Nil = Nil
    Subjects = {s1}
    Clients = {k1}
    Scopes = {x, y}
    Pages = {p1, p2, p3}
    Consents = {g1, g2}
    AccountPurges = {}
    ClientPurges = {}
    Revocations = {}
SYMMETRY Symmetry
INVARIANTS CoveredByConsent GrantedByConsent NotAskedAgain RefusedByAnother
PROPERTIES ConsentIsOneTime
