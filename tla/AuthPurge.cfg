\* Purges of the account and of the client race with pages and a consent.
SPECIFICATION Spec
CONSTANTS
    Nil = Nil
    Subjects = {s1}
    Clients = {k1}
    Scopes = {x}
    Pages = {p1, p2}
    Consents = {g1}
    AccountPurges = {a1}
    ClientPurges = {b1}
    Revocations = {v1}
SYMMETRY Symmetry
INVARIANTS TypeOK PurgeDeletesItsKeys
