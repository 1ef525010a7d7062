\* A purge races with a sign-in and an activation; remember-me is on and SSO Service
\* may never answer.
SPECIFICATION FairSpec
CONSTANTS
    Nil = Nil
    alice = alice
    bob = bob
    carol = carol
    Sessions = {s1, s2}
    Subjects = {alice, carol}
    Agents = {ua1}
    Codes = {c1}
    Logins = {l1}
    Activations = {a1}
    Purges = {p1}
    Method <- EmailAndNone
    RememberMeDuration = 1
    EphemeralSessionDuration = 2
    MFASessionDuration = 1
    MaxTime = 3
INVARIANTS PurgedStaysPurged
PROPERTIES RequestsTerminate
