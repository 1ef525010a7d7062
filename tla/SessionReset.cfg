\* authentication.go:216 says when signing in resets the session.
SPECIFICATION Spec
CONSTANTS
    Nil = Nil
    alice = alice
    bob = bob
    carol = carol
    Sessions = {s1}
    Subjects = {alice}
    Agents = {ua1}
    Codes = {c1}
    Logins = {l1, l2}
    Activations = {a1}
    Purges = {}
    Method <- EmailOnly
    RememberMeDuration = 0
    EphemeralSessionDuration = 2
    MFASessionDuration = 2
    MaxTime = 2
PROPERTIES ActivationKept
