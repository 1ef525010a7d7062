\* README.md:57-58 say how long a session lasts.
SPECIFICATION Spec
CONSTANTS
    Nil = Nil
    alice = alice
    bob = bob
    carol = carol
    Sessions = {s1}
    Subjects = {alice}
    Agents = {ua1}
    Codes = {c1}
    Logins = {l1}
    Activations = {a1}
    Purges = {}
    Method <- EmailOnly
    RememberMeDuration = 2
    EphemeralSessionDuration = 2
    MFASessionDuration = 2
    MaxTime = 4
INVARIANTS SessionDurationBounded
