\* Two sign-ins race with two activations in one browser session, for accounts with
\* a working and with an unfinished second factor.  Sessions are ephemeral and nobody purges.
SPECIFICATION Spec
CONSTANTS
    Nil = Nil
    alice = alice
    bob = bob
    carol = carol
    Sessions = {s1}
    Subjects = {alice, bob}
    Agents = {ua1}
    Codes = {c1}
    Logins = {l1, l2}
    Activations = {a1, a2}
    Purges = {}
    Method <- EmailAndGoogle
    RememberMeDuration = 0
    EphemeralSessionDuration = 3
    MFASessionDuration = 2
    MaxTime = 3
SYMMETRY Symmetry
INVARIANTS TypeOK ActivationEarned PendingIsShortLived ChallengeUsable
PROPERTIES ChallengeIsOneTime CodeIsOneTime ActivationLostOnlyInRace
