\* One manager and one error.
SPECIFICATION Spec
CONSTANTS
    Nil = Nil
    Managers = {m1, m2}
    MaxStarts = 1
    MaxFaults = 1
INVARIANTS RegisteredBeforeServing
