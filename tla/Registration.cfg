\* Three managers start up to three times each, with up to four errors and crashes.
SPECIFICATION FairSpec
CONSTANTS
    Nil = Nil
    Managers = {m1, m2, m3}
    MaxStarts = 3
    MaxFaults = 4
INVARIANTS TypeOK OneRegistration
PROPERTIES ManagersGetReady
