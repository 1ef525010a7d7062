\* Two HTTP requests with their RPCs and one of another caller; signals at any time.
SPECIFICATION FairSpec
CONSTANTS
    Nil = Nil
    Requests = {r1, r2}
    DirectRpcs = {d1}
INVARIANTS TypeOK TakenRpcsAreServed HandlersHaveTime
PROPERTIES EverythingEnds
