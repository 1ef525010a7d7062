-------------------------- MODULE UpsertProperties --------------------------
(***************************************************************************)
(* What the writes of the SSO Manager promise, over the states of          *)
(* ManagerUpserts.                                                         *)
(***************************************************************************)
EXTENDS ManagerUpserts

Slugs == {"NOT_FOUND", "VERSION_MISMATCH", "INVALID_REQUEST", "INTERNAL_ERROR", "OK"}
RequestState ==
    [pc : {"idle", "begin", "select", "exists", "write", "text", "commit", "done"},
     target : Targets \cup {Nil}, id : Targets \cup ScopeUpserts \cup {Nil},
     locale : Locales \cup {Nil}, stamp : Nat, before : SUBSET Upserts,
     slug : Slugs \cup {Nil}]

\* Type invariant of the rows, the locks and the requests.
TypeOK ==
    /\ row \in [Targets -> Row \cup {Nil}]
    /\ text \in [Texts -> Text \cup {Nil}]
    /\ lock \in [Targets -> Upserts \cup {Nil}]
    /\ req \in [Upserts -> RequestState]
    /\ committed \in SUBSET Upserts

-----------------------------------------------------------------------------

\* Neither transaction had committed when the other one read the version.
Raced(u, w) == u \notin req[w].before /\ w \notin req[u].before

\* The version of a client, tenant or scope goes back, or is written a second time,
\* only when the write it replaces raced with the one that replaces it: a request
\* that read the version after the other one's COMMIT is refused
\* (client.go:72-84, tenant.go:60-72, scope.go:52-75).
GoesBackOnlyInRace ==
    [][\A t \in Targets :
         row'[t] # row[t] /\ row[t] # Nil =>
           \/ row'[t].stamp > row[t].stamp
           \/ row[t].by # Nil /\ Raced(row'[t].by, row[t].by)]_vars

\* A request that is answered with OK has been committed and its row is there; one
\* that is refused (VERSION_MISMATCH, NOT_FOUND, INVALID_REQUEST) has written
\* nothing; only INTERNAL_ERROR leaves it open (client.go:92-111, grpc.go:28-39).
AnswersAreTrue ==
    \A u \in Upserts : req[u].pc = "done" =>
        /\ req[u].slug = "OK" => u \in committed /\ row[req[u].target] # Nil
        /\ u \in committed => req[u].slug \in {"OK", "INTERNAL_ERROR"}

\* The scope and its texts are written together: the last writer of a scope is the
\* writer of the text in the locale it asked for, with the scope's version; no text is
\* without its scope, and a scope keeps its id, whoever the requests race with
\* (scope.go:99-129).
ScopeAndTextAgree ==
    /\ \A k \in Keys : row[k] # Nil =>
         text[<<row[k].id, req[row[k].by].locale>>] =
           [stamp |-> row[k].stamp, by |-> row[k].by]
    /\ \A x \in Texts : text[x] # Nil => \E k \in Keys : row[k] # Nil /\ row[k].id = x[1]

\* What a request does of its own accord; PostgreSQL answers.
Proceeds(u) ==
    \/ BeginTx(u) \/ SelectRow(u) \/ WriteRow(u)
    \/ SelectScope(u) \/ ClientExistsByID(u) \/ WriteScope(u) \/ WriteText(u)
    \/ Commit(u)

\* What a request waits for: a connection of the pool, or the row that another one holds.
MayProceed(u) ==
    \/ req[u].pc = "begin" /\ Cardinality(Open) < MaxConnections
    \/ req[u].pc \in {"select", "text", "commit"}
    \/ req[u].pc = "exists" /\ Connected(u)
    \/ req[u].pc = "write" /\ lock[req[u].target] = Nil

SomebodyMayProceed ==
    (\E u \in Upserts : req[u].pc \notin {"idle", "done"}) => \E u \in Upserts : MayProceed(u)

\* However many requests wait for the connections of the pool and for each other's
\* rows, one of them can go on without an error that ends another: nobody waits in a
\* circle; and there is nothing else that a request waits for (datastore.go:39,
\* client.go:60-65, scope.go:77).
NobodyWaitsInACircle ==
    /\ SomebodyMayProceed
    /\ \A u \in Upserts : MayProceed(u) <=> ENABLED Proceeds(u)

-----------------------------------------------------------------------------

\* What VersionedStore sees of a request.
Outcome(u) ==
    IF req[u].pc = "idle" THEN "idle"
    ELSE IF req[u].pc \in {"exists", "write", "text", "commit"} /\ ~Creates(u) THEN "accepted"
    ELSE IF req[u].pc # "done" THEN "pending"
    ELSE IF req[u].slug = "OK" THEN "applied"
    ELSE IF req[u].slug = "VERSION_MISMATCH" THEN "outdated"
    ELSE IF req[u].slug = "INTERNAL_ERROR" THEN "failed"
    ELSE "rejected"

Store == INSTANCE VersionedStore WITH
    Items <- Targets, Writers <- Upserts, Stamps <- 1..MaxStamp,
    version <- [t \in Targets |-> IF row[t] = Nil THEN -1 ELSE row[t].stamp],
    writer <- [t \in Targets |-> IF row[t] = Nil THEN Nil ELSE row[t].by],
    applied <- committed,
    item <- [u \in Upserts |-> req[u].target],
    stamp <- [u \in Upserts |-> req[u].stamp],
    knows <- [u \in Upserts |-> req[u].before],
    outcome <- [u \in Upserts |-> Outcome(u)]

\* An upsert takes effect at one instant or not at all, whatever fails on the way; it is
\* refused exactly if it is not newer than the version it found, and it overwrites
\* nothing that was committed before it looked and is as new (client.go:58-167,
\* tenant.go:46-137, scope.go:38-136).
UpsertsAreAtomic == Store!Spec
=============================================================================
