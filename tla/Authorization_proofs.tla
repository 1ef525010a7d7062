------------------------- MODULE Authorization_proofs -------------------------
(***************************************************************************)
(* Proofs about authorization and consent, for all values of the           *)
(* constants.                                                              *)
(***************************************************************************)
EXTENDS AuthorizationProperties, TLAPS

-----------------------------------------------------------------------------
(* Type correctness.                                                       *)

\* A page that has begun knows what it is asked for; a consent that found a nonce
\* knows its page, which has been answered with.
RequestsKnown ==
    /\ \A p \in Pages : page[p].pc # "idle" => page[p].req \in PageRequest
    /\ \A g \in Consents :
         /\ consent[g].pc \in {"check", "insert", "done"} => consent[g].of \in Pages
         /\ consent[g].pc = "idle" => consent[g].of = Nil
         /\ consent[g].of \in Pages => page[consent[g].of].pc = "consent"

Typed == TypeOK /\ RequestsKnown

\* The initial state is well typed.
LEMMA TypedInit == Init => Typed
BY AuthorizationAssumption
   DEF Init, Typed, TypeOK, RequestsKnown, PageState, ConsentState, PurgeState, Purges

\* The key of a request is one of the keys, and names the owner and the scopes.
LEMMA TokenKeyType ==
    ASSUME NEW req \in PageRequest
    PROVE  TokenKey(req) \in TokenKeys /\ TokenKey(req)[1] = req.owner
           /\ TokenKey(req)[2] = req.scopes
BY DEF TokenKey, TokenKeys, PageRequest

\* Every step of a page keeps the state well typed.
PageStep(p) == \/ PageExists(p) \/ PageAuthorize(p) \/ AskConsent(p)
               \/ AnswerCode(p) \/ AnswerToken(p) \/ PageFails(p)

\* What a step of a page that has begun does to the page.
LEMMA PageStepEffect ==
    ASSUME Typed, NEW p \in Pages, PageStep(p)
    PROVE  \E pc \in {"authorize", "ask", "answer", "consent", "done", "refused", "failed"},
              cached \in BOOLEAN :
             /\ page' = [page EXCEPT ![p].pc = pc, ![p].cached = cached]
             /\ page[p].pc \in {"exists", "authorize", "ask", "answer"}
             /\ pc \in {"ask", "answer"} => page[p].pc \in {"exists", "authorize"}
             /\ pc = "consent" => page[p].pc = "ask"
             /\ pc = "done" => page[p].pc = "answer"
             /\ UNCHANGED <<session, database, consent, purge, revocation>>
<1>. USE DEF Typed, TypeOK, PageState
<1>. DEFINE Effect(pc, cached) ==
             /\ page' = [page EXCEPT ![p].pc = pc, ![p].cached = cached]
             /\ page[p].pc \in {"exists", "authorize", "ask", "answer"}
             /\ pc \in {"ask", "answer"} => page[p].pc \in {"exists", "authorize"}
             /\ pc = "consent" => page[p].pc = "ask"
             /\ pc = "done" => page[p].pc = "answer"
             /\ UNCHANGED <<session, database, consent, purge, revocation>>
<1>1. page[p].cached \in BOOLEAN
  OBVIOUS
<1>2. ASSUME NEW pc, MovePage(p, pc)
      PROVE  page' = [page EXCEPT ![p].pc = pc, ![p].cached = page[p].cached]
  BY <1>2 DEF MovePage
<1>3. CASE PageExists(p)
  <2>1. page[p].pc = "exists" /\ UNCHANGED <<session, database, consent, purge, revocation>>
    BY <1>3 DEF PageExists, redis
  <2>2. CASE page' = [page EXCEPT ![p].pc = "answer", ![p].cached = TRUE]
    BY <2>1, <2>2
  <2>3. CASE page' = [page EXCEPT ![p].pc = "authorize"]
    <3>1. page' = [page EXCEPT ![p].pc = "authorize", ![p].cached = page[p].cached]
      BY <2>3
    <3>. QED BY <1>1, <2>1, <3>1
  <2>. QED BY <1>3, <2>2, <2>3 DEF PageExists
<1>4. CASE PageAuthorize(p)
  <2>1. AuthorizeClient(page[p].req.owner, page[p].req.scopes) \subseteq {"refused", "answer", "ask"}
    BY DEF AuthorizeClient
  <2>3. PICK pc \in {"refused", "answer", "ask"} : MovePage(p, pc)
    BY <1>4, <2>1 DEF PageAuthorize
  <2>2. page[p].pc = "authorize" /\ UNCHANGED <<session, database, consent, purge, revocation>>
    BY <1>4 DEF PageAuthorize, redis
  <2>. QED BY <1>1, <1>2, <2>3, <2>2
<1>5. CASE AskConsent(p)
  <2>1. PICK pc \in {"consent", "failed"} : MovePage(p, pc)
    BY <1>5 DEF AskConsent
  <2>2. page[p].pc = "ask" /\ UNCHANGED <<session, database, consent, purge, revocation>>
    BY <1>5 DEF AskConsent
  <2>. QED BY <1>1, <1>2, <2>1, <2>2
<1>6. CASE AnswerCode(p) \/ AnswerToken(p)
  <2>1. PICK pc \in {"done", "failed"} : MovePage(p, pc)
    BY <1>6 DEF AnswerCode, AnswerToken
  <2>2. page[p].pc = "answer" /\ UNCHANGED <<session, database, consent, purge, revocation>>
    BY <1>6 DEF AnswerCode, AnswerToken
  <2>. QED BY <1>1, <1>2, <2>1, <2>2
<1>7. CASE PageFails(p)
  <2>1. MovePage(p, "failed") /\ page[p].pc \in {"exists", "authorize", "ask", "answer"}
        /\ UNCHANGED <<session, database, consent, purge, revocation>>
    BY <1>7 DEF PageFails, redis
  <2>. QED BY <1>1, <1>2, <2>1
<1>. QED BY <1>3, <1>4, <1>5, <1>6, <1>7 DEF PageStep

\* A step of a page keeps the state well typed.
LEMMA TypedPage ==
    ASSUME Typed, NEW p \in Pages, PageStart(p) \/ PageStep(p)
    PROVE  Typed'
<1>. USE DEF Typed
<1>1. CASE PageStart(p)
  <2>1. PICK req \in PageRequest, pc \in {"refused", "exists", "authorize"} :
          page' = [page EXCEPT ![p].req = req, ![p].after = GrantedConsents, ![p].pc = pc]
    BY <1>1 DEF PageStart
  <2>. DEFINE new == [page[p] EXCEPT !.req = req, !.after = GrantedConsents, !.pc = pc]
  <2>2. new \in PageState /\ new.req = req /\ new.pc = pc
    BY DEF TypeOK, PageState, GrantedConsents
  <2>3. page' = [page EXCEPT ![p] = new]
    BY <2>1
  <2>. HIDE DEF new
  <2>4. TypeOK'
    BY <1>1, <2>2, <2>3 DEF PageStart, redis, database, TypeOK
  <2>5. page[p].pc = "idle" /\ consent' = consent
    BY <1>1 DEF PageStart
  <2>6. RequestsKnown'
    BY <2>2, <2>3, <2>5 DEF RequestsKnown, TypeOK
  <2>. QED BY <2>4, <2>6
<1>2. CASE PageStep(p)
  <2>1. PICK pc \in {"authorize", "ask", "answer", "consent", "done", "refused", "failed"},
             cached \in BOOLEAN :
             /\ page' = [page EXCEPT ![p].pc = pc, ![p].cached = cached]
             /\ page[p].pc \in {"exists", "authorize", "ask", "answer"}
             /\ UNCHANGED <<session, database, consent, purge, revocation>>
    BY <1>2, PageStepEffect
  <2>. DEFINE new == [page[p] EXCEPT !.pc = pc, !.cached = cached]
  <2>2. new \in PageState /\ new.pc = pc /\ new.req = page[p].req
    BY DEF TypeOK, PageState
  <2>3. page' = [page EXCEPT ![p] = new]
    BY <2>1
  <2>. HIDE DEF new
  <2>4. page' \in [Pages -> PageState]
    BY <2>2, <2>3 DEF TypeOK
  <2>5. nonce' \subseteq Pages /\ authc' \subseteq Pages
    BY <1>2 DEF PageStep, TypeOK, PageExists, PageAuthorize, AskConsent, AnswerCode,
                AnswerToken, PageFails, redis
  <2>6. tkn' \in [TokenKeys -> Pages \cup {Nil}]
    BY <1>2 DEF PageStep, TypeOK, PageExists, PageAuthorize, AskConsent, AnswerCode,
                AnswerToken, PageFails, redis
  <2>7. RequestsKnown'
    BY <2>1, <2>2, <2>3 DEF RequestsKnown, TypeOK
  <2>. QED BY <2>1, <2>4, <2>5, <2>6, <2>7 DEF TypeOK, database
<1>. QED BY <1>1, <1>2

\* So does every step of a consent.
ConsentStep(g) == ConsentStart(g) \/ GrantCheck(g) \/ GrantInsert(g) \/ ConsentFails(g)

\* A consent starts with the nonce of a page, or moves on; only GrantInsert gives it rows.
Starts(g, new) ==
    /\ consent[g].pc = "idle" /\ new.pc = "check" /\ new.rows = consent[g].rows
    /\ new.of \in nonce /\ page[new.of].pc = "consent" /\ nonce' = WithoutNonce(new.of)
MovesOn(g, new) ==
    /\ new.of = consent[g].of /\ nonce' \subseteq nonce
    /\ new.pc \in {"refused", "insert", "done", "failed"}
    /\ new.pc \in {"insert", "done"} => consent[g].pc \in {"check", "insert"}
    /\ GrantInsert(g) \/ (new.rows = consent[g].rows /\ new.pc # "done")

\* What a step of a consent does to the consent.
LEMMA ConsentStepEffect ==
    ASSUME Typed, NEW g \in Consents, ConsentStep(g)
    PROVE  \E new \in ConsentState : /\ consent' = [consent EXCEPT ![g] = new]
                                     /\ Starts(g, new) \/ MovesOn(g, new)
<1>. USE DEF Typed, TypeOK
<1>. DEFINE Result(new) == /\ consent' = [consent EXCEPT ![g] = new]
                           /\ Starts(g, new) \/ MovesOn(g, new)
<1>1. ASSUME NEW pc \in {"refused", "failed"}, MoveConsent(g, pc), nonce' \subseteq nonce
      PROVE  \E new \in ConsentState : Result(new)
  <2>. DEFINE new == [consent[g] EXCEPT !.pc = pc]
  <2>1. /\ new \in ConsentState /\ new.pc = pc /\ new.of = consent[g].of
        /\ new.rows = consent[g].rows
    BY DEF ConsentState
  <2>2. consent' = [consent EXCEPT ![g] = new]
    BY <1>1 DEF MoveConsent
  <2>. HIDE DEF new
  <2>. QED BY <1>1, <2>1, <2>2 DEF MovesOn
<1>2. CASE ConsentStart(g)
  <2>1. CASE nonce' \subseteq nonce /\ MoveConsent(g, "refused")
    BY <1>1, <2>1
  <2>2. CASE \E p \in Pages : /\ page[p].pc = "consent" /\ p \in nonce
                              /\ nonce' = WithoutNonce(p)
                              /\ consent' = [consent EXCEPT ![g].pc = "check", ![g].of = p]
    <3>1. PICK p \in Pages : /\ page[p].pc = "consent" /\ p \in nonce
                             /\ nonce' = WithoutNonce(p)
                             /\ consent' = [consent EXCEPT ![g].pc = "check", ![g].of = p]
      BY <2>2
    <3>. DEFINE new == [consent[g] EXCEPT !.pc = "check", !.of = p]
    <3>2. /\ new \in ConsentState /\ new.pc = "check" /\ new.of = p
          /\ new.rows = consent[g].rows
      BY DEF ConsentState
    <3>3. consent' = [consent EXCEPT ![g] = new]
      BY <3>1
    <3>. HIDE DEF new
    <3>. QED BY <1>2, <3>1, <3>2, <3>3 DEF Starts, ConsentStart
  <2>. QED BY <1>2, <2>1, <2>2 DEF ConsentStart, WithoutNonce
<1>3. CASE GrantCheck(g)
  <2>1. PICK pc \in {"insert", "refused"}, short \in BOOLEAN :
          consent' = [consent EXCEPT ![g].pc = pc, ![g].short = short]
    BY <1>3 DEF GrantCheck
  <2>. DEFINE new == [consent[g] EXCEPT !.pc = pc, !.short = short]
  <2>2. /\ new \in ConsentState /\ new.pc = pc /\ new.of = consent[g].of
        /\ new.rows = consent[g].rows
    BY DEF ConsentState
  <2>3. consent' = [consent EXCEPT ![g] = new]
    BY <2>1
  <2>. HIDE DEF new
  <2>. QED BY <1>3, <2>2, <2>3 DEF MovesOn, GrantCheck, redis
<1>4. CASE GrantInsert(g)
  <2>1. consent[g].of \in Pages /\ Inserted(g) \subseteq Scopes
    BY <1>4 DEF GrantInsert, RequestsKnown, Inserted, Wanted, PageRequest, ScopeSets
  <2>2. PICK pc \in {"done", "failed"}, rows \in SUBSET Scopes, short \in BOOLEAN :
          consent' = [consent EXCEPT ![g].pc = pc, ![g].rows = rows, ![g].short = short]
    BY <1>4, <2>1 DEF GrantInsert, ReadRows
  <2>. DEFINE new == [consent[g] EXCEPT !.pc = pc, !.rows = rows, !.short = short]
  <2>3. new \in ConsentState /\ new.pc = pc /\ new.of = consent[g].of
    BY DEF ConsentState
  <2>4. consent' = [consent EXCEPT ![g] = new]
    BY <2>2
  <2>. HIDE DEF new
  <2>. QED BY <1>4, <2>3, <2>4 DEF MovesOn, GrantInsert, redis
<1>5. CASE ConsentFails(g)
  BY <1>1, <1>5 DEF ConsentFails, redis
<1>. QED BY <1>2, <1>3, <1>4, <1>5 DEF ConsentStep

\* What GrantCheck makes of the rows it reads.
LEMMA CheckEffect ==
    ASSUME Typed, NEW g \in Consents, GrantCheck(g)
    PROVE  \E read \in ReadRows(Unauthorized(Wanted(g).owner, Wanted(g).scopes)) :
             /\ consent'[g].pc = IF read = Wanted(g).scopes THEN "insert" ELSE "refused"
             /\ consent'[g].short = (read # Unauthorized(Wanted(g).owner, Wanted(g).scopes))
BY DEF GrantCheck, Typed, TypeOK, ConsentState

\* What GrantInsert inserts of them.
LEMMA InsertEffect ==
    ASSUME Typed, NEW g \in Consents, GrantInsert(g)
    PROVE  /\ consent[g].pc = "insert" /\ consent[g].of \in Pages /\ page' = page
           /\ consent'[g].pc \in {"done", "failed"} /\ consent'[g].of = consent[g].of
           /\ consent'[g].rows \in ReadRows(Inserted(g)) \ {{}}
           /\ consent'[g].short \/ consent'[g].rows = Inserted(g)
           /\ granted' = [granted EXCEPT ![Wanted(g).owner] = @ \cup consent'[g].rows]
<1>. USE DEF Typed, TypeOK
<1>1. PICK read \in ReadRows(Inserted(g)) \ {{}}, pc \in {"done", "failed"} :
        /\ granted' = [granted EXCEPT ![Wanted(g).owner] = @ \cup read]
        /\ consent' = [consent EXCEPT ![g].pc = pc, ![g].rows = read,
                                      ![g].short = (read # Inserted(g))]
  BY DEF GrantInsert
<1>2. /\ consent'[g].pc = pc /\ consent'[g].of = consent[g].of /\ consent'[g].rows = read
      /\ consent'[g].short = (read # Inserted(g))
  BY <1>1 DEF ConsentState
<1>3. consent[g].pc = "insert" /\ consent[g].of \in Pages /\ page' = page
  BY DEF GrantInsert, RequestsKnown
<1>. QED BY <1>1, <1>2, <1>3

\* A step of a consent keeps the state well typed.
LEMMA TypedConsent ==
    ASSUME Typed, NEW g \in Consents, ConsentStep(g)
    PROVE  Typed'
<1>. USE DEF Typed
<1>1. UNCHANGED <<session, authc, tkn, known, page, purge, revocation>>
  BY DEF ConsentStep, ConsentStart, GrantCheck, GrantInsert, ConsentFails, redis, database
<1>2. PICK new \in ConsentState : /\ consent' = [consent EXCEPT ![g] = new]
                                  /\ Starts(g, new) \/ MovesOn(g, new)
  BY ConsentStepEffect
<1>3. nonce' \subseteq Pages
  BY <1>2 DEF Starts, MovesOn, WithoutNonce, TypeOK
<1>4. granted' \in [Owners -> SUBSET Scopes]
  <2>1. CASE GrantInsert(g)
    <3>1. Wanted(g).owner \in Owners /\ Inserted(g) \subseteq Scopes
      BY <2>1 DEF GrantInsert, Inserted, Wanted, RequestsKnown, PageRequest, Owners, ScopeSets
    <3>2. consent'[g].rows \subseteq Scopes
      BY <2>1, <3>1, InsertEffect DEF ReadRows
    <3>. QED BY <2>1, <3>1, <3>2, InsertEffect DEF TypeOK
  <2>2. CASE ~GrantInsert(g)
    BY <2>2 DEF ConsentStep, ConsentStart, GrantCheck, ConsentFails, database, TypeOK
  <2>. QED BY <2>1, <2>2
<1>5. TypeOK'
  BY <1>1, <1>2, <1>3, <1>4 DEF TypeOK
<1>6. /\ new.pc \in {"check", "insert", "done"} => new.of \in Pages
      /\ new.pc # "idle"
      /\ new.of \in Pages => page[new.of].pc = "consent"
  <2>1. CASE Starts(g, new)
    BY <2>1 DEF Starts, TypeOK
  <2>2. CASE MovesOn(g, new)
    BY <2>2 DEF MovesOn, RequestsKnown
  <2>. QED BY <1>2, <2>1, <2>2
<1>7. RequestsKnown'
  BY <1>1, <1>2, <1>6 DEF RequestsKnown, TypeOK
<1>. QED BY <1>5, <1>7

\* So does every step of a purge, of the clock and of the other parts.
LEMMA TypedPurge ==
    ASSUME Typed, NEW q \in Purges,
           \/ q \in AccountPurges /\ PurgeAccountStart(q)
           \/ q \in ClientPurges /\ PurgeClientStart(q)
           \/ PurgeStep(q)
    PROVE  Typed'
<1>. USE DEF Typed, TypeOK, redis, database
<1>1. CASE PurgeAccountStart(q)
  <2>1. PICK s \in Subjects :
          purge' = [purge EXCEPT ![q] = [pc |-> "sessions", who |-> s, had |-> s \in session,
                      found |-> FoundNonces(s), keys |-> {}, before |-> Settled]]
    BY <1>1 DEF PurgeAccountStart
  <2>2. [pc |-> "sessions", who |-> s, had |-> s \in session, found |-> FoundNonces(s),
         keys |-> {}, before |-> Settled] \in PurgeState
    BY DEF PurgeState, FoundNonces, Settled
  <2>. QED BY <1>1, <2>1, <2>2 DEF PurgeAccountStart, RequestsKnown
<1>2. CASE PurgeClientStart(q)
  <2>1. PICK c \in Clients, pc \in {"list", "codes"}, found \in SUBSET Pages :
          purge' = [purge EXCEPT ![q] = [pc |-> pc, who |-> c, had |-> FALSE,
                      found |-> found, keys |-> {}, before |-> Settled]]
    BY <1>2 DEF PurgeClientStart
  <2>2. [pc |-> pc, who |-> c, had |-> FALSE, found |-> found, keys |-> {},
         before |-> Settled] \in PurgeState
    BY DEF PurgeState, Settled
  <2>. QED BY <1>2, <2>1, <2>2 DEF PurgeClientStart, RequestsKnown
<1>3. ASSUME NEW pc \in {"list", "tokens", "done", "failed"}, NEW keys \in SUBSET TokenKeys,
             purge' = [purge EXCEPT ![q].pc = pc, ![q].keys = keys],
             session' \subseteq session, nonce' \subseteq nonce, authc' \subseteq authc,
             tkn' \in [TokenKeys -> Pages \cup {Nil}],
             UNCHANGED <<database, page, consent, revocation>>
      PROVE  Typed'
  <2>. DEFINE new == [purge[q] EXCEPT !.pc = pc, !.keys = keys]
  <2>1. new \in PurgeState
    BY DEF PurgeState
  <2>2. purge' = [purge EXCEPT ![q] = new]
    BY <1>3
  <2>. HIDE DEF new
  <2>. QED BY <1>3, <2>1, <2>2 DEF RequestsKnown
<1>4. ASSUME NEW pc, purge' = [purge EXCEPT ![q].pc = pc]
      PROVE  /\ purge[q].keys \in SUBSET TokenKeys
             /\ purge' = [purge EXCEPT ![q].pc = pc, ![q].keys = purge[q].keys]
  BY <1>4 DEF PurgeState
<1>5. CASE PurgeSessions(q)
  <2>1. PICK pc \in {"list", "failed"} : purge' = [purge EXCEPT ![q].pc = pc]
    BY <1>5 DEF PurgeSessions
  <2>2. session' \subseteq session /\ nonce' \subseteq nonce
        /\ UNCHANGED <<authc, tkn, database, page, consent, revocation>>
    BY <1>5 DEF PurgeSessions
  <2>. QED BY <1>3, <1>4, <2>1, <2>2
<1>6. CASE PurgeCodes(q)
  <2>1. PICK pc \in {"done", "failed"} : purge' = [purge EXCEPT ![q].pc = pc]
    BY <1>6 DEF PurgeCodes
  <2>2. authc' \subseteq authc
        /\ UNCHANGED <<session, nonce, tkn, database, page, consent, revocation>>
    BY <1>6 DEF PurgeCodes
  <2>. QED BY <1>3, <1>4, <2>1, <2>2
<1>7. CASE PurgeListTokens(q)
  <2>. DEFINE keys == {k \in PurgedTokens(purge[q].who) : tkn[k] # Nil}
  <2>1. keys \in SUBSET TokenKeys
    BY DEF PurgedTokens
  <2>2. purge' = [purge EXCEPT ![q].pc = "tokens", ![q].keys = keys]
        /\ UNCHANGED <<redis, database, page, consent, revocation>>
    BY <1>7 DEF PurgeListTokens
  <2>. QED BY <1>3, <2>1, <2>2
<1>8. CASE PurgeTokens(q)
  <2>1. PICK pc \in {"done", "failed"} : purge' = [purge EXCEPT ![q].pc = pc]
    BY <1>8 DEF PurgeTokens
  <2>2. tkn' \in [TokenKeys -> Pages \cup {Nil}]
        /\ UNCHANGED <<session, nonce, authc, database, page, consent, revocation>>
    BY <1>8 DEF PurgeTokens
  <2>. QED BY <1>3, <1>4, <2>1, <2>2
<1>9. CASE PurgeFails(q)
  BY <1>3, <1>4, <1>9 DEF PurgeFails
<1>. QED BY <1>1, <1>2, <1>5, <1>6, <1>7, <1>8, <1>9 DEF PurgeStep

\* Everything else: sign-in, the manager, lifetimes, revocations.
Around == \/ \E s \in Subjects : SessionStored(s)
          \/ \E c \in Clients, scope \in Scopes : UpsertScope(c, scope)
          \/ Expire
          \/ \E v \in Revocations : RevokeScopes(v)
          \/ Terminating \/ UNCHANGED vars

\* So does everything else.
LEMMA TypedAround ==
    ASSUME Typed, Around
    PROVE  Typed'
<1>. USE DEF Typed, TypeOK, RequestsKnown, redis, database
<1>1. CASE \E s \in Subjects : SessionStored(s)
  BY <1>1 DEF SessionStored
<1>2. CASE \E c \in Clients, scope \in Scopes : UpsertScope(c, scope)
  BY <1>2 DEF UpsertScope
<1>3. CASE Expire
  BY <1>3 DEF Expire
<1>4. CASE \E v \in Revocations : RevokeScopes(v)
  BY <1>4 DEF RevokeScopes
<1>5. CASE Terminating \/ UNCHANGED vars
  BY <1>5 DEF Terminating, vars
<1>. QED BY <1>1, <1>2, <1>3, <1>4, <1>5 DEF Around

\* Every step is one of these.
LEMMA StepOf ==
    ASSUME [Next]_vars
    PROVE  \/ Around
           \/ \E p \in Pages : PageStart(p) \/ PageStep(p)
           \/ \E g \in Consents : ConsentStep(g)
           \/ \E q \in Purges : \/ q \in AccountPurges /\ PurgeAccountStart(q)
                                \/ q \in ClientPurges /\ PurgeClientStart(q)
                                \/ PurgeStep(q)
BY DEF Next, Around, PageStep, ConsentStep, Purges

\* Every step keeps the state well typed.
LEMMA TypedStep == Typed /\ [Next]_vars => Typed'
BY StepOf, TypedAround, TypedPage, TypedConsent, TypedPurge

\* Every reachable state is well typed.
THEOREM TypeCorrect == Spec => []TypeOK
<1>1. Typed => TypeOK
  BY DEF Typed
<1>. QED BY TypedInit, TypedStep, <1>1, PTL DEF Spec

-----------------------------------------------------------------------------
(* Who changes what.                                                       *)

\* The scopes of a client and the scopes granted only grow.
LEMMA ScopesGrow ==
    ASSUME Typed, [Next]_vars
    PROVE  /\ \A c \in Clients : known[c] \subseteq known'[c]
           /\ \A o \in Owners : granted[o] \subseteq granted'[o]
<1>. USE DEF Typed, TypeOK, database
<1>1. CASE Around
  BY <1>1 DEF Around, SessionStored, UpsertScope, Expire, RevokeScopes, Terminating, vars
<1>2. CASE \E p \in Pages : PageStart(p) \/ PageStep(p)
  BY <1>2, PageStepEffect DEF PageStart
<1>3. CASE \E g \in Consents : ConsentStep(g)
  <2>1. PICK g \in Consents : ConsentStep(g)
    BY <1>3
  <2>2. CASE GrantInsert(g)
    <3>1. known' = known
      BY <2>2 DEF GrantInsert
    <3>2. granted' = [granted EXCEPT ![Wanted(g).owner] = @ \cup consent'[g].rows]
      BY <2>2, InsertEffect
    <3>. QED BY <3>1, <3>2
  <2>3. CASE ~GrantInsert(g)
    BY <2>1, <2>3 DEF ConsentStep, ConsentStart, GrantCheck, ConsentFails
  <2>. QED BY <2>2, <2>3
<1>4. CASE \E q \in Purges : \/ PurgeAccountStart(q) \/ PurgeClientStart(q) \/ PurgeStep(q)
  BY <1>4 DEF PurgeAccountStart, PurgeClientStart, PurgeStep, PurgeSessions, PurgeCodes,
              PurgeListTokens, PurgeTokens, PurgeFails
<1>. QED BY <1>1, <1>2, <1>3, <1>4, StepOf

\* A page changes by its own steps only; one that has begun keeps its request.
LEMMA PageMoves ==
    ASSUME Typed, [Next]_vars, NEW p \in Pages
    PROVE  \/ page'[p] = page[p]
           \/ PageStart(p)
           \/ /\ PageStep(p)
              /\ page'[p].req = page[p].req /\ page'[p].after = page[p].after
              /\ page[p].pc \in {"exists", "authorize", "ask", "answer"}
              /\ page'[p].pc \in {"authorize", "ask", "answer", "consent", "done", "refused",
                                  "failed"}
              /\ page'[p].pc \in {"ask", "answer"} => page[p].pc \in {"exists", "authorize"}
              /\ page'[p].pc = "consent" => page[p].pc = "ask"
              /\ page'[p].pc = "done" => page[p].pc = "answer"
<1>. USE DEF Typed, TypeOK
<1>1. CASE PageStep(p)
  <2>1. PICK pc \in {"authorize", "ask", "answer", "consent", "done", "refused", "failed"},
             cached \in BOOLEAN :
             /\ page' = [page EXCEPT ![p].pc = pc, ![p].cached = cached]
             /\ page[p].pc \in {"exists", "authorize", "ask", "answer"}
             /\ pc \in {"ask", "answer"} => page[p].pc \in {"exists", "authorize"}
             /\ pc = "consent" => page[p].pc = "ask"
             /\ pc = "done" => page[p].pc = "answer"
    BY <1>1, PageStepEffect
  <2>2. page'[p].pc = pc /\ page'[p].req = page[p].req /\ page'[p].after = page[p].after
    BY <2>1 DEF PageState
  <2>. QED BY <1>1, <2>1, <2>2
<1>2. ASSUME NEW q \in Pages, q # p, PageStart(q) \/ PageStep(q)
      PROVE  page'[p] = page[p]
  <2>1. CASE PageStart(q)
    BY <1>2, <2>1 DEF PageStart
  <2>2. CASE PageStep(q)
    BY <1>2, <2>2, PageStepEffect
  <2>. QED BY <1>2, <2>1, <2>2
<1>3. CASE Around \/ (\E g \in Consents : ConsentStep(g))
           \/ \E q \in Purges : PurgeAccountStart(q) \/ PurgeClientStart(q) \/ PurgeStep(q)
  BY <1>3 DEF Around, SessionStored, UpsertScope, Expire, RevokeScopes, Terminating, vars,
       ConsentStep, ConsentStart, GrantCheck, GrantInsert, ConsentFails, PurgeAccountStart,
       PurgeClientStart, PurgeStep, PurgeSessions, PurgeCodes, PurgeListTokens, PurgeTokens,
       PurgeFails
<1>. QED BY <1>1, <1>2, <1>3, StepOf

\* A consent changes by its own steps only, and keeps the page it is for.
LEMMA ConsentMoves ==
    ASSUME Typed, [Next]_vars, NEW g \in Consents
    PROVE  \/ consent'[g] = consent[g]
           \/ ConsentStart(g) /\ Starts(g, consent'[g])
           \/ ConsentStep(g) /\ MovesOn(g, consent'[g])
<1>. USE DEF Typed, TypeOK
<1>1. CASE ConsentStep(g)
  <2>1. PICK new \in ConsentState : /\ consent' = [consent EXCEPT ![g] = new]
                                    /\ Starts(g, new) \/ MovesOn(g, new)
    BY <1>1, ConsentStepEffect
  <2>2. consent'[g] = new
    BY <2>1
  <2>3. Starts(g, new) => ConsentStart(g)
    BY <1>1 DEF Starts, ConsentStep, GrantCheck, GrantInsert, ConsentFails
  <2>. QED BY <1>1, <2>1, <2>2, <2>3
<1>2. ASSUME NEW h \in Consents, h # g, ConsentStep(h)
      PROVE  consent'[g] = consent[g]
  BY <1>2, ConsentStepEffect
<1>3. CASE \E p \in Pages : PageStart(p) \/ PageStep(p)
  BY <1>3, PageStepEffect DEF PageStart
<1>4. CASE Around \/ \E q \in Purges : PurgeAccountStart(q) \/ PurgeClientStart(q) \/ PurgeStep(q)
  BY <1>4 DEF Around, SessionStored, UpsertScope, Expire, RevokeScopes, Terminating, vars,
       PurgeAccountStart, PurgeClientStart, PurgeStep, PurgeSessions, PurgeCodes,
       PurgeListTokens, PurgeTokens, PurgeFails
<1>. QED BY <1>1, <1>2, <1>3, <1>4, StepOf

\* A key of the implicit flow is written by a page that answers, and else only deleted.
LEMMA KeyWrites ==
    ASSUME Typed, [Next]_vars, NEW k \in TokenKeys
    PROVE  \/ tkn'[k] \in {tkn[k], Nil}
           \/ \E p \in Pages : /\ page[p].pc = "answer" /\ k = TokenKey(page[p].req)
                               /\ tkn'[k] = p
<1>. USE DEF Typed, TypeOK
<1>1. ASSUME NEW p \in Pages, AnswerToken(p)
      PROVE  \/ tkn'[k] \in {tkn[k], Nil}
             \/ page[p].pc = "answer" /\ k = TokenKey(page[p].req) /\ tkn'[k] = p
  BY <1>1 DEF AnswerToken
<1>2. CASE \E p \in Pages : PageStart(p) \/ (PageStep(p) /\ ~AnswerToken(p))
  BY <1>2 DEF PageStart, PageStep, PageExists, PageAuthorize, AskConsent, AnswerCode, PageFails,
              redis
<1>3. CASE \E g \in Consents : ConsentStep(g)
  BY <1>3 DEF ConsentStep, ConsentStart, GrantCheck, GrantInsert, ConsentFails, redis
<1>4. CASE Around
  BY <1>4 DEF Around, SessionStored, UpsertScope, Expire, RevokeScopes, Terminating, vars, redis
<1>5. CASE \E q \in Purges : PurgeAccountStart(q) \/ PurgeClientStart(q) \/ PurgeStep(q)
  BY <1>5 DEF PurgeAccountStart, PurgeClientStart, PurgeStep, PurgeSessions, PurgeCodes,
       PurgeListTokens, PurgeTokens, PurgeFails, redis
<1>. QED BY <1>1, <1>2, <1>3, <1>4, <1>5, StepOf

-----------------------------------------------------------------------------
(* What is handed out is granted.                                          *)

\* Scopes a page has been allowed to answer for are granted.
Allowed(p) == page[p].pc \in {"answer", "done"} => page[p].req.scopes \subseteq granted[page[p].req.owner]

KeysGranted == \A k \in TokenKeys : tkn[k] # Nil => k[2] \subseteq granted[k[1]]
Covered == KeysGranted /\ \A p \in Pages : Allowed(p)

\* At first nothing is handed out.
LEMMA CoveredInit == Init => Covered
BY DEF Init, Covered, KeysGranted, Allowed

\* AuthorizeClient answers only for known scopes that are all granted.
LEMMA AnswerIsGranted ==
    ASSUME NEW o, NEW scopes, "answer" \in AuthorizeClient(o, scopes)
    PROVE  scopes \subseteq known[o[2]] /\ scopes \subseteq granted[o]
<1>1. ~HasUnknownScopes(o, scopes)
  BY DEF AuthorizeClient
<1>2. Unauthorized(o, scopes) = {}
  BY <1>1 DEF AuthorizeClient, ReadRows
<1>. QED BY <1>1, <1>2 DEF HasUnknownScopes, Unauthorized

\* It asks only about known scopes that are not all granted.
LEMMA AskIsForMore ==
    ASSUME NEW o, NEW scopes, "ask" \in AuthorizeClient(o, scopes)
    PROVE  scopes \subseteq known[o[2]] /\ ~ (scopes \subseteq granted[o])
<1>1. ~HasUnknownScopes(o, scopes)
  BY DEF AuthorizeClient
<1>2. Unauthorized(o, scopes) # {}
  BY <1>1 DEF AuthorizeClient, ReadRows
<1>. QED BY <1>1, <1>2 DEF HasUnknownScopes, Unauthorized

\* Covered is inductive.
LEMMA CoveredStep ==
    ASSUME Typed, Covered, [Next]_vars
    PROVE  Covered'
<1>. USE DEF Typed
<1>1. ASSUME NEW p \in Pages, page'[p].pc \in {"answer", "done"}
      PROVE  page'[p].req.scopes \subseteq granted'[page'[p].req.owner]
  <2>. DEFINE req == page[p].req
  <2>1. CASE page[p].pc \in {"answer", "done"}
    <3>1. req \in PageRequest /\ req.owner \in Owners /\ req.scopes \subseteq granted[req.owner]
      BY <2>1 DEF RequestsKnown, PageRequest, Covered, Allowed
    <3>2. page'[p].req = req
      BY <2>1, PageMoves DEF PageStart
    <3>. QED BY <3>1, <3>2, ScopesGrow
  <2>2. CASE page[p].pc \notin {"answer", "done"}
    <3>1. ~PageStart(p)
      <4>1. ASSUME PageStart(p) PROVE FALSE
        <5>1. PICK r \in PageRequest, pc \in {"refused", "exists", "authorize"} :
                page' = [page EXCEPT ![p].req = r, ![p].after = GrantedConsents, ![p].pc = pc]
          BY <4>1 DEF PageStart
        <5>2. page'[p].pc = pc
          BY <5>1 DEF TypeOK, PageState
        <5>. QED BY <1>1, <5>2
      <4>. QED BY <4>1
    <3>2. PageStep(p) /\ page'[p].pc = "answer" /\ page'[p].req = req
      BY <1>1, <2>2, <3>1, PageMoves
    <3>3. req \in PageRequest /\ req.owner \in Owners
      BY <2>2, <3>1, <3>2, PageMoves DEF RequestsKnown, PageRequest
    <3>4. CASE PageExists(p)
      <4>1. tkn[TokenKey(req)] # Nil
        BY <3>2, <3>4 DEF PageExists, TypeOK, PageState
      <4>2. req.scopes \subseteq granted[req.owner]
        BY <3>3, <4>1, TokenKeyType DEF Covered, KeysGranted
      <4>. QED BY <3>2, <3>3, <4>2, ScopesGrow
    <3>5. CASE PageAuthorize(p)
      <4>1. "answer" \in AuthorizeClient(req.owner, req.scopes)
        BY <3>2, <3>5 DEF PageAuthorize, MovePage, TypeOK, PageState
      <4>2. req.scopes \subseteq granted[req.owner]
        BY <4>1, AnswerIsGranted
      <4>. QED BY <3>2, <3>3, <4>2, ScopesGrow
    <3>6. CASE AskConsent(p) \/ AnswerCode(p) \/ AnswerToken(p) \/ PageFails(p)
      BY <3>2, <3>6 DEF AskConsent, AnswerCode, AnswerToken, PageFails, MovePage, TypeOK, PageState
    <3>. QED BY <3>2, <3>4, <3>5, <3>6 DEF PageStep
  <2>. QED BY <2>1, <2>2
<1>2. ASSUME NEW k \in TokenKeys, tkn'[k] # Nil
      PROVE  k[2] \subseteq granted'[k[1]]
  <2>1. k[1] \in Owners
    BY DEF TokenKeys
  <2>2. CASE tkn'[k] = tkn[k]
    BY <1>2, <2>1, <2>2, ScopesGrow DEF Covered, KeysGranted
  <2>3. ASSUME NEW p \in Pages, page[p].pc = "answer", k = TokenKey(page[p].req)
        PROVE  k[2] \subseteq granted'[k[1]]
    <3>1. page[p].req \in PageRequest
      BY <2>3 DEF RequestsKnown
    <3>2. k[2] \subseteq granted[k[1]]
      BY <2>3, <3>1, TokenKeyType DEF Covered, Allowed
    <3>. QED BY <2>1, <3>2, ScopesGrow
  <2>. QED BY <1>2, <2>2, <2>3, KeyWrites
<1>. QED BY <1>1, <1>2 DEF Covered, KeysGranted, Allowed

\* Nothing is handed out that was not granted, cached answers included.
THEOREM HandedOutIsGranted == Spec => []CoveredByConsent
<1>1. Covered => CoveredByConsent
  BY DEF Covered, KeysGranted, Allowed, CoveredByConsent
<1>. QED BY TypedInit, TypedStep, CoveredInit, CoveredStep, <1>1, PTL DEF Spec

-----------------------------------------------------------------------------
(* What is granted was consented to, and is not asked for again.           *)

\* A consent that took a nonce keeps its page, and the page does not change any more.
LEMMA ConsentedStays ==
    ASSUME Typed, [Next]_vars, NEW g \in Consents, consent[g].of \in Pages
    PROVE  consent'[g].of = consent[g].of /\ page'[consent[g].of] = page[consent[g].of]
<1>. DEFINE p == consent[g].of
<1>1. consent[g].pc # "idle" /\ page[p].pc = "consent"
  BY AuthorizationAssumption DEF Typed, RequestsKnown
<1>2. consent'[g].of = consent[g].of
  BY <1>1, ConsentMoves DEF Starts, MovesOn
<1>3. page'[p] = page[p]
  BY <1>1, PageMoves DEF PageStart
<1>. QED BY <1>2, <1>3

\* Only GrantInsert grants.
LEMMA Grants ==
    ASSUME Typed, [Next]_vars, NEW o \in Owners, NEW s \in granted'[o], s \notin granted[o]
    PROVE  \E g \in Consents : /\ GrantInsert(g) /\ consent[g].of \in Pages
                               /\ Wanted(g).owner = o /\ s \in Wanted(g).scopes
                               /\ s \in consent'[g].rows
<1>. USE DEF Typed, TypeOK, database
<1>1. ASSUME NEW g \in Consents, GrantInsert(g)
      PROVE  /\ GrantInsert(g) /\ consent[g].of \in Pages
             /\ Wanted(g).owner = o /\ s \in Wanted(g).scopes
             /\ s \in consent'[g].rows
  <2>1. Wanted(g).owner = o /\ s \in consent'[g].rows /\ consent[g].of \in Pages
    BY <1>1, InsertEffect
  <2>2. s \in Wanted(g).scopes
    BY <1>1, <2>1, InsertEffect DEF ReadRows, Inserted
  <2>. QED BY <1>1, <2>1, <2>2
<1>2. CASE \E g \in Consents : ConsentStep(g) /\ ~GrantInsert(g)
  BY <1>2 DEF ConsentStep, ConsentStart, GrantCheck, ConsentFails
<1>3. CASE \E p \in Pages : PageStart(p) \/ PageStep(p)
  BY <1>3, PageStepEffect DEF PageStart
<1>4. CASE Around
  BY <1>4 DEF Around, SessionStored, UpsertScope, Expire, RevokeScopes, Terminating, vars
<1>5. CASE \E q \in Purges : PurgeAccountStart(q) \/ PurgeClientStart(q) \/ PurgeStep(q)
  BY <1>5 DEF PurgeAccountStart, PurgeClientStart, PurgeStep, PurgeSessions, PurgeCodes,
              PurgeListTokens, PurgeTokens, PurgeFails
<1>. QED BY <1>1, <1>2, <1>3, <1>4, <1>5, StepOf

\* GrantedByConsent is inductive.
LEMMA GrantedStep ==
    ASSUME Typed, GrantedByConsent, [Next]_vars
    PROVE  GrantedByConsent'
<1>. SUFFICES ASSUME NEW o \in Owners, NEW s \in granted'[o]
              PROVE  \E g \in Consents, p \in Pages :
                       consent'[g].of = p /\ page'[p].req.owner = o /\ s \in page'[p].req.scopes
  BY DEF GrantedByConsent, WonNonce
<1>1. \E g \in Consents, p \in Pages :
        consent[g].of = p /\ page[p].req.owner = o /\ s \in page[p].req.scopes
  <2>1. CASE s \in granted[o]
    BY <2>1 DEF GrantedByConsent, WonNonce
  <2>2. CASE s \notin granted[o]
    BY <2>2, Grants DEF Wanted
  <2>. QED BY <2>1, <2>2
<1>. QED BY <1>1, ConsentedStays

\* Nothing is granted that no consent page showed.
THEOREM GrantsAreConsentedTo == Spec => []GrantedByConsent
<1>1. Init => GrantedByConsent
  BY DEF Init, GrantedByConsent
<1>. QED BY TypedInit, TypedStep, <1>1, GrantedStep, PTL DEF Spec

\* A consent that is over does not change any more.
LEMMA OverStays ==
    ASSUME Typed, [Next]_vars, NEW g \in Consents, consent[g].pc \in {"done", "failed", "refused"}
    PROVE  consent'[g] = consent[g]
BY ConsentMoves DEF ConsentStep, ConsentStart, GrantCheck, GrantInsert, ConsentFails

\* What a consent has inserted is granted, and is nothing before it is over; one that
\* was answered with OK has inserted all it could, unless a loop broke off.
Written(g) ==
    /\ consent[g].pc \notin {"done", "failed"} => consent[g].rows = {}
    /\ consent[g].pc = "done" =>
          consent[g].rows # {} /\ (consent[g].short \/ consent[g].rows = Wanted(g).scopes)
    /\ consent[g].of # Nil => consent[g].rows \subseteq granted[Wanted(g).owner]

\* The scopes of a consent that is about to be written are registered; a page began
\* after consents that were granted.
ConsentWritten ==
    /\ \A g \in Consents : consent[g].pc = "insert" =>
          Wanted(g).scopes \subseteq known[Wanted(g).owner[2]]
    /\ \A g \in Consents : Written(g)
    /\ \A p \in Pages : page[p].after \subseteq GrantedConsents

\* A consent that has a page keeps what it is about.
LEMMA WantedStays ==
    ASSUME Typed, [Next]_vars, NEW g \in Consents, consent[g].of # Nil
    PROVE  /\ consent[g].of \in Pages /\ consent'[g].of = consent[g].of
           /\ Wanted(g)' = Wanted(g) /\ Wanted(g) \in PageRequest
           /\ Wanted(g).owner \in Owners /\ Wanted(g).owner[2] \in Clients
<1>. USE DEF Typed
<1>1. consent[g].of \in Pages
  BY DEF TypeOK, ConsentState
<1>2. consent'[g].of = consent[g].of /\ Wanted(g)' = Wanted(g)
  BY <1>1, ConsentedStays DEF Wanted
<1>3. Wanted(g) \in PageRequest
  BY <1>1 DEF Wanted, RequestsKnown
<1>. QED BY <1>1, <1>2, <1>3 DEF PageRequest, Owners

\* Written is kept, whatever step is taken.
LEMMA WrittenStep ==
    ASSUME Typed, ConsentWritten, [Next]_vars, NEW g \in Consents
    PROVE  Written(g)'
<1>. USE DEF Typed
<1>1. CASE consent'[g] = consent[g]
  <2>1. CASE consent[g].of = Nil
    <3>1. consent[g].pc # "done"
      BY <2>1, AuthorizationAssumption DEF RequestsKnown
    <3>. QED BY <1>1, <2>1, <3>1 DEF ConsentWritten, Written
  <2>2. CASE consent[g].of # Nil
    <3>1. granted[Wanted(g).owner] \subseteq granted'[Wanted(g).owner]
      BY <2>2, WantedStays, ScopesGrow
    <3>. QED BY <1>1, <2>2, <3>1, WantedStays DEF ConsentWritten, Written
  <2>. QED BY <2>1, <2>2
<1>2. CASE ConsentStart(g) /\ Starts(g, consent'[g])
  BY <1>2 DEF Starts, ConsentWritten, Written
<1>3. CASE GrantInsert(g)
  <2>1. /\ consent[g].of # Nil /\ consent'[g].of = consent[g].of
        /\ consent'[g].pc \in {"done", "failed"}
    BY <1>3, InsertEffect, AuthorizationAssumption
  <2>2. Inserted(g) = Wanted(g).scopes
    BY <1>3, InsertEffect DEF ConsentWritten, Inserted
  <2>3. /\ consent'[g].rows # {}
        /\ consent'[g].short \/ consent'[g].rows = Wanted(g).scopes
    BY <1>3, <2>2, InsertEffect
  <2>4. consent'[g].rows \subseteq granted'[Wanted(g).owner]
    BY <1>3, <2>1, InsertEffect, WantedStays DEF TypeOK
  <2>5. Wanted(g)' = Wanted(g)
    BY <2>1, WantedStays
  <2>. QED BY <2>1, <2>3, <2>4, <2>5 DEF Written
<1>4. CASE ConsentStep(g) /\ ~GrantInsert(g) /\ MovesOn(g, consent'[g])
  <2>1. consent[g].pc \notin {"done", "failed"}
    BY <1>4 DEF ConsentStep, ConsentStart, GrantCheck, ConsentFails
  <2>2. consent'[g].rows = {} /\ consent'[g].pc # "done"
    BY <1>4, <2>1 DEF MovesOn, ConsentWritten, Written
  <2>. QED BY <2>2 DEF Written
<1>. QED BY <1>1, <1>2, <1>3, <1>4, ConsentMoves

\* A consent that is about to insert asked only for registered scopes.
LEMMA CheckedStep ==
    ASSUME Typed, ConsentWritten, [Next]_vars, NEW g \in Consents, consent'[g].pc = "insert"
    PROVE  Wanted(g)'.scopes \subseteq known'[Wanted(g)'.owner[2]]
<1>. USE DEF Typed
<1>1. consent[g].pc \in {"check", "insert"}
  BY ConsentMoves DEF Starts, MovesOn
<1>2. consent[g].of # Nil
  BY <1>1, AuthorizationAssumption DEF RequestsKnown
<1>3. Wanted(g).scopes \subseteq known[Wanted(g).owner[2]]
  <2>1. CASE consent[g].pc = "insert"
    BY <2>1 DEF ConsentWritten
  <2>2. CASE consent[g].pc = "check"
    <3>1. ConsentStep(g)
      BY <2>2, ConsentMoves DEF Starts
    <3>2. GrantCheck(g)
      BY <2>2, <3>1 DEF ConsentStep, ConsentStart, GrantInsert, ConsentFails, MoveConsent,
                        TypeOK, ConsentState
    <3>3. Wanted(g).scopes \in ReadRows(Unauthorized(Wanted(g).owner, Wanted(g).scopes))
      BY <3>2, CheckEffect
    <3>. QED BY <3>3 DEF ReadRows, Unauthorized
  <2>. QED BY <1>1, <2>1, <2>2
<1>. QED BY <1>2, <1>3, WantedStays, ScopesGrow

\* ConsentWritten is inductive.
LEMMA ConsentWrittenStep ==
    ASSUME Typed, ConsentWritten, [Next]_vars
    PROVE  ConsentWritten'
<1>. USE DEF Typed
<1>1. ASSUME NEW p \in Pages
      PROVE  page'[p].after \subseteq GrantedConsents'
  <2>1. GrantedConsents \subseteq GrantedConsents'
    BY OverStays DEF GrantedConsents
  <2>2. CASE PageStart(p)
    <3>1. PICK r \in PageRequest, pc \in {"refused", "exists", "authorize"} :
            page' = [page EXCEPT ![p].req = r, ![p].after = GrantedConsents, ![p].pc = pc]
      BY <2>2 DEF PageStart
    <3>2. page'[p].after = GrantedConsents
      BY <3>1 DEF TypeOK, PageState
    <3>. QED BY <2>1, <3>2
  <2>3. CASE ~PageStart(p)
    BY <2>1, <2>3, PageMoves DEF ConsentWritten
  <2>. QED BY <2>2, <2>3
<1>2. \A g \in Consents : (consent[g].pc = "insert")' =>
          (Wanted(g).scopes \subseteq known[Wanted(g).owner[2]])'
  BY CheckedStep
<1>3. \A g \in Consents : Written(g)'
  BY WrittenStep
<1>. QED BY <1>1, <1>2, <1>3 DEF ConsentWritten

\* A page that comes to ask for a consent has been told so by AuthorizeClient.
LEMMA Asked ==
    ASSUME Typed, [Next]_vars, NEW p \in Pages, page'[p].pc = "ask", page[p].pc # "ask"
    PROVE  /\ "ask" \in AuthorizeClient(page[p].req.owner, page[p].req.scopes)
           /\ page'[p].req = page[p].req /\ page[p].req \in PageRequest
<1>. USE DEF Typed
<1>1. ~PageStart(p)
  <2>1. ASSUME PageStart(p) PROVE FALSE
    <3>1. PICK r \in PageRequest, pc \in {"refused", "exists", "authorize"} :
            page' = [page EXCEPT ![p].req = r, ![p].after = GrantedConsents, ![p].pc = pc]
      BY <2>1 DEF PageStart
    <3>2. page'[p].pc = pc
      BY <3>1 DEF TypeOK, PageState
    <3>. QED BY <3>2
  <2>. QED BY <2>1
<1>2. /\ PageStep(p) /\ page'[p].req = page[p].req
      /\ page[p].pc \in {"exists", "authorize"}
  BY <1>1, PageMoves
<1>3. page[p].req \in PageRequest
  BY <1>2 DEF RequestsKnown
<1>4. "ask" \in AuthorizeClient(page[p].req.owner, page[p].req.scopes)
  <2>1. CASE PageAuthorize(p)
    BY <1>2, <2>1 DEF PageAuthorize, MovePage, TypeOK, PageState
  <2>2. CASE PageExists(p)
    <3>1. PICK pc \in {"answer", "authorize"}, c \in BOOLEAN :
            page' = [page EXCEPT ![p].pc = pc, ![p].cached = c]
                \/ page' = [page EXCEPT ![p].pc = pc]
      BY <2>2 DEF PageExists
    <3>2. page'[p].pc = pc
      BY <3>1 DEF TypeOK, PageState
    <3>. QED BY <1>2, <3>2
  <2>3. CASE AskConsent(p) \/ AnswerCode(p) \/ AnswerToken(p) \/ PageFails(p)
    BY <1>2, <2>3 DEF AskConsent, AnswerCode, AnswerToken, PageFails, MovePage, TypeOK, PageState
  <2>. QED BY <1>2, <2>1, <2>2, <2>3 DEF PageStep
<1>. QED BY <1>2, <1>3, <1>4

\* With it, NotAskedAgain is.
LEMMA NotAskedStep ==
    ASSUME Typed, ConsentWritten, NotAskedAgain, [Next]_vars
    PROVE  NotAskedAgain'
<1>. USE DEF Typed
<1>1. ASSUME NEW p \in Pages, page'[p].pc \in {"ask", "consent"},
             (page[p].req.scopes \subseteq InsertedBy(page[p].after, page[p].req.owner))'
      PROVE  FALSE
  <2>1. ~PageStart(p)
    <3>1. ASSUME PageStart(p) PROVE FALSE
      <4>1. PICK r \in PageRequest, pc \in {"refused", "exists", "authorize"} :
              page' = [page EXCEPT ![p].req = r, ![p].after = GrantedConsents, ![p].pc = pc]
        BY <3>1 DEF PageStart
      <4>2. page'[p].pc = pc
        BY <4>1 DEF TypeOK, PageState
      <4>. QED BY <1>1, <4>2
    <3>. QED BY <3>1
  <2>2. page'[p].req = page[p].req /\ page'[p].after = page[p].after
    BY <2>1, PageMoves
  <2>3. ASSUME NEW s \in page[p].req.scopes
        PROVE  \E g \in page[p].after :
                 /\ g \in Consents /\ consent[g].of # Nil
                 /\ Wanted(g).owner = page[p].req.owner /\ s \in consent[g].rows
    <3>1. PICK g \in page[p].after : /\ consent'[g].of # Nil /\ s \in consent'[g].rows
                                     /\ Wanted(g)'.owner = page[p].req.owner
      BY <1>1, <2>2, <2>3 DEF InsertedBy
    <3>2. g \in Consents /\ consent[g].pc = "done"
      BY <3>1 DEF ConsentWritten, GrantedConsents
    <3>3. consent'[g] = consent[g]
      BY <3>2, OverStays
    <3>. QED BY <3>1, <3>2, <3>3, WantedStays
  <2>4. page[p].req.scopes \subseteq InsertedBy(page[p].after, page[p].req.owner)
    BY <2>3 DEF InsertedBy
  <2>5. PageStep(p) /\ page'[p].pc = "ask" /\ page[p].pc # "ask"
    BY <1>1, <2>1, <2>4, PageMoves DEF NotAskedAgain
  <2>6. ~ (page[p].req.scopes \subseteq granted[page[p].req.owner])
    BY <2>5, Asked, AskIsForMore
  <2>7. page[p].req.scopes \subseteq granted[page[p].req.owner]
    BY <2>3 DEF ConsentWritten, Written
  <2>. QED BY <2>6, <2>7
<1>2. ASSUME NEW g \in GrantedConsents'
      PROVE  (consent[g].rows # {} /\ (consent[g].short \/ consent[g].rows = Wanted(g).scopes))'
  BY WrittenStep DEF GrantedConsents, Written
<1>. QED BY <1>1, <1>2 DEF NotAskedAgain

\* Consents answered with OK have inserted something, and an account is not asked
\* again for what was inserted.
THEOREM ConsentIsRemembered == Spec => []NotAskedAgain
<1>1. Init => ConsentWritten /\ NotAskedAgain
  BY DEF Init, ConsentWritten, Written, NotAskedAgain, GrantedConsents
<1>. QED BY TypedInit, TypedStep, <1>1, ConsentWrittenStep, NotAskedStep, PTL DEF Spec

-----------------------------------------------------------------------------
(* A refused consent has lost to another one.                              *)

\* The scopes on a consent page are registered; what is granted was inserted by a
\* consent that is over.
ShownKnown == \A p \in Pages : page[p].pc \in {"ask", "consent"} =>
                 page[p].req.scopes \subseteq known[page[p].req.owner[2]]
Grantor(h, o, s) ==
    /\ consent[h].of # Nil /\ consent[h].pc \in {"done", "failed"}
    /\ Wanted(h).owner = o /\ s \in consent[h].rows
GrantsInserted == \A o \in Owners : \A s \in granted[o] : \E h \in Consents : Grantor(h, o, s)
Refusals == ShownKnown /\ GrantsInserted /\ RefusedByAnother

\* At first nothing is shown, granted or refused.
LEMMA RefusalsInit == Init => Refusals
BY DEF Init, Refusals, ShownKnown, GrantsInserted, RefusedByAnother

\* Refusals is inductive.
LEMMA RefusalsStep ==
    ASSUME Typed, ConsentWritten, Refusals, [Next]_vars
    PROVE  Refusals'
<1>. USE DEF Typed
<1>1. ASSUME NEW p \in Pages, page'[p].pc \in {"ask", "consent"}
      PROVE  page'[p].req.scopes \subseteq known'[page'[p].req.owner[2]]
  <2>1. CASE page[p].pc \in {"ask", "consent"}
    <3>1. page'[p].req = page[p].req
      BY <2>1, PageMoves DEF PageStart
    <3>2. page[p].req.scopes \subseteq known[page[p].req.owner[2]]
      BY <2>1 DEF Refusals, ShownKnown
    <3>3. page[p].req.owner[2] \in Clients
      BY <2>1 DEF RequestsKnown, PageRequest, Owners
    <3>. QED BY <3>1, <3>2, <3>3, ScopesGrow
  <2>2. CASE page[p].pc \notin {"ask", "consent"}
    <3>1. ~PageStart(p)
      <4>1. ASSUME PageStart(p) PROVE FALSE
        <5>1. PICK r \in PageRequest, pc \in {"refused", "exists", "authorize"} :
                page' = [page EXCEPT ![p].req = r, ![p].after = GrantedConsents, ![p].pc = pc]
          BY <4>1 DEF PageStart
        <5>2. page'[p].pc = pc
          BY <5>1 DEF TypeOK, PageState
        <5>. QED BY <1>1, <5>2
      <4>. QED BY <4>1
    <3>2. page'[p].pc = "ask"
      BY <1>1, <2>2, <3>1, PageMoves
    <3>3. /\ "ask" \in AuthorizeClient(page[p].req.owner, page[p].req.scopes)
          /\ page'[p].req = page[p].req /\ page[p].req \in PageRequest
      BY <2>2, <3>2, Asked
    <3>4. page[p].req.scopes \subseteq known[page[p].req.owner[2]]
      BY <3>3, AskIsForMore
    <3>5. page[p].req.owner[2] \in Clients
      BY <3>3 DEF PageRequest, Owners
    <3>. QED BY <3>3, <3>4, <3>5, ScopesGrow
  <2>. QED BY <2>1, <2>2
<1>2. ASSUME NEW o \in Owners, NEW s, NEW h \in Consents, Grantor(h, o, s)
      PROVE  Grantor(h, o, s)'
  <2>1. consent'[h] = consent[h] /\ Wanted(h)' = Wanted(h)
    BY <1>2, OverStays, WantedStays DEF Grantor
  <2>. QED BY <1>2, <2>1 DEF Grantor
<1>3. ASSUME NEW o \in Owners, NEW s \in granted'[o]
      PROVE  \E h \in Consents : Grantor(h, o, s)'
  <2>1. CASE s \in granted[o]
    BY <1>2, <2>1 DEF Refusals, GrantsInserted
  <2>2. CASE s \notin granted[o]
    <3>1. PICK g \in Consents : /\ GrantInsert(g) /\ consent[g].of \in Pages
                                /\ Wanted(g).owner = o /\ s \in consent'[g].rows
      BY <1>3, <2>2, Grants
    <3>2. consent'[g].pc \in {"done", "failed"} /\ consent'[g].of = consent[g].of
      BY <3>1, InsertEffect
    <3>3. consent[g].of # Nil /\ Wanted(g)' = Wanted(g)
      BY <3>1, WantedStays, AuthorizationAssumption
    <3>. QED BY <3>1, <3>2, <3>3 DEF Grantor
  <2>. QED BY <2>1, <2>2
<1>4. ASSUME NEW g \in Consents, consent'[g].pc = "refused", consent'[g].of # Nil,
             ~consent'[g].short
      PROVE  (\E h \in Consents \ {g} : \E s \in Wanted(g).scopes : Grantor(h, Wanted(g).owner, s))'
  <2>1. CASE consent'[g] = consent[g]
    <3>1. /\ Wanted(g)' = Wanted(g) /\ Wanted(g).owner \in Owners
      BY <1>4, <2>1, WantedStays
    <3>2. PICK s \in Wanted(g).scopes :
            s \in InsertedBy(Consents \ {g}, Wanted(g).owner)
      BY <1>4, <2>1 DEF Refusals, RefusedByAnother
    <3>3. PICK h \in Consents \ {g} : /\ consent[h].of # Nil /\ s \in consent[h].rows
                                      /\ Wanted(h).owner = Wanted(g).owner
      BY <3>2 DEF InsertedBy
    <3>4. consent[h].pc \in {"done", "failed"}
      BY <3>3 DEF ConsentWritten, Written
    <3>5. Grantor(h, Wanted(g).owner, s)
      BY <3>3, <3>4 DEF Grantor
    <3>. QED BY <1>2, <3>1, <3>5
  <2>2. CASE consent'[g] # consent[g]
    <3>1. ConsentStep(g) /\ consent[g].of = consent'[g].of /\ consent[g].of # Nil
      BY <1>4, <2>2, ConsentMoves DEF Starts, MovesOn
    <3>2. /\ consent[g].of \in Pages /\ Wanted(g)' = Wanted(g) /\ Wanted(g).owner \in Owners
      BY <3>1, WantedStays
    <3>3. GrantCheck(g)
      <4>1. ~GrantInsert(g)
        BY <1>4, InsertEffect
      <4>2. ~ConsentFails(g)
        BY <1>4 DEF ConsentFails, MoveConsent, TypeOK, ConsentState
      <4>3. ~ConsentStart(g)
        BY <3>1 DEF ConsentStart, RequestsKnown
      <4>. QED BY <3>1, <4>1, <4>2, <4>3 DEF ConsentStep
    <3>4. Unauthorized(Wanted(g).owner, Wanted(g).scopes) # Wanted(g).scopes
      BY <1>4, <3>3, CheckEffect
    <3>5. Wanted(g).scopes \subseteq known[Wanted(g).owner[2]]
      BY <3>2 DEF Wanted, RequestsKnown, Refusals, ShownKnown
    <3>6. PICK s \in Wanted(g).scopes : s \in granted[Wanted(g).owner]
      BY <3>4, <3>5 DEF Unauthorized
    <3>7. PICK h \in Consents : Grantor(h, Wanted(g).owner, s)
      BY <3>2, <3>6 DEF Refusals, GrantsInserted
    <3>8. h # g
      BY <3>3, <3>7 DEF Grantor, GrantCheck
    <3>. QED BY <1>2, <3>2, <3>6, <3>7, <3>8
  <2>. QED BY <2>1, <2>2
<1>5. RefusedByAnother'
  <2>1. ASSUME NEW g \in Consents, consent'[g].pc = "refused", consent'[g].of # Nil,
               ~consent'[g].short
        PROVE  (InsertedBy(Consents \ {g}, Wanted(g).owner) \cap Wanted(g).scopes # {})'
    BY <1>4, <2>1 DEF Grantor, InsertedBy
  <2>. QED BY <2>1 DEF RefusedByAnother
<1>6. ShownKnown' /\ GrantsInserted'
  BY <1>1, <1>3 DEF ShownKnown, GrantsInserted
<1>. QED BY <1>5, <1>6 DEF Refusals

\* A consent is refused because of what another one has inserted, or because a loop
\* over rows broke off (authorization-server.go:109-119, authorization.go:43-51).
THEOREM RefusalsAreExplained == Spec => []RefusedByAnother
<1>1. Refusals => RefusedByAnother
  BY DEF Refusals
<1>2. Init => ConsentWritten
  BY DEF Init, ConsentWritten, Written
<1>. QED BY TypedInit, TypedStep, <1>2, ConsentWrittenStep, RefusalsInit, RefusalsStep, <1>1, PTL
     DEF Spec

-----------------------------------------------------------------------------
(* What a purge that is done has deleted.                                  *)

\* What is left of the pages before a purge.  Of the nonces of an account: until the
\* sessions are deleted, only those it has found; then none.  Of the codes of a client:
\* only those it has found; none when they are deleted.
NoncesOf(q) ==
    /\ purge[q].pc # "codes"
    /\ \A p \in LeftNonces(q) : /\ purge[q].pc \notin {"list", "tokens", "done"}
                                /\ purge[q].pc = "sessions" => p \in purge[q].found
CodesOf(q) ==
    /\ purge[q].pc # "sessions"
    /\ purge[q].pc = "codes" => purge[q].found # {}
    /\ purge[q].pc \in {"list", "tokens"} => purge[q].found = {}
    /\ \A p \in LeftCodes(q) : /\ purge[q].pc # "done"
                               /\ purge[q].pc \notin {"idle", "failed"} => p \in purge[q].found

\* Of the tokens: until they are deleted, only keys it has listed; then none, unless
\* it has stopped at the codes of a client.
TokensOf(q) ==
    \A k \in LeftTokens(q) :
        /\ purge[q].pc = "done" => q \in ClientPurges /\ purge[q].found # {}
        /\ purge[q].pc = "tokens" => k \in purge[q].keys

PurgeOf(q) ==
    /\ purge[q].pc = "idle" => purge[q].before = {}
    /\ purge[q].before \subseteq Settled
    /\ q \in AccountPurges => NoncesOf(q)
    /\ q \in ClientPurges => CodesOf(q)
    /\ TokensOf(q)

Purging == \A q \in Purges : PurgeOf(q)

\* At first no purge has begun.
LEMMA PurgingInit == Init => Purging
<1>. SUFFICES ASSUME Init, NEW q \in Purges
              PROVE  PurgeOf(q)
  BY DEF Purging
<1>1. purge[q].pc = "idle" /\ purge[q].before = {}
  BY DEF Init
<1>. QED BY <1>1 DEF PurgeOf, NoncesOf, CodesOf, TokensOf, LeftNonces, LeftCodes, LeftTokens

\* A settled page stays as it is, and writes nothing.
LEMMA SettledStays ==
    ASSUME Typed, [Next]_vars, NEW p \in Settled
    PROVE  /\ p \in Settled' /\ page'[p] = page[p]
           /\ p \in nonce' => p \in nonce
           /\ p \in authc' => p \in authc
           /\ \A k \in TokenKeys : tkn'[k] = p => tkn[k] = p
<1>. USE DEF Typed
<1>1. p \in Pages /\ page[p].pc \in {"consent", "done", "refused", "failed"} /\ p # Nil
  BY AuthorizationAssumption DEF Settled
<1>2. page'[p] = page[p]
  BY <1>1, PageMoves DEF PageStart
<1>3. p \in nonce' => p \in nonce
  <2>1. CASE \E r \in Pages : AskConsent(r)
    BY <1>1, <2>1 DEF AskConsent
  <2>2. CASE \E r \in Pages : PageStart(r) \/ (PageStep(r) /\ ~AskConsent(r))
    BY <2>2 DEF PageStart, PageStep, PageExists, PageAuthorize, AnswerCode, AnswerToken, PageFails,
                redis
  <2>3. CASE \E g \in Consents : ConsentStep(g)
    BY <2>3, ConsentStepEffect DEF WithoutNonce, Starts, MovesOn
  <2>4. CASE Around
    BY <2>4 DEF Around, SessionStored, UpsertScope, Expire, RevokeScopes, Terminating, vars, redis
  <2>5. CASE \E q \in Purges : PurgeAccountStart(q) \/ PurgeClientStart(q) \/ PurgeStep(q)
    BY <2>5 DEF PurgeAccountStart, PurgeClientStart, PurgeStep, PurgeSessions, PurgeCodes,
         PurgeListTokens, PurgeTokens, PurgeFails, redis
  <2>. QED BY <2>1, <2>2, <2>3, <2>4, <2>5, StepOf
<1>4. ASSUME NEW k \in TokenKeys, tkn'[k] = p
      PROVE  tkn[k] = p
  BY <1>1, <1>4, KeyWrites
<1>5. p \in authc' => p \in authc
  <2>1. CASE \E r \in Pages : AnswerCode(r)
    BY <1>1, <2>1 DEF AnswerCode
  <2>2. CASE \E r \in Pages : PageStart(r) \/ (PageStep(r) /\ ~AnswerCode(r))
    BY <2>2 DEF PageStart, PageStep, PageExists, PageAuthorize, AskConsent, AnswerToken, PageFails,
                redis
  <2>3. CASE \E g \in Consents : ConsentStep(g)
    BY <2>3 DEF ConsentStep, ConsentStart, GrantCheck, GrantInsert, ConsentFails, redis
  <2>4. CASE Around
    BY <2>4 DEF Around, SessionStored, UpsertScope, Expire, RevokeScopes, Terminating, vars, redis
  <2>5. CASE \E q \in Purges : PurgeAccountStart(q) \/ PurgeClientStart(q) \/ PurgeStep(q)
    BY <2>5 DEF PurgeAccountStart, PurgeClientStart, PurgeStep, PurgeSessions, PurgeCodes,
         PurgeListTokens, PurgeTokens, PurgeFails, redis
  <2>. QED BY <2>1, <2>2, <2>3, <2>4, <2>5, StepOf
<1>. QED BY <1>1, <1>2, <1>3, <1>4, <1>5 DEF Settled

\* So what is left of the pages before a purge only shrinks.
LEMMA LeftShrinks ==
    ASSUME Typed, [Next]_vars, NEW q \in Purges, purge[q].before \subseteq Settled,
           purge'[q].who = purge[q].who, purge'[q].before = purge[q].before
    PROVE  /\ purge'[q].before \subseteq Settled'
           /\ LeftNonces(q)' \subseteq LeftNonces(q)
           /\ LeftCodes(q)' \subseteq LeftCodes(q)
           /\ LeftTokens(q)' \subseteq LeftTokens(q)
BY SettledStays DEF LeftNonces, LeftCodes, LeftTokens

\* How a purge begins, and how it goes on.
Begins(q) ==
    /\ purge'[q].before = Settled /\ UNCHANGED <<redis, page>>
    /\ \/ q \in AccountPurges /\ purge'[q].pc = "sessions"
          /\ purge'[q].found = FoundNonces(purge'[q].who)
       \/ q \in ClientPurges
          /\ purge'[q].found = {p \in authc : page[p].req.owner[2] = purge'[q].who}
          /\ purge'[q].pc = IF purge'[q].found = {} THEN "list" ELSE "codes"
GoesOn(q) ==
    /\ purge'[q].who = purge[q].who /\ purge'[q].before = purge[q].before
    /\ purge'[q].found = purge[q].found
    /\ purge[q].pc # "idle" /\ UNCHANGED page
    /\ \/ purge'[q].pc = "failed"
       \/ /\ purge[q].pc = "sessions" /\ purge'[q].pc = "list"
          /\ nonce' = nonce \ purge[q].found
       \/ /\ purge[q].pc = "codes" /\ purge'[q].pc = "done"
          /\ authc' = authc \ purge[q].found
       \/ /\ purge[q].pc = "list" /\ purge'[q].pc = "tokens" /\ tkn' = tkn
          /\ purge'[q].keys = {k \in PurgedTokens(purge[q].who) : tkn[k] # Nil}
       \/ /\ purge[q].pc = "tokens" /\ purge'[q].pc = "done"
          /\ \A k \in purge[q].keys : tkn'[k] = Nil

\* What a step does to a purge.
LEMMA PurgeMoves ==
    ASSUME Typed, [Next]_vars, NEW q \in Purges
    PROVE  purge'[q] = purge[q] \/ Begins(q) \/ GoesOn(q)
<1>. USE DEF Typed, TypeOK
<1>1. ASSUME q \in AccountPurges, PurgeAccountStart(q)
      PROVE  Begins(q)
  <2>1. PICK s \in Subjects :
          purge' = [purge EXCEPT ![q] = [pc |-> "sessions", who |-> s, had |-> s \in session,
                      found |-> FoundNonces(s), keys |-> {}, before |-> Settled]]
    BY <1>1 DEF PurgeAccountStart
  <2>2. /\ purge'[q].pc = "sessions" /\ purge'[q].before = Settled
        /\ purge'[q].found = FoundNonces(purge'[q].who)
    BY <2>1
  <2>. QED BY <1>1, <2>2 DEF PurgeAccountStart, Begins
<1>2. ASSUME q \in ClientPurges, PurgeClientStart(q)
      PROVE  Begins(q)
  <2>1. PICK c \in Clients :
          LET found == {p \in authc : page[p].req.owner[2] = c} IN
          purge' = [purge EXCEPT ![q] = [pc |-> IF found = {} THEN "list" ELSE "codes",
                                         who |-> c, had |-> FALSE, found |-> found,
                                         keys |-> {}, before |-> Settled]]
    BY <1>2 DEF PurgeClientStart
  <2>. DEFINE found == {p \in authc : page[p].req.owner[2] = c}
              new == [pc |-> IF found = {} THEN "list" ELSE "codes", who |-> c, had |-> FALSE,
                      found |-> found, keys |-> {}, before |-> Settled]
  <2>2. purge'[q] = new
    BY <2>1
  <2>3. /\ purge'[q].before = Settled /\ purge'[q].who = c /\ purge'[q].found = found
        /\ purge'[q].pc = IF found = {} THEN "list" ELSE "codes"
    BY <2>2
  <2>. QED BY <1>2, <2>3 DEF PurgeClientStart, Begins
<1>3. CASE PurgeStep(q)
  <2>1. ASSUME NEW pc, purge' = [purge EXCEPT ![q].pc = pc]
        PROVE  /\ purge'[q].who = purge[q].who /\ purge'[q].before = purge[q].before
               /\ purge'[q].found = purge[q].found /\ purge'[q].pc = pc
    BY <2>1 DEF PurgeState
  <2>2. CASE PurgeSessions(q)
    <3>1. PICK pc \in {"list", "failed"} : purge' = [purge EXCEPT ![q].pc = pc]
      BY <2>2 DEF PurgeSessions
    <3>. QED BY <2>1, <2>2, <3>1 DEF PurgeSessions, GoesOn
  <2>3. CASE PurgeCodes(q)
    <3>1. PICK pc \in {"done", "failed"} : purge' = [purge EXCEPT ![q].pc = pc]
      BY <2>3 DEF PurgeCodes
    <3>. QED BY <2>1, <2>3, <3>1 DEF PurgeCodes, GoesOn
  <2>4. CASE PurgeListTokens(q)
    <3>1. /\ purge'[q].who = purge[q].who /\ purge'[q].before = purge[q].before
          /\ purge'[q].found = purge[q].found /\ purge'[q].pc = "tokens"
          /\ purge'[q].keys = {k \in PurgedTokens(purge[q].who) : tkn[k] # Nil}
      BY <2>4 DEF PurgeListTokens, PurgeState
    <3>. QED BY <2>4, <3>1 DEF PurgeListTokens, GoesOn, redis
  <2>5. CASE PurgeTokens(q)
    <3>1. PICK pc \in {"done", "failed"} : purge' = [purge EXCEPT ![q].pc = pc]
      BY <2>5 DEF PurgeTokens
    <3>2. \A k \in purge[q].keys : tkn'[k] = Nil
      BY <2>5 DEF PurgeTokens, PurgeState
    <3>. QED BY <2>1, <2>5, <3>1, <3>2 DEF PurgeTokens, GoesOn
  <2>6. CASE PurgeFails(q)
    BY <2>1, <2>6 DEF PurgeFails, GoesOn
  <2>. QED BY <1>3, <2>2, <2>3, <2>4, <2>5, <2>6 DEF PurgeStep
<1>4. ASSUME NEW r \in Purges, r # q, PurgeAccountStart(r) \/ PurgeClientStart(r) \/ PurgeStep(r)
      PROVE  purge'[q] = purge[q]
  BY <1>4 DEF PurgeAccountStart, PurgeClientStart, PurgeStep, PurgeSessions, PurgeCodes,
              PurgeListTokens, PurgeTokens, PurgeFails
<1>5. CASE Around \/ (\E g \in Consents : ConsentStep(g))
           \/ \E p \in Pages : PageStart(p) \/ PageStep(p)
  <2>1. CASE Around
    BY <2>1 DEF Around, SessionStored, UpsertScope, Expire, RevokeScopes, Terminating, vars
  <2>2. CASE \E g \in Consents : ConsentStep(g)
    BY <2>2 DEF ConsentStep, ConsentStart, GrantCheck, GrantInsert, ConsentFails
  <2>3. CASE \E p \in Pages : PageStart(p) \/ PageStep(p)
    BY <2>3, PageStepEffect DEF PageStart
  <2>. QED BY <1>5, <2>1, <2>2, <2>3
<1>. QED BY <1>1, <1>2, <1>3, <1>4, <1>5, StepOf

\* Purging is kept as a purge begins: it has found all there is.
LEMMA PurgingBegins ==
    ASSUME Typed, NEW q \in Purges, Begins(q)
    PROVE  PurgeOf(q)'
<1>1. Settled' = Settled /\ purge'[q].pc \in {"sessions", "list", "codes"}
  BY DEF Begins, Settled
<1>2. ASSUME q \in AccountPurges PROVE NoncesOf(q)'
  BY <1>2, AuthorizationAssumption DEF Begins, NoncesOf, LeftNonces, FoundNonces, redis
<1>3. ASSUME q \in ClientPurges PROVE CodesOf(q)'
  BY <1>3, AuthorizationAssumption DEF Begins, CodesOf, LeftCodes, redis
<1>. QED BY <1>1, <1>2, <1>3 DEF Begins, PurgeOf, TokensOf

\* And as it goes on.
LEMMA PurgingGoesOn ==
    ASSUME Typed, Purging, [Next]_vars, NEW q \in Purges, GoesOn(q)
    PROVE  PurgeOf(q)'
<1>0. PurgeOf(q)
  BY DEF Purging
<1>1. /\ purge'[q].before \subseteq Settled' /\ LeftNonces(q)' \subseteq LeftNonces(q)
      /\ LeftCodes(q)' \subseteq LeftCodes(q) /\ LeftTokens(q)' \subseteq LeftTokens(q)
  BY <1>0, LeftShrinks DEF GoesOn, PurgeOf
<1>2. ASSUME q \in AccountPurges PROVE NoncesOf(q)'
  <2>1. NoncesOf(q)
    BY <1>0, <1>2 DEF PurgeOf
  <2>2. LeftNonces(q)' \subseteq nonce'
    BY DEF LeftNonces
  <2>. QED BY <1>1, <2>1, <2>2 DEF GoesOn, NoncesOf
<1>3. ASSUME q \in ClientPurges PROVE CodesOf(q)'
  <2>1. CodesOf(q)
    BY <1>0, <1>3 DEF PurgeOf
  <2>2. LeftCodes(q)' \subseteq authc'
    BY DEF LeftCodes
  <2>. QED BY <1>1, <2>1, <2>2 DEF GoesOn, CodesOf
<1>4. ASSUME NEW k \in LeftTokens(q)'
      PROVE  /\ purge'[q].pc = "done" => q \in ClientPurges /\ purge'[q].found # {}
             /\ purge'[q].pc = "tokens" => k \in purge'[q].keys
  <2>1. k \in LeftTokens(q) /\ k \in TokenKeys /\ tkn'[k] # Nil
    BY <1>1, <1>4, AuthorizationAssumption DEF LeftTokens, Settled
  <2>2. purge[q].pc = "tokens" => k \in purge[q].keys
    BY <1>0, <2>1 DEF PurgeOf, TokensOf
  <2>3. purge[q].pc = "codes" => q \in ClientPurges /\ purge[q].found # {}
    BY <1>0 DEF PurgeOf, NoncesOf, CodesOf, Purges
  <2>4. k \in PurgedTokens(purge[q].who)
    BY <2>1 DEF LeftTokens, PurgedTokens
  <2>. QED BY <2>1, <2>2, <2>3, <2>4 DEF GoesOn
<1>. QED BY <1>1, <1>2, <1>3, <1>4 DEF PurgeOf, TokensOf, GoesOn

\* Purging is inductive.
LEMMA PurgingStep ==
    ASSUME Typed, Purging, [Next]_vars
    PROVE  Purging'
<1>. SUFFICES ASSUME NEW q \in Purges
              PROVE  PurgeOf(q)'
  BY DEF Purging
<1>1. CASE purge'[q] = purge[q]
  <2>1. PurgeOf(q)
    BY DEF Purging
  <2>2. /\ purge'[q].before \subseteq Settled' /\ LeftNonces(q)' \subseteq LeftNonces(q)
        /\ LeftCodes(q)' \subseteq LeftCodes(q) /\ LeftTokens(q)' \subseteq LeftTokens(q)
    BY <1>1, <2>1, LeftShrinks DEF PurgeOf
  <2>. QED BY <1>1, <2>1, <2>2 DEF PurgeOf, NoncesOf, CodesOf, TokensOf
<1>. QED BY <1>1, PurgingBegins, PurgingGoesOn, PurgeMoves

\* A purge that is done has left none of the keys it is for, of the pages settled
\* before it.
THEOREM PurgeIsFinal == Spec => []PurgeDeletesItsKeys
<1>1. Purging => PurgeDeletesItsKeys
  BY AuthorizationAssumption
     DEF Purging, PurgeOf, NoncesOf, CodesOf, TokensOf, PurgeDeletesItsKeys, Purges
<1>. QED BY TypedInit, TypedStep, PurgingInit, PurgingStep, <1>1, PTL DEF Spec

-----------------------------------------------------------------------------
(* The nonce of a consent page implements OneTimeTicket.                   *)

\* A stored nonce belongs to a page that asked; one that was taken is not stored any
\* more, and was taken by one consent at most.
NonceOnce ==
    /\ \A p \in nonce : page[p].pc \in {"consent", "failed"}
    /\ \A g \in Consents, p \in Pages : WonNonce(g, p) => p \notin nonce
    /\ \A g, h \in Consents, p \in Pages : WonNonce(g, p) /\ WonNonce(h, p) => g = h

Won(p) == \E g \in Consents : WonNonce(g, p)

\* The consent that takes a nonce in this step.
Takes(g, p) ==
    /\ ConsentStart(g) /\ consent[g].of = Nil
    /\ WonNonce(g, p)'
    /\ p \in nonce /\ nonce' = WithoutNonce(p)

\* A nonce is taken in no other way, and never given back.
LEMMA TakersStep ==
    ASSUME Typed, [Next]_vars, NEW g \in Consents, NEW p \in Pages
    PROVE  Takes(g, p) \/ (WonNonce(g, p)' <=> WonNonce(g, p))
<1>1. CASE consent'[g].of = consent[g].of
  BY <1>1 DEF WonNonce
<1>2. CASE ConsentStart(g) /\ Starts(g, consent'[g])
  <2>1. consent[g].of = Nil /\ ~WonNonce(g, p)
    BY <1>2, AuthorizationAssumption DEF Typed, RequestsKnown, WonNonce, Starts
  <2>2. CASE consent'[g].of = p
    BY <1>2, <2>1, <2>2 DEF Takes, WonNonce, Starts
  <2>3. CASE consent'[g].of # p
    BY <2>1, <2>3 DEF WonNonce
  <2>. QED BY <2>2, <2>3
<1>. QED BY <1>1, <1>2, ConsentMoves DEF MovesOn

\* The nonce of a page is stored by AskConsent only.
LEMMA NonceWrites ==
    ASSUME Typed, [Next]_vars, NEW p \in nonce', p \notin nonce
    PROVE  p \in Pages /\ AskConsent(p)
<1>. USE DEF Typed
<1>1. CASE \E r \in Pages : AskConsent(r)
  BY <1>1 DEF AskConsent
<1>2. CASE \E r \in Pages : PageStart(r) \/ (PageStep(r) /\ ~AskConsent(r))
  BY <1>2 DEF PageStart, PageStep, PageExists, PageAuthorize, AnswerCode, AnswerToken, PageFails,
              redis
<1>3. CASE \E g \in Consents : ConsentStep(g)
  BY <1>3, ConsentStepEffect DEF WithoutNonce, Starts, MovesOn
<1>4. CASE Around
  BY <1>4 DEF Around, SessionStored, UpsertScope, Expire, RevokeScopes, Terminating, vars, redis
<1>5. CASE \E q \in Purges : PurgeAccountStart(q) \/ PurgeClientStart(q) \/ PurgeStep(q)
  BY <1>5 DEF PurgeAccountStart, PurgeClientStart, PurgeStep, PurgeSessions, PurgeCodes,
       PurgeListTokens, PurgeTokens, PurgeFails, redis
<1>. QED BY <1>1, <1>2, <1>3, <1>4, <1>5, StepOf

\* What AskConsent does to its page.
LEMMA AskEffect ==
    ASSUME Typed, NEW p \in Pages, AskConsent(p)
    PROVE  /\ page[p].pc = "ask" /\ page'[p].pc \in {"consent", "failed"}
           /\ \A r \in Pages : r # p => page'[r] = page[r]
           /\ nonce' = nonce \cup {p} /\ consent' = consent
<1>1. PICK pc \in {"consent", "failed"} : page' = [page EXCEPT ![p].pc = pc]
  BY DEF AskConsent, MovePage
<1>2. page'[p].pc = pc
  BY <1>1 DEF Typed, TypeOK, PageState
<1>. QED BY <1>1, <1>2 DEF AskConsent

\* NonceOnce is inductive.
LEMMA NonceOnceStep ==
    ASSUME Typed, NonceOnce, [Next]_vars
    PROVE  NonceOnce'
<1>. USE DEF Typed
<1>1. ASSUME NEW p \in nonce'
      PROVE  page'[p].pc \in {"consent", "failed"}
  <2>1. CASE p \in nonce
    <3>1. p \in Pages /\ page[p].pc \in {"consent", "failed"}
      BY <2>1 DEF NonceOnce, TypeOK
    <3>. QED BY <3>1, PageMoves DEF PageStart
  <2>2. CASE p \notin nonce
    BY <2>2, NonceWrites, AskEffect
  <2>. QED BY <2>1, <2>2
<1>2. ASSUME NEW g \in Consents, NEW p \in Pages, WonNonce(g, p)'
      PROVE  p \notin nonce'
  <2>1. CASE WonNonce(g, p)
    <3>1. p \notin nonce /\ page[p].pc = "consent"
      BY <2>1 DEF NonceOnce, WonNonce, RequestsKnown
    <3>. QED BY <3>1, NonceWrites, AskEffect
  <2>2. CASE Takes(g, p)
    BY <2>2 DEF Takes, WithoutNonce
  <2>. QED BY <1>2, <2>1, <2>2, TakersStep
<1>3. ASSUME NEW g \in Consents, NEW h \in Consents, NEW p \in Pages,
             WonNonce(g, p)', WonNonce(h, p)', g # h
      PROVE  FALSE
  <2>1. ASSUME NEW x \in Consents, NEW y \in Consents, x # y, Takes(x, p), WonNonce(y, p)'
        PROVE  FALSE
    <3>1. ~WonNonce(y, p)
      BY <2>1 DEF Takes, NonceOnce
    <3>2. consent'[y] = consent[y]
      BY <2>1 DEF Takes, ConsentStart, MoveConsent, TypeOK
    <3>. QED BY <2>1, <3>1, <3>2 DEF WonNonce
  <2>. QED BY <1>3, <2>1, TakersStep DEF NonceOnce
<1>. QED BY <1>1, <1>2, <1>3 DEF NonceOnce

-----------------------------------------------------------------------------

\* The consent that takes a nonce redeems that ticket, and only that.
LEMMA TakeRedeems ==
    ASSUME Typed, NonceOnce, [Next]_vars, NEW g \in Consents, NEW p \in Pages, Takes(g, p)
    PROVE  NonceTickets!Redeem(p, g)
<1>. USE DEF Typed, TypeOK
<1>1. p \in nonce /\ nonce' = WithoutNonce(p) /\ page' = page /\ WonNonce(g, p)'
  BY DEF Takes, ConsentStart
<1>2. ~Won(p)
  BY <1>1 DEF Won, NonceOnce
<1>3. NonceStatus(p) = "live" /\ NonceStatus(p)' = "spent"
  BY <1>1, <1>2 DEF NonceStatus, Won
<1>4. ASSUME NEW h \in Consents, NEW r \in Pages, h # g \/ r # p
      PROVE  WonNonce(h, r)' <=> WonNonce(h, r)
  <2>1. CASE h # g
    <3>1. consent'[h] = consent[h]
      BY <2>1 DEF Takes, ConsentStart, MoveConsent
    <3>. QED BY <3>1 DEF WonNonce
  <2>2. CASE h = g /\ r # p
    BY <1>1, <2>2, AuthorizationAssumption DEF Takes, WonNonce
  <2>. QED BY <1>4, <2>1, <2>2
<1>5. ASSUME NEW r \in Pages, r # p
      PROVE  NonceStatus(r)' = NonceStatus(r)
  <2>1. r \in nonce' <=> r \in nonce
    BY <1>1, <1>5 DEF WithoutNonce
  <2>2. (\E h \in Consents : WonNonce(h, r))' <=> \E h \in Consents : WonNonce(h, r)
    BY <1>4, <1>5
  <2>. QED BY <1>1, <2>1, <2>2 DEF NonceStatus
<1>6. [r \in Pages |-> NonceStatus(r)]' = [[r \in Pages |-> NonceStatus(r)] EXCEPT ![p] = "spent"]
  BY <1>3, <1>5
<1>7. {h \in Consents : WonNonce(h, p)}' = {g}
  <2>1. \A h \in Consents : WonNonce(h, p)' <=> h = g
    BY <1>1, <1>2, <1>4 DEF Won
  <2>. QED BY <2>1
<1>8. [r \in Pages |-> {h \in Consents : WonNonce(h, r)}]'
        = [[r \in Pages |-> {h \in Consents : WonNonce(h, r)}] EXCEPT ![p] = {g}]
  <2>1. \A r \in Pages : r # p => {h \in Consents : WonNonce(h, r)}'
                                  = {h \in Consents : WonNonce(h, r)}
    BY <1>4
  <2>. QED BY <1>7, <2>1
<1>. QED BY <1>3, <1>6, <1>8 DEF NonceTickets!Redeem

\* Without a taker, the holders of all tickets are what they were.
LEMMA HoldersKept ==
    ASSUME Typed, [Next]_vars, \A g \in Consents, p \in Pages : ~Takes(g, p)
    PROVE  /\ \A p \in Pages : Won(p)' <=> Won(p)
           /\ [p \in Pages |-> {g \in Consents : WonNonce(g, p)}]'
                = [p \in Pages |-> {g \in Consents : WonNonce(g, p)}]
<1>1. \A g \in Consents, p \in Pages : WonNonce(g, p)' <=> WonNonce(g, p)
  BY TakersStep
<1>. QED BY <1>1 DEF Won

\* Then a ticket keeps its status or becomes useless, unless it is being issued.
LEMMA StatusKeptOrVoid ==
    ASSUME Typed, NonceOnce, [Next]_vars, NEW p \in Pages,
           \A g \in Consents, r \in Pages : ~Takes(g, r), ~AskConsent(p)
    PROVE  \/ NonceStatus(p)' = NonceStatus(p)
           \/ NonceStatus(p) \in {"unissued", "live"} /\ NonceStatus(p)' = "void"
<1>1. Won(p)' <=> Won(p)
  BY HoldersKept
<1>2. p \in nonce' => p \in nonce
  BY NonceWrites
<1>3. p \in nonce => page[p].pc \in {"consent", "failed"}
  BY DEF NonceOnce
<1>4. page[p].pc \in {"consent", "failed"} => page'[p].pc \in {"consent", "failed"}
  BY PageMoves DEF PageStart
<1>. QED BY <1>1, <1>2, <1>3, <1>4 DEF NonceStatus, Won

\* AskConsent issues its ticket.
LEMMA AskIssues ==
    ASSUME Typed, NonceOnce, [Next]_vars, NEW p \in Pages, AskConsent(p)
    PROVE  NonceTickets!Issue(p, {})
<1>1. \A g \in Consents, r \in Pages : ~Takes(g, r)
  BY AskEffect DEF Takes, ConsentStart, WithoutNonce
<1>2. page[p].pc = "ask" /\ p \notin nonce /\ p \in nonce'
  BY AskEffect DEF NonceOnce
<1>3. ~Won(p) /\ ~Won(p)'
  BY <1>1, <1>2, HoldersKept DEF Won, WonNonce, Typed, RequestsKnown
<1>4. NonceStatus(p) = "unissued" /\ NonceStatus(p)' = "live"
  BY <1>2, <1>3 DEF NonceStatus, Won
<1>5. ASSUME NEW r \in Pages, r # p
      PROVE  NonceStatus(r)' = NonceStatus(r)
  <2>1. page'[r] = page[r] /\ (r \in nonce' <=> r \in nonce)
    BY <1>5, AskEffect
  <2>2. Won(r)' <=> Won(r)
    BY <1>1, HoldersKept
  <2>. QED BY <2>1, <2>2 DEF NonceStatus, Won
<1>6. [r \in Pages |-> NonceStatus(r)]'
        = [r \in Pages |-> CASE r = p -> "live"
                             [] r \in {} \ {p} -> "void"
                             [] OTHER -> [t \in Pages |-> NonceStatus(t)][r]]
  BY <1>4, <1>5
<1>. QED BY <1>1, <1>4, <1>6, HoldersKept DEF NonceTickets!Issue

\* The steps that neither issue nor take a nonce at most throw tickets away.
LEMMA OthersDiscard ==
    ASSUME Typed, NonceOnce, [Next]_vars,
           \A g \in Consents, p \in Pages : ~Takes(g, p), \A p \in Pages : ~AskConsent(p)
    PROVE  \E D \in SUBSET NonceTickets!Disposable : NonceTickets!Discard(D)
<1>. DEFINE D == {p \in Pages : NonceStatus(p)' # NonceStatus(p)}
<1>1. \A p \in D : NonceStatus(p) \in {"unissued", "live"} /\ NonceStatus(p)' = "void"
  BY StatusKeptOrVoid
<1>2. D \in SUBSET NonceTickets!Disposable
  BY <1>1 DEF NonceTickets!Disposable
<1>3. [p \in Pages |-> NonceStatus(p)]'
        = [p \in Pages |-> IF p \in D THEN "void" ELSE [r \in Pages |-> NonceStatus(r)][p]]
  BY <1>1
<1>. QED BY <1>2, <1>3, HoldersKept DEF NonceTickets!Discard

\* Every step maps to a step of OneTimeTicket.
LEMMA NonceSimulation ==
    Typed /\ NonceOnce /\ [Next]_vars => [NonceTickets!Next]_(NonceTickets!vars)
<1>. SUFFICES ASSUME Typed, NonceOnce, [Next]_vars
              PROVE  NonceTickets!Next
  OBVIOUS
<1>1. CASE \E g \in Consents, p \in Pages : Takes(g, p)
  BY <1>1, TakeRedeems DEF NonceTickets!Next
<1>2. CASE \E p \in Pages : AskConsent(p)
  <2>1. {} \in SUBSET NonceTickets!Disposable
    OBVIOUS
  <2>. QED BY <1>2, <2>1, AskIssues DEF NonceTickets!Next
<1>3. CASE /\ \A g \in Consents, p \in Pages : ~Takes(g, p)
           /\ \A p \in Pages : ~AskConsent(p)
  BY <1>3, OthersDiscard DEF NonceTickets!Next
<1>. QED BY <1>1, <1>2, <1>3

\* The initial states map to its initial state.
LEMMA NonceStarts == Init => NonceOnce /\ NonceTickets!Init
<1>. SUFFICES ASSUME Init PROVE NonceOnce /\ NonceTickets!Init
  OBVIOUS
<1>1. \A g \in Consents, p \in Pages : ~WonNonce(g, p)
  BY AuthorizationAssumption DEF Init, WonNonce
<1>2. nonce = {} /\ \A p \in Pages : page[p].pc = "idle"
  BY DEF Init
<1>3. \A p \in Pages : NonceStatus(p) = "unissued"
  BY <1>1, <1>2 DEF NonceStatus
<1>. QED BY <1>1, <1>2, <1>3 DEF NonceOnce, NonceTickets!Init

\* A consent page is a one-time ticket: however many consents present its nonce at
\* once, one at most gets as far as GrantScopes.
THEOREM ConsentOneTime == Spec => ConsentIsOneTime
BY TypedInit, TypedStep, NonceStarts, NonceOnceStep, NonceSimulation, PTL
   DEF Spec, ConsentIsOneTime, NonceTickets!Spec
=============================================================================
