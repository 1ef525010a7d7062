----------------------- MODULE SessionLifecycle_proofs -----------------------
(***************************************************************************)
(* Proofs about the session life cycle, for all values of the constants.   *)
(***************************************************************************)
EXTENDS SessionProperties, TLAPS

-----------------------------------------------------------------------------
(* Type correctness.                                                       *)

\* A request that has begun is known, and only such a request is served.
RequestsKnown ==
    /\ \A l \in Logins : IF login[l].pc = "idle" THEN login[l].call = "none"
                         ELSE login[l].req \in LoginRequest
    /\ \A a \in Activations : activation[a].pc # "idle" \/ activation[a].call # "none"
                              => activation[a].req \in ActivateRequest
    /\ \A p \in Purges : purge[p].pc # "idle" => purge[p].req \in PurgeRequest

Typed == TypeOK /\ RequestsKnown

\* A deadline is a natural number, whatever expiration SET was given.
LEMMA DeadlineType ==
    ASSUME now \in Nat, NEW e \in Int
    PROVE  Deadline(e) \in Nat
BY DEF Deadline, NoExpiry

\* The initial state is well typed.
LEMMA TypedInit == Init => Typed
BY MethodAssumption
   DEF Init, Typed, TypeOK, RequestsKnown, NoDocument, Document,
       LoginState, ActivationState, PurgeState

\* Every step of a sign-in keeps the state well typed.
LEMMA TypedLogin ==
    ASSUME Typed, NEW l \in Logins,
           \/ LoginStart(l) \/ SignIn(l) \/ SignInDenied(l) \/ LoginStep(l)
    PROVE  Typed'
<1>. USE DEF Typed, TypeOK, RequestsKnown, redis, LoginState
<1>1. CASE LoginStart(l)
  <2>1. PICK req \in LoginRequest :
          login' = [login EXCEPT ![l].pc = "signin", ![l].req = req, ![l].call = "sent"]
    BY <1>1 DEF LoginStart
  <2>. DEFINE new == [login[l] EXCEPT !.pc = "signin", !.req = req, !.call = "sent"]
  <2>2. new \in LoginState /\ new.req \in LoginRequest
    OBVIOUS
  <2>3. login' = [login EXCEPT ![l] = new]
    BY <2>1
  <2>. HIDE DEF new
  <2>4. TypeOK'
    BY <1>1, <2>2, <2>3 DEF LoginStart
  <2>5. RequestsKnown'
    BY <1>1, <2>2, <2>3 DEF LoginStart
  <2>. QED BY <2>4, <2>5
<1>2. CASE SignIn(l)
  <2>. DEFINE req == login[l].req
  <2>1. req \in LoginRequest
    BY <1>2 DEF SignIn
  <2>2. CASE SendsCode(req.sub)
    <3>1. PICK code \in Codes, reply \in {"ok", "error"} :
            /\ act' = [act EXCEPT ![<<req.sid, code, req.agent>>] = NewActivationCode(l)]
            /\ login' = [login EXCEPT ![l].call = reply]
      BY <1>2, <2>2 DEF SignIn
    <3>2. Deadline(MFASessionDuration) \in Nat
      BY DeadlineType, DurationAssumption
    <3>3. NewActivationCode(l) \in ActivationCode
      BY <2>1, <3>2 DEF NewActivationCode, ActivationCode, LoginRequest
    <3>4. act' \in [CodeKeys -> ActivationCode \cup {Nil}]
      BY <3>1, <3>3
    <3>. QED BY <1>2, <2>1, <3>1, <3>4 DEF SignIn
  <2>3. CASE ~SendsCode(req.sub)
    BY <1>2, <2>1, <2>3 DEF SignIn
  <2>. QED BY <2>2, <2>3
<1>3. CASE SignInDenied(l)
  BY <1>3 DEF SignInDenied
<1>4. CASE LoginRead(l)
  <2>. DEFINE req == login[l].req
  <2>1. req \in LoginRequest
    BY <1>4 DEF LoginRead
  <2>2. KeyOf(req) \in Keys
    BY <2>1 DEF KeyOf, Keys, LoginRequest
  <2>3. CachedDocument(KeyOf(req)) \in Document
    BY <2>2 DEF CachedDocument, NoDocument, Document, Session
  <2>4. SignedInDocument(req) \in Document
    BY <2>3, DurationAssumption DEF SignedInDocument, Document
  <2>5. CachedBy(KeyOf(req)) \in Writers \cup {Nil}
    BY <2>2 DEF CachedBy, Session
  <2>. QED BY <1>4, <2>1, <2>4, <2>5 DEF LoginRead
<1>5. CASE LoginChallenge(l)
  <2>1. login[l].req \in LoginRequest
    BY <1>5 DEF LoginChallenge
  <2>2. Deadline(MFASessionDuration) \in Nat
    BY DeadlineType, DurationAssumption
  <2>3. NewChallenge(l) \in Challenge
    BY <2>1, <2>2 DEF NewChallenge, Challenge, LoginRequest
  <2>4. clg' \in [Keys -> Challenge \cup {Nil}]
    BY <1>5, <2>3 DEF LoginChallenge
  <2>. QED BY <1>5, <2>1, <2>4 DEF LoginChallenge
<1>6. CASE LoginStore(l)
  <2>. DEFINE req == login[l].req
              new == [doc |-> login[l].doc, by |-> l,
                      dl |-> Deadline(LoginLifetime(req, login[l].doc))]
  <2>1. LoginLifetime(req, login[l].doc) \in Int
    BY DurationAssumption DEF LoginLifetime, GetExpirationFromAuthentication
  <2>2. new \in Session
    BY <2>1, DeadlineType DEF Session, Writers
  <2>3. sess' \in [Keys -> Session \cup {Nil}]
    BY <1>6, <2>2 DEF LoginStore
  <2>. QED BY <1>6, <2>3 DEF LoginStore
<1>7. CASE LoginCallFails(l)
  BY <1>7 DEF LoginCallFails
<1>8. CASE LoginFails(l)
  BY <1>8 DEF LoginFails
<1>. QED BY <1>1, <1>2, <1>3, <1>4, <1>5, <1>6, <1>7, <1>8 DEF LoginStep

\* Every step of an activation keeps the state well typed.
LEMMA TypedActivation ==
    ASSUME Typed, NEW a \in Activations,
           \/ ActivateStart(a) \/ ActivateSession(a)
           \/ ActivateSessionLost(a) \/ ActivateStep(a)
    PROVE  Typed'
<1>. USE DEF Typed, TypeOK, RequestsKnown, redis, ActivationState
<1>1. CASE ActivateStart(a)
  <2>1. PICK req \in ActivateRequest :
          /\ clg' \in {clg, WithoutChallenge(KeyOf(req))}
          /\ \E pc \in {"read", "refused"} :
               activation' = [activation EXCEPT ![a].req = req, ![a].pc = pc]
    BY <1>1 DEF ActivateStart
  <2>2. clg' \in [Keys -> Challenge \cup {Nil}]
    BY <2>1 DEF WithoutChallenge
  <2>3. PICK pc \in {"read", "refused"} :
          activation' = [activation EXCEPT ![a].req = req, ![a].pc = pc]
    BY <2>1
  <2>. DEFINE new == [activation[a] EXCEPT !.req = req, !.pc = pc]
  <2>4. new \in ActivationState /\ new.req \in ActivateRequest
    OBVIOUS
  <2>5. activation' = [activation EXCEPT ![a] = new]
    BY <2>3
  <2>. HIDE DEF new
  <2>6. TypeOK'
    BY <1>1, <2>2, <2>4, <2>5 DEF ActivateStart
  <2>7. RequestsKnown'
    BY <1>1, <2>4, <2>5 DEF ActivateStart
  <2>. QED BY <2>6, <2>7
<1>2. CASE ActivateRead(a)
  <2>1. KeyOf(activation[a].req) \in Keys
    BY <1>2 DEF ActivateRead, KeyOf, Keys, ActivateRequest
  <2>2. PICK new \in ActivationState :
          /\ activation' = [activation EXCEPT ![a] = new]
          /\ new.req = activation[a].req
    <3>. DEFINE k == KeyOf(activation[a].req)
    <3>1. CASE sess[k] = Nil
      <4>. WITNESS [activation[a] EXCEPT !.pc = "failed"] \in ActivationState
      <4>. QED BY <1>2, <3>1 DEF ActivateRead
    <3>2. CASE sess[k] # Nil
      <4>1. sess[k].doc \in Document
        BY <2>1, <3>2 DEF Session
      <4>2. [activation[a] EXCEPT !.pc = "call", !.call = "sent", !.doc = sess[k].doc]
              \in ActivationState
        BY <4>1
      <4>. WITNESS [activation[a] EXCEPT !.pc = "call", !.call = "sent",
                                        !.doc = sess[k].doc] \in ActivationState
      <4>. QED BY <1>2, <3>2 DEF ActivateRead
    <3>. QED BY <3>1, <3>2
  <2>3. /\ UNCHANGED <<now, sess, clg, act, login, purge>>
        /\ activation[a].pc = "read"
    BY <1>2 DEF ActivateRead
  <2>4. TypeOK'
    BY <2>2, <2>3
  <2>5. RequestsKnown'
    BY <2>2, <2>3
  <2>. QED BY <2>4, <2>5
<1>3. CASE ActivateSession(a)
  <2>. DEFINE c == CodeKeyOf(activation[a].req)
  <2>1. c \in CodeKeys
    BY <1>3 DEF ActivateSession, CodeKeyOf, CodeKeys, ActivateRequest
  <2>2. act' \in [CodeKeys -> ActivationCode \cup {Nil}]
    BY <1>3 DEF ActivateSession, WithoutCode
  <2>3. ValidCode(c, activation[a].req.sub) => act[c].of \in Logins
    BY <2>1 DEF ValidCode, ActivationCode
  <2>4. PICK new \in ActivationState :
          /\ activation' = [activation EXCEPT ![a] = new]
          /\ new.req = activation[a].req
    <3>1. CASE ValidCode(c, activation[a].req.sub)
      <4>1. [activation[a] EXCEPT !.call = "ok", !.codeOf = act[c].of] \in ActivationState
        BY <2>3, <3>1
      <4>. WITNESS [activation[a] EXCEPT !.call = "ok", !.codeOf = act[c].of]
                     \in ActivationState
      <4>. QED BY <1>3, <3>1 DEF ActivateSession
    <3>2. CASE ~ValidCode(c, activation[a].req.sub)
      <4>. WITNESS [activation[a] EXCEPT !.call = "denied"] \in ActivationState
      <4>. QED BY <1>3, <3>2 DEF ActivateSession
    <3>. QED BY <3>1, <3>2
  <2>5. TypeOK'
    BY <1>3, <2>2, <2>4 DEF ActivateSession
  <2>6. RequestsKnown'
    BY <1>3, <2>4 DEF ActivateSession
  <2>. QED BY <2>5, <2>6
<1>4. CASE ActivateSessionLost(a)
  <2>1. act' \in [CodeKeys -> ActivationCode \cup {Nil}]
    BY <1>4 DEF ActivateSessionLost, WithoutCode
  <2>. QED BY <1>4, <2>1 DEF ActivateSessionLost
<1>5. CASE ActivateStore(a)
  <2>. DEFINE doc == activation[a].doc
              new == [doc |-> [doc EXCEPT !.act = now], by |-> a,
                      dl |-> Deadline(ActivatedLifetime(doc))]
  <2>1. ActivatedLifetime(doc) \in Int
    BY DEF ActivatedLifetime, Since, Document
  <2>2. new \in Session
    BY <2>1, DeadlineType DEF Session, Writers, Document
  <2>3. sess' \in [Keys -> Session \cup {Nil}]
    BY <1>5, <2>2 DEF ActivateStore
  <2>. QED BY <1>5, <2>3 DEF ActivateStore
<1>6. CASE ActivateFails(a)
  BY <1>6 DEF ActivateFails
<1>. QED BY <1>1, <1>2, <1>3, <1>4, <1>5, <1>6 DEF ActivateStep

\* Every step of a purge keeps the state well typed.
LEMMA TypedPurge ==
    ASSUME Typed, NEW p \in Purges, PurgeListSessions(p) \/ PurgeStep(p)
    PROVE  Typed'
<1>. USE DEF Typed, TypeOK, RequestsKnown, redis, PurgeState
<1>1. CASE PurgeListSessions(p)
  <2>1. PICK req \in PurgeRequest : purge' = [purge EXCEPT
            ![p].pc = "delete", ![p].req = req, ![p].before = Settled,
            ![p].keys = {k \in Purged(req) : sess[k] # Nil},
            ![p].clgs = FoundChallenges(req)]
    BY <1>1 DEF PurgeListSessions
  <2>2. /\ {k \in Purged(req) : sess[k] # Nil} \in SUBSET Keys
        /\ FoundChallenges(req) \in SUBSET Keys
        /\ Settled \in SUBSET Writers
    BY DEF Purged, FoundChallenges, Settled, Writers
  <2>. DEFINE new == [purge[p] EXCEPT
            !.pc = "delete", !.req = req, !.before = Settled,
            !.keys = {k \in Purged(req) : sess[k] # Nil}, !.clgs = FoundChallenges(req)]
  <2>3. new \in PurgeState /\ new.req \in PurgeRequest
    BY <2>2
  <2>4. purge' = [purge EXCEPT ![p] = new]
    BY <2>1
  <2>. HIDE DEF new
  <2>. QED BY <1>1, <2>3, <2>4 DEF PurgeListSessions
<1>2. CASE PurgeDeleteSessions(p)
  BY <1>2 DEF PurgeDeleteSessions
<1>3. CASE PurgeListCodes(p)
  <2>. DEFINE found == {c \in CodeKeys : c[1] = purge[p].req.sid /\ act[c] # Nil}
  <2>1. found \in SUBSET CodeKeys
    OBVIOUS
  <2>. DEFINE new == [purge[p] EXCEPT !.pc = "deletecodes", !.codes = found]
  <2>2. purge' = [purge EXCEPT ![p] = new]
    BY <1>3 DEF PurgeListCodes
  <2>. HIDE DEF found
  <2>3. new \in PurgeState /\ new.req = purge[p].req
    BY <2>1
  <2>. HIDE DEF new
  <2>4. /\ UNCHANGED <<now, sess, clg, act, login, activation>>
        /\ purge[p].pc = "codes"
    BY <1>3 DEF PurgeListCodes
  <2>5. TypeOK'
    BY <2>2, <2>3, <2>4
  <2>6. RequestsKnown'
    BY <2>2, <2>3, <2>4
  <2>. QED BY <2>5, <2>6
<1>4. CASE PurgeDeleteCodes(p)
  BY <1>4 DEF PurgeDeleteCodes
<1>5. CASE PurgeFails(p)
  BY <1>5, SMTT(20) DEF PurgeFails
<1>. QED BY <1>1, <1>2, <1>3, <1>4, <1>5 DEF PurgeStep

\* So does the clock.
LEMMA TypedTick == Typed /\ Tick => Typed'
BY DEF Typed, TypeOK, RequestsKnown, Tick, Unexpired

\* Every step keeps the state well typed.
LEMMA TypedStep == Typed /\ [Next]_vars => Typed'
<1>. SUFFICES ASSUME Typed, [Next]_vars PROVE Typed'
  OBVIOUS
<1>1. CASE UNCHANGED vars
  BY <1>1 DEF vars, Typed, TypeOK, RequestsKnown
<1>2. CASE Terminating
  BY <1>1, <1>2 DEF Terminating
<1>. QED BY <1>1, <1>2, TypedLogin, TypedActivation, TypedPurge, TypedTick DEF Next

\* Every reachable state is well typed.
THEOREM TypeCorrect == Spec => []TypeOK
<1>1. Typed => TypeOK
  BY DEF Typed
<1>. QED BY TypedInit, TypedStep, <1>1, PTL DEF Spec

-----------------------------------------------------------------------------
(* Activation is earned, and pending sessions are short-lived.             *)

\* The secrets in Redis were made for a sign-in with a checked password, and for
\* the session, account and browser that can present them.
SecretsFounded ==
    /\ \A k \in Keys : clg[k] # Nil =>
          PasswordChecked(clg[k].of, k[1], k[2], clg[k].agent)
    /\ \A c \in CodeKeys : act[c] # Nil =>
          PasswordChecked(act[c].of, c[1], act[c].sub, c[3])

\* Whatever secret an activation was accepted with is so, too.
Accepted(a) ==
    LET req == activation[a].req IN
    /\ activation[a].call # "none" => activation[a].pc \in {"call", "done", "failed"}
    /\ activation[a].pc \in {"read", "call", "done", "failed"} =>
         /\ req.challenge \in Logins
         /\ PasswordChecked(req.challenge, req.sid, req.sub, req.agent)
    /\ activation[a].call = "ok" =>
         /\ activation[a].codeOf \in Logins
         /\ PasswordChecked(activation[a].codeOf, req.sid, req.sub, req.agent)

AcceptedFounded == \A a \in Activations : Accepted(a)

\* A document, in Redis or in the hands of a handler: it has an authentication
\* date, and an activation date only if that was earned.
Founded(doc, k) ==
    /\ doc.auth > 0
    /\ doc.act # 0 /\ Method[k[2]] # "NONE" => \E a \in Activations : ActivatedBy(a, k)

LoginFounded(l) ==
    login[l].pc \in {"challenge", "store"} =>
        /\ login[l].call = "ok"
        /\ Founded(login[l].doc, KeyOf(login[l].req))
        /\ Method[login[l].req.sub] = "NONE" => login[l].doc.act # 0

DocumentsFounded ==
    /\ \A k \in Keys : sess[k] # Nil => Founded(sess[k].doc, k)
    /\ \A l \in Logins : LoginFounded(l)
    /\ \A a \in Activations : activation[a].pc = "call" => activation[a].doc.auth > 0

\* Who has written a session is done with it.
Over(w) == IF w \in Logins THEN login[w].pc \in {"done", "failed"} ELSE activation[w].pc = "done"

WritersOver == \A k \in Keys : sess[k] # Nil => Over(sess[k].by)

IInv == /\ Typed /\ SecretsFounded /\ AcceptedFounded /\ DocumentsFounded
        /\ WritersOver /\ PendingIsShortLived

\* A sign-in changes by its own steps only.
LEMMA LoginMoves ==
    ASSUME Typed, [Next]_vars, NEW l \in Logins
    PROVE  \/ login'[l] = login[l]
           \/ LoginStart(l) \/ SignIn(l) \/ SignInDenied(l) \/ LoginStep(l)
<1>. USE DEF Typed, TypeOK
<1>1. CASE Tick \/ Terminating \/ UNCHANGED vars
  BY <1>1 DEF Tick, Terminating, vars
<1>2. CASE \E p \in Purges : PurgeListSessions(p) \/ PurgeStep(p)
  BY <1>2 DEF PurgeListSessions, PurgeStep, PurgeDeleteSessions, PurgeListCodes,
              PurgeDeleteCodes, PurgeFails
<1>3. ASSUME NEW a \in Activations,
             \/ ActivateStart(a) \/ ActivateSession(a)
             \/ ActivateSessionLost(a) \/ ActivateStep(a)
      PROVE  login'[l] = login[l]
  BY <1>3 DEF ActivateStart, ActivateSession, ActivateSessionLost, ActivateStep,
              ActivateRead, ActivateStore, ActivateFails
<1>4. ASSUME NEW m \in Logins, m # l,
             \/ LoginStart(m) \/ SignIn(m) \/ SignInDenied(m) \/ LoginStep(m)
      PROVE  login'[l] = login[l]
  BY <1>4 DEF LoginStart, SignIn, SignInDenied, LoginStep, LoginRead, LoginChallenge,
              LoginStore, LoginCallFails, LoginFails
<1>. QED BY <1>1, <1>2, <1>3, <1>4 DEF Next

\* An activation changes by its own steps only.
LEMMA ActivationMoves ==
    ASSUME Typed, [Next]_vars, NEW a \in Activations
    PROVE  \/ activation'[a] = activation[a]
           \/ ActivateStart(a) \/ ActivateSession(a)
           \/ ActivateSessionLost(a) \/ ActivateStep(a)
<1>. USE DEF Typed, TypeOK
<1>1. CASE Tick \/ Terminating \/ UNCHANGED vars
  BY <1>1 DEF Tick, Terminating, vars
<1>2. CASE \E p \in Purges : PurgeListSessions(p) \/ PurgeStep(p)
  BY <1>2 DEF PurgeListSessions, PurgeStep, PurgeDeleteSessions, PurgeListCodes,
              PurgeDeleteCodes, PurgeFails
<1>3. ASSUME NEW b \in Activations, b # a,
             \/ ActivateStart(b) \/ ActivateSession(b)
             \/ ActivateSessionLost(b) \/ ActivateStep(b)
      PROVE  activation'[a] = activation[a]
  <2>1. CASE ActivateStart(b)
    BY <1>3, <2>1 DEF ActivateStart
  <2>2. CASE ActivateRead(b)
    BY <1>3, <2>2 DEF ActivateRead
  <2>3. CASE ActivateSession(b)
    BY <1>3, <2>3 DEF ActivateSession
  <2>4. CASE ActivateSessionLost(b) \/ ActivateStore(b) \/ ActivateFails(b)
    BY <1>3, <2>4 DEF ActivateSessionLost, ActivateStore, ActivateFails
  <2>. QED BY <1>3, <2>1, <2>2, <2>3, <2>4 DEF ActivateStep
<1>4. CASE \E l \in Logins : LoginStart(l) \/ SignIn(l) \/ SignInDenied(l) \/ LoginStep(l)
  BY <1>4 DEF LoginStart, SignIn, SignInDenied, LoginStep, LoginRead, LoginChallenge,
              LoginStore, LoginCallFails, LoginFails
<1>. QED BY <1>1, <1>2, <1>3, <1>4 DEF Next

\* What LoginStore and ActivateStore write.
LoginWrites(l, k) ==
    /\ LoginStore(l) /\ k = KeyOf(login[l].req)
    /\ sess'[k] = [doc |-> login[l].doc, by |-> l,
                   dl |-> Deadline(LoginLifetime(login[l].req, login[l].doc))]
ActivateWrites(a, k) ==
    /\ ActivateStore(a) /\ k = KeyOf(activation[a].req)
    /\ sess'[k] = [doc |-> [activation[a].doc EXCEPT !.act = now], by |-> a,
                   dl |-> Deadline(ActivatedLifetime(activation[a].doc))]

\* Only these two put something new into a session key.
LEMMA SessionWrites ==
    ASSUME Typed, [Next]_vars, NEW k \in Keys, sess'[k] # Nil
    PROVE  \/ sess'[k] = sess[k]
           \/ \E l \in Logins : LoginWrites(l, k)
           \/ \E a \in Activations : ActivateWrites(a, k)
<1>. USE DEF Typed, TypeOK, redis
<1>1. CASE Tick
  BY <1>1 DEF Tick, Unexpired
<1>2. CASE \E p \in Purges : PurgeListSessions(p) \/ PurgeStep(p)
  BY <1>2 DEF PurgeListSessions, PurgeStep, PurgeDeleteSessions, PurgeListCodes,
              PurgeDeleteCodes, PurgeFails
<1>3. CASE \E a \in Activations : \/ ActivateStart(a) \/ ActivateRead(a) \/ ActivateFails(a)
                                  \/ ActivateSession(a) \/ ActivateSessionLost(a)
  BY <1>3 DEF ActivateStart, ActivateSession, ActivateSessionLost, ActivateRead, ActivateFails
<1>4. ASSUME NEW a \in Activations, ActivateStore(a)
      PROVE  sess'[k] = sess[k] \/ ActivateWrites(a, k)
  BY <1>4 DEF ActivateStore, ActivateWrites
<1>5. CASE \E l \in Logins : \/ LoginStart(l) \/ SignIn(l) \/ SignInDenied(l) \/ LoginRead(l)
                             \/ LoginChallenge(l) \/ LoginCallFails(l) \/ LoginFails(l)
  BY <1>5 DEF LoginStart, SignIn, SignInDenied, LoginRead, LoginChallenge,
              LoginCallFails, LoginFails
<1>6. ASSUME NEW l \in Logins, LoginStore(l)
      PROVE  sess'[k] = sess[k] \/ LoginWrites(l, k)
  BY <1>6 DEF LoginStore, LoginWrites
<1>7. CASE Terminating \/ UNCHANGED vars
  BY <1>7 DEF Terminating, vars
<1>. QED BY <1>1, <1>2, <1>3, <1>4, <1>5, <1>6, <1>7 DEF Next, ActivateStep, LoginStep

\* Only LoginChallenge puts something new into a challenge key.
LEMMA ChallengeWrites ==
    ASSUME Typed, [Next]_vars, NEW k \in Keys, clg'[k] # Nil
    PROVE  \/ clg'[k] = clg[k]
           \/ \E l \in Logins : /\ LoginChallenge(l) /\ k = KeyOf(login[l].req)
                                /\ clg'[k] = NewChallenge(l)
<1>. USE DEF Typed, TypeOK, redis
<1>1. CASE Tick
  BY <1>1 DEF Tick, Unexpired
<1>2. CASE \E p \in Purges : PurgeListSessions(p) \/ PurgeStep(p)
  BY <1>2 DEF PurgeListSessions, PurgeStep, PurgeDeleteSessions, PurgeListCodes,
              PurgeDeleteCodes, PurgeFails
<1>3. CASE \E a \in Activations : \/ ActivateStore(a) \/ ActivateRead(a) \/ ActivateFails(a)
                                  \/ ActivateSession(a) \/ ActivateSessionLost(a)
  BY <1>3 DEF ActivateStore, ActivateSession, ActivateSessionLost, ActivateRead, ActivateFails
<1>4. CASE \E a \in Activations : ActivateStart(a)
  BY <1>4 DEF ActivateStart, WithoutChallenge
<1>5. CASE \E l \in Logins : \/ LoginStart(l) \/ SignIn(l) \/ SignInDenied(l) \/ LoginRead(l)
                             \/ LoginStore(l) \/ LoginCallFails(l) \/ LoginFails(l)
  BY <1>5 DEF LoginStart, SignIn, SignInDenied, LoginRead, LoginStore,
              LoginCallFails, LoginFails
<1>6. CASE \E l \in Logins : LoginChallenge(l)
  BY <1>6 DEF LoginChallenge
<1>7. CASE Terminating \/ UNCHANGED vars
  BY <1>7 DEF Terminating, vars
<1>. QED BY <1>1, <1>2, <1>3, <1>4, <1>5, <1>6, <1>7 DEF Next, ActivateStep, LoginStep

\* What SignIn puts into the key of an activation code.
CodeStored(l, c) ==
    /\ login[l].call = "sent" /\ login'[l].call \in {"ok", "error"}
    /\ SendsCode(login[l].req.sub)
    /\ c[1] = login[l].req.sid /\ c[3] = login[l].req.agent
    /\ act'[c] = NewActivationCode(l)

\* Only SignIn puts something new there.
LEMMA CodeWrites ==
    ASSUME Typed, [Next]_vars, NEW c \in CodeKeys, act'[c] # Nil
    PROVE  \/ act'[c] = act[c]
           \/ \E l \in Logins : SignIn(l) /\ CodeStored(l, c)
<1>. USE DEF Typed, TypeOK, redis
<1>1. CASE Tick
  BY <1>1 DEF Tick, Unexpired
<1>2. CASE \E p \in Purges : PurgeListSessions(p) \/ PurgeStep(p)
  BY <1>2 DEF PurgeListSessions, PurgeStep, PurgeDeleteSessions, PurgeListCodes,
              PurgeDeleteCodes, PurgeFails
<1>3. CASE \E a \in Activations : \/ ActivateStore(a) \/ ActivateRead(a) \/ ActivateFails(a)
                                  \/ ActivateStart(a)
  BY <1>3 DEF ActivateStore, ActivateStart, ActivateRead, ActivateFails
<1>4. CASE \E a \in Activations : ActivateSession(a) \/ ActivateSessionLost(a)
  BY <1>4 DEF ActivateSession, ActivateSessionLost, WithoutCode
<1>5. CASE \E l \in Logins : LoginStart(l) \/ SignInDenied(l) \/ LoginStep(l)
  BY <1>5 DEF LoginStart, SignInDenied, LoginStep, LoginRead, LoginChallenge, LoginStore,
              LoginCallFails, LoginFails
<1>6. ASSUME NEW l \in Logins, SignIn(l)
      PROVE  act'[c] = act[c] \/ CodeStored(l, c)
  <2>1. CASE SendsCode(login[l].req.sub)
    <3>1. PICK code \in Codes, reply \in {"ok", "error"} :
            /\ act' = [act EXCEPT ![<<login[l].req.sid, code, login[l].req.agent>>] =
                                     NewActivationCode(l)]
            /\ login' = [login EXCEPT ![l].call = reply]
      BY <1>6, <2>1 DEF SignIn
    <3>2. login'[l].call \in {"ok", "error"}
      BY <3>1 DEF LoginState
    <3>. QED BY <1>6, <2>1, <3>1, <3>2 DEF SignIn, CodeStored
  <2>2. CASE ~SendsCode(login[l].req.sub)
    BY <1>6, <2>2 DEF SignIn
  <2>. QED BY <2>1, <2>2
<1>7. CASE Terminating \/ UNCHANGED vars
  BY <1>7 DEF Terminating, vars
<1>. QED BY <1>1, <1>2, <1>3, <1>4, <1>5, <1>6, <1>7 DEF Next, ActivateStep

\* Once a password was checked, that stays on record.
LEMMA PasswordStaysChecked ==
    ASSUME Typed, [Next]_vars, NEW l \in Logins, NEW sid, NEW sub, NEW agent,
           PasswordChecked(l, sid, sub, agent)
    PROVE  PasswordChecked(l, sid, sub, agent)'
<1>1. login[l].call \in {"ok", "error"} /\ login[l].pc # "idle"
  BY DEF PasswordChecked, Typed, RequestsKnown
<1>2. login'[l].req = login[l].req /\ login'[l].call = login[l].call
  <2>. USE DEF Typed, TypeOK, LoginState
  <2>1. CASE LoginStart(l) \/ SignIn(l) \/ SignInDenied(l)
    BY <1>1, <2>1 DEF LoginStart, SignIn, SignInDenied
  <2>2. CASE LoginRead(l)
    BY <2>2 DEF LoginRead
  <2>3. CASE LoginChallenge(l) \/ LoginStore(l)
    BY <2>3 DEF LoginChallenge, LoginStore
  <2>4. CASE LoginCallFails(l) \/ LoginFails(l)
    BY <2>4 DEF LoginCallFails, LoginFails
  <2>. QED BY <2>1, <2>2, <2>3, <2>4, LoginMoves DEF LoginStep
<1>. QED BY <1>2 DEF PasswordChecked

\* What an accepted activation was accepted with stays on record.
LEMMA AcceptedStaysAccepted ==
    ASSUME Typed, [Next]_vars, NEW a \in Activations,
           activation[a].pc \in {"read", "call", "done", "failed"}
    PROVE  /\ activation'[a].req = activation[a].req
           /\ activation'[a].pc \in {"read", "call", "done", "failed"}
           /\ activation[a].pc # "read" => activation'[a].pc # "read"
           /\ activation[a].call = "ok" => /\ activation'[a].call = "ok"
                                           /\ activation'[a].codeOf = activation[a].codeOf
<1>. USE DEF Typed, TypeOK, ActivationState
<1>1. CASE ActivateStart(a)
  BY <1>1 DEF ActivateStart
<1>2. CASE ActivateRead(a)
  BY <1>2 DEF ActivateRead
<1>3. CASE ActivateSession(a)
  BY <1>3 DEF ActivateSession
<1>4. CASE ActivateSessionLost(a)
  BY <1>4 DEF ActivateSessionLost
<1>5. CASE ActivateStore(a) \/ ActivateFails(a)
  BY <1>5 DEF ActivateStore, ActivateFails
<1>6. CASE activation'[a] = activation[a]
  BY <1>6
<1>. QED BY <1>1, <1>2, <1>3, <1>4, <1>5, <1>6, ActivationMoves DEF ActivateStep

\* So a session once earned stays earned.
LEMMA ActivatedStaysActivated ==
    ASSUME Typed, AcceptedFounded, [Next]_vars, NEW k \in Keys, NEW a \in Activations,
           ActivatedBy(a, k)
    PROVE  ActivatedBy(a, k)'
<1>1. /\ activation[a].req.challenge \in Logins
      /\ activation[a].codeOf \in Logins
  BY DEF ActivatedBy, AcceptedFounded, Accepted
<1>2. /\ activation'[a].req = activation[a].req
      /\ activation'[a].pc \in {"call", "done", "failed"}
      /\ activation'[a].call = "ok" /\ activation'[a].codeOf = activation[a].codeOf
  BY AcceptedStaysAccepted DEF ActivatedBy
<1>. DEFINE req == activation[a].req
<1>3. /\ PasswordChecked(req.challenge, req.sid, req.sub, req.agent)'
      /\ PasswordChecked(activation[a].codeOf, req.sid, req.sub, req.agent)'
  BY <1>1, <1>2, PasswordStaysChecked DEF ActivatedBy
<1>. QED BY <1>2, <1>3 DEF ActivatedBy, KeyOf

\* Secrets in Redis stay founded.
LEMMA SecretsStep ==
    ASSUME Typed, SecretsFounded, DocumentsFounded, [Next]_vars
    PROVE  SecretsFounded'
<1>1. ASSUME NEW k \in Keys, clg'[k] # Nil
      PROVE  PasswordChecked(clg[k].of, k[1], k[2], clg[k].agent)'
  <2>1. CASE clg'[k] = clg[k]
    <3>1. clg[k].of \in Logins
      BY <1>1, <2>1 DEF Typed, TypeOK, Challenge
    <3>2. PasswordChecked(clg[k].of, k[1], k[2], clg[k].agent)
      BY <1>1, <2>1 DEF SecretsFounded
    <3>. QED BY <2>1, <3>1, <3>2, PasswordStaysChecked DEF PasswordChecked
  <2>2. ASSUME NEW l \in Logins, LoginChallenge(l), k = KeyOf(login[l].req),
               clg'[k] = NewChallenge(l)
        PROVE  PasswordChecked(clg[k].of, k[1], k[2], clg[k].agent)'
    <3>1. login[l].call = "ok" /\ login[l].req \in LoginRequest
      BY <2>2 DEF DocumentsFounded, LoginFounded, LoginChallenge, Typed, RequestsKnown
    <3>2. PasswordChecked(l, k[1], k[2], login[l].req.agent)
      BY <2>2, <3>1 DEF PasswordChecked, KeyOf
    <3>3. PasswordChecked(l, k[1], k[2], login[l].req.agent)'
      BY <2>2, <3>2 DEF LoginChallenge, PasswordChecked, Typed, TypeOK, LoginState
    <3>4. clg'[k].of = l /\ clg'[k].agent = login[l].req.agent
      BY <2>2 DEF NewChallenge
    <3>5. login'[l].req = login[l].req
      BY <2>2 DEF LoginChallenge, Typed, TypeOK, LoginState
    <3>. QED BY <3>3, <3>4, <3>5 DEF PasswordChecked
  <2>. QED BY <1>1, <2>1, <2>2, ChallengeWrites
<1>2. ASSUME NEW c \in CodeKeys, act'[c] # Nil
      PROVE  PasswordChecked(act[c].of, c[1], act[c].sub, c[3])'
  <2>1. CASE act'[c] = act[c]
    <3>1. act[c].of \in Logins
      BY <1>2, <2>1 DEF Typed, TypeOK, ActivationCode
    <3>2. PasswordChecked(act[c].of, c[1], act[c].sub, c[3])
      BY <1>2, <2>1 DEF SecretsFounded
    <3>. QED BY <2>1, <3>1, <3>2, PasswordStaysChecked DEF PasswordChecked
  <2>2. ASSUME NEW l \in Logins, SignIn(l), CodeStored(l, c)
        PROVE  PasswordChecked(act[c].of, c[1], act[c].sub, c[3])'
    <3>. USE DEF Typed, TypeOK
    <3>1. \/ login' = [login EXCEPT ![l].call = "ok"]
          \/ login' = [login EXCEPT ![l].call = "error"]
      BY <2>2 DEF SignIn
    <3>2. login'[l].req = login[l].req
      BY <3>1 DEF LoginState
    <3>3. act'[c].of = l /\ act'[c].sub = login[l].req.sub
      BY <2>2 DEF CodeStored, NewActivationCode
    <3>. QED BY <2>2, <3>2, <3>3 DEF CodeStored, PasswordChecked
  <2>. QED BY <1>2, <2>1, <2>2, CodeWrites
<1>. QED BY <1>1, <1>2 DEF SecretsFounded

\* A challenge is accepted only if it is the stored one, a code likewise.
LEMMA AcceptedStep ==
    ASSUME Typed, SecretsFounded, AcceptedFounded, [Next]_vars
    PROVE  AcceptedFounded'
<1>. SUFFICES ASSUME NEW a \in Activations
              PROVE  Accepted(a)'
  BY DEF AcceptedFounded
<1>. USE DEF Accepted
<1>. DEFINE req == activation[a].req
<1>1. CASE activation[a].pc \in {"read", "call", "done", "failed"}
  <2>1. /\ activation'[a].req = req
        /\ activation'[a].pc \in {"read", "call", "done", "failed"}
        /\ activation[a].pc # "read" => activation'[a].pc # "read"
        /\ activation[a].call = "ok" => /\ activation'[a].call = "ok"
                                        /\ activation'[a].codeOf = activation[a].codeOf
    BY <1>1, AcceptedStaysAccepted
  <2>2. /\ req.challenge \in Logins
        /\ PasswordChecked(req.challenge, req.sid, req.sub, req.agent)
    BY <1>1 DEF AcceptedFounded
  <2>3. PasswordChecked(req.challenge, req.sid, req.sub, req.agent)'
    BY <2>1, <2>2, PasswordStaysChecked DEF PasswordChecked
  <2>4. activation'[a].call # "none" => activation'[a].pc # "read"
    <3>. USE DEF Typed, TypeOK, ActivationState
    <3>1. CASE activation[a].call # "none"
      BY <2>1, <3>1 DEF AcceptedFounded
    <3>2. CASE activation[a].call = "none"
      <4>1. CASE ActivateRead(a)
        BY <4>1 DEF ActivateRead
      <4>2. CASE ActivateStart(a) \/ ActivateSession(a) \/ ActivateSessionLost(a)
        BY <1>1, <3>2, <4>2 DEF ActivateStart, ActivateSession, ActivateSessionLost
      <4>3. CASE ActivateStore(a) \/ ActivateFails(a)
        BY <4>3 DEF ActivateStore, ActivateFails
      <4>4. CASE activation'[a] = activation[a]
        BY <3>2, <4>4
      <4>. QED BY <4>1, <4>2, <4>3, <4>4, ActivationMoves DEF ActivateStep
    <3>. QED BY <3>1, <3>2
  <2>5. ASSUME activation'[a].call = "ok"
        PROVE  /\ activation'[a].codeOf \in Logins
               /\ PasswordChecked(activation'[a].codeOf, req.sid, req.sub, req.agent)
    <3>. USE DEF Typed, TypeOK, ActivationState
    <3>1. CASE activation[a].call = "ok"
      BY <2>1, <3>1 DEF AcceptedFounded
    <3>2. CASE activation[a].call # "ok"
      <4>1. CASE ActivateSession(a)
        <5>. DEFINE c == CodeKeyOf(req)
        <5>1. req \in ActivateRequest
          BY <1>1 DEF RequestsKnown
        <5>2. /\ c \in CodeKeys
              /\ c[1] = req.sid /\ c[3] = req.agent
          BY <5>1 DEF CodeKeyOf, CodeKeys, ActivateRequest
        <5>3. ValidCode(c, req.sub) /\ activation'[a].codeOf = act[c].of
          BY <2>5, <4>1 DEF ActivateSession
        <5>4. act[c].of \in Logins
          BY <5>2, <5>3 DEF ValidCode, ActivationCode
        <5>5. PasswordChecked(act[c].of, c[1], act[c].sub, c[3])
          BY <5>2, <5>3 DEF SecretsFounded, ValidCode
        <5>. QED BY <5>2, <5>3, <5>4, <5>5 DEF ValidCode
      <4>2. CASE ActivateStart(a) \/ ActivateSessionLost(a)
        BY <1>1, <2>5, <3>2, <4>2 DEF ActivateStart, ActivateSessionLost
      <4>3. CASE ActivateRead(a)
        BY <2>5, <3>2, <4>3 DEF ActivateRead
      <4>4. CASE ActivateStore(a) \/ ActivateFails(a)
        BY <2>5, <3>2, <4>4 DEF ActivateStore, ActivateFails
      <4>5. CASE activation'[a] = activation[a]
        BY <2>5, <3>2, <4>5
      <4>. QED BY <4>1, <4>2, <4>3, <4>4, <4>5, ActivationMoves DEF ActivateStep
    <3>. QED BY <3>1, <3>2
  <2>6. activation'[a].call = "ok" =>
          PasswordChecked(activation[a].codeOf, activation[a].req.sid,
                          activation[a].req.sub, activation[a].req.agent)'
    BY <2>1, <2>5, PasswordStaysChecked DEF PasswordChecked
  <2>. QED BY <2>1, <2>2, <2>3, <2>4, <2>5, <2>6
<1>2. CASE activation[a].pc \in {"idle", "refused"}
  <2>. USE DEF Typed, TypeOK, ActivationState
  <2>1. activation[a].call = "none"
    BY <1>2 DEF AcceptedFounded
  <2>2. CASE ActivateStart(a)
    <3>1. activation'[a].call = "none"
      BY <2>1, <2>2 DEF ActivateStart
    <3>2. SUFFICES ASSUME activation'[a].pc \in {"read", "call", "done", "failed"}
                   PROVE  /\ activation'[a].req.challenge \in Logins
                          /\ PasswordChecked(activation[a].req.challenge,
                                 activation[a].req.sid, activation[a].req.sub,
                                 activation[a].req.agent)'
      BY <3>1
    <3>3. PICK new \in ActivateRequest :
            activation' = [activation EXCEPT ![a].req = new,
               ![a].pc = IF Matches(KeyOf(new), new) THEN "read" ELSE "refused"]
      BY <2>2, <3>2 DEF ActivateStart
    <3>. DEFINE k == KeyOf(new)
    <3>4. /\ Matches(k, new)
          /\ activation'[a].req = new
      BY <3>2, <3>3
    <3>5. k \in Keys /\ k[1] = new.sid /\ k[2] = new.sub
      BY DEF KeyOf, Keys, ActivateRequest
    <3>6. /\ new.challenge \in Logins
          /\ PasswordChecked(new.challenge, new.sid, new.sub, new.agent)
      BY <3>4, <3>5 DEF Matches, SecretsFounded, Challenge
    <3>7. PasswordChecked(new.challenge, new.sid, new.sub, new.agent)'
      BY <3>6, PasswordStaysChecked DEF PasswordChecked
    <3>. QED BY <3>4, <3>6, <3>7 DEF PasswordChecked
  <2>3. CASE ActivateSession(a) \/ ActivateSessionLost(a) \/ ActivateStep(a)
    BY <1>2, <2>1, <2>3 DEF ActivateSession, ActivateSessionLost, ActivateStep,
                            ActivateRead, ActivateStore, ActivateFails
  <2>4. CASE activation'[a] = activation[a]
    BY <1>2, <2>1, <2>4
  <2>. QED BY <2>2, <2>3, <2>4, ActivationMoves
<1>. QED BY <1>1, <1>2 DEF Typed, TypeOK, ActivationState

\* The activation that writes a session has earned it.
LEMMA WriterActivated ==
    ASSUME Typed, AcceptedFounded, NEW a \in Activations, ActivateStore(a)
    PROVE  ActivatedBy(a, KeyOf(activation[a].req))
<1>1. /\ activation[a].pc = "call" /\ activation[a].call = "ok"
  BY DEF ActivateStore
<1>. QED BY <1>1, NilAssumption DEF AcceptedFounded, Accepted, ActivatedBy

\* What is founded stays founded, in Redis or not.
LEMMA FoundedStays ==
    ASSUME Typed, AcceptedFounded, [Next]_vars, NEW k \in Keys, NEW doc, Founded(doc, k)
    PROVE  Founded(doc, k)'
BY ActivatedStaysActivated DEF Founded

\* Every document stays founded: handlers only write back what they have read,
\* and the activation date of an activation that went through.
LEMMA DocumentsStep ==
    ASSUME Typed, AcceptedFounded, DocumentsFounded, [Next]_vars
    PROVE  DocumentsFounded'
<1>. USE DEF Typed, TypeOK
<1>1. ASSUME NEW k \in Keys, sess'[k] # Nil
      PROVE  Founded(sess[k].doc, k)'
  <2>1. CASE sess'[k] = sess[k]
    <3>1. Founded(sess[k].doc, k)
      BY <1>1, <2>1 DEF DocumentsFounded
    <3>. QED BY <2>1, <3>1, FoundedStays DEF Founded
  <2>2. ASSUME NEW l \in Logins, LoginWrites(l, k)
        PROVE  Founded(sess[k].doc, k)'
    <3>1. Founded(login[l].doc, k)
      BY <2>2 DEF LoginWrites, LoginStore, DocumentsFounded, LoginFounded
    <3>2. sess'[k].doc = login[l].doc
      BY <2>2 DEF LoginWrites
    <3>. QED BY <3>1, <3>2, ActivatedStaysActivated DEF Founded
  <2>3. ASSUME NEW a \in Activations, ActivateWrites(a, k)
        PROVE  Founded(sess[k].doc, k)'
    <3>1. ActivatedBy(a, k)'
      BY <2>3, WriterActivated, ActivatedStaysActivated DEF ActivateWrites
    <3>2. activation[a].doc.auth > 0
      BY <2>3 DEF ActivateWrites, ActivateStore, DocumentsFounded
    <3>3. activation[a].doc \in Document
      BY DEF ActivationState
    <3>4. sess'[k].doc.auth = activation[a].doc.auth
      BY <2>3, <3>3 DEF ActivateWrites, Document
    <3>. QED BY <3>1, <3>2, <3>4 DEF Founded
  <2>. QED BY <1>1, <2>1, <2>2, <2>3, SessionWrites
<1>2. ASSUME NEW l \in Logins
      PROVE  LoginFounded(l)'
  <2>. USE DEF LoginState
  <2>. DEFINE req == login[l].req
              k == KeyOf(req)
  <2>1. CASE LoginRead(l)
    <3>1. req \in LoginRequest /\ login[l].call = "ok"
      BY <2>1 DEF LoginRead, RequestsKnown
    <3>2. k \in Keys /\ k[2] = req.sub
      BY <3>1 DEF KeyOf, Keys, LoginRequest
    <3>3. CachedDocument(k) \in Document /\ Founded(CachedDocument(k), k)
      BY <3>2 DEF CachedDocument, NoDocument, Document, Session, Founded, DocumentsFounded
    <3>4. /\ Founded(SignedInDocument(req), k)
          /\ Method[req.sub] = "NONE" => SignedInDocument(req).act # 0
      BY <3>2, <3>3 DEF SignedInDocument, Founded, Document
    <3>5. /\ login'[l].doc = SignedInDocument(req)
          /\ login'[l].req = req /\ login'[l].call = "ok"
      BY <2>1, <3>1 DEF LoginRead
    <3>6. Founded(SignedInDocument(req), k) => Founded(login[l].doc, KeyOf(login[l].req))'
      BY <3>2, <3>5, ActivatedStaysActivated DEF Founded
    <3>. QED BY <3>4, <3>5, <3>6 DEF LoginFounded
  <2>2. CASE LoginChallenge(l) \/ login'[l] = login[l]
    <3>1. /\ login'[l].doc = login[l].doc
          /\ login'[l].req = req /\ login'[l].call = login[l].call
          /\ login'[l].pc \in {"challenge", "store"} => login[l].pc \in {"challenge", "store"}
      BY <2>2 DEF LoginChallenge
    <3>. SUFFICES ASSUME login'[l].pc \in {"challenge", "store"}
                  PROVE  LoginFounded(l)'
      BY DEF LoginFounded
    <3>2. /\ login[l].call = "ok" /\ Founded(login[l].doc, k)
          /\ Method[req.sub] = "NONE" => login[l].doc.act # 0
      BY <3>1 DEF LoginFounded, DocumentsFounded
    <3>3. k \in Keys
      BY <3>1 DEF RequestsKnown, KeyOf, Keys, LoginRequest
    <3>4. Founded(login[l].doc, KeyOf(login[l].req))'
      BY <3>1, <3>2, <3>3, ActivatedStaysActivated DEF Founded
    <3>. QED BY <3>1, <3>2, <3>4 DEF LoginFounded
  <2>3. CASE LoginStart(l) \/ LoginStore(l) \/ LoginCallFails(l) \/ LoginFails(l)
    <3>1. CASE LoginStart(l)
      BY <3>1 DEF LoginStart, LoginFounded
    <3>2. CASE LoginStore(l)
      BY <3>2 DEF LoginStore, LoginFounded
    <3>3. CASE LoginCallFails(l) \/ LoginFails(l)
      BY <3>3 DEF LoginCallFails, LoginFails, LoginFounded
    <3>. QED BY <2>3, <3>1, <3>2, <3>3
  <2>4. CASE SignIn(l) \/ SignInDenied(l)
    <3>1. login[l].call = "sent" /\ login'[l].pc = login[l].pc
      BY <2>4 DEF SignIn, SignInDenied
    <3>2. login[l].pc \notin {"challenge", "store"}
      BY <3>1 DEF DocumentsFounded, LoginFounded
    <3>. QED BY <3>1, <3>2 DEF LoginFounded
  <2>. QED BY <2>1, <2>2, <2>3, <2>4, LoginMoves DEF LoginStep
<1>3. ASSUME NEW a \in Activations, activation'[a].pc = "call"
      PROVE  activation'[a].doc.auth > 0
  <2>. USE DEF ActivationState
  <2>1. CASE ActivateRead(a)
    <3>1. activation[a].req \in ActivateRequest
      BY <2>1 DEF ActivateRead, RequestsKnown
    <3>2. KeyOf(activation[a].req) \in Keys
      BY <3>1 DEF KeyOf, Keys, ActivateRequest
    <3>. QED BY <1>3, <2>1, <3>2 DEF ActivateRead, DocumentsFounded, Founded
  <2>2. CASE ActivateStart(a)
    BY <1>3, <2>2 DEF ActivateStart
  <2>3. CASE ActivateSession(a)
    BY <1>3, <2>3 DEF ActivateSession, DocumentsFounded
  <2>4. CASE ActivateSessionLost(a)
    BY <1>3, <2>4 DEF ActivateSessionLost, DocumentsFounded
  <2>5. CASE ActivateStore(a) \/ ActivateFails(a)
    BY <1>3, <2>5 DEF ActivateStore, ActivateFails
  <2>6. CASE activation'[a] = activation[a]
    BY <1>3, <2>6 DEF DocumentsFounded
  <2>. QED BY <2>1, <2>2, <2>3, <2>4, <2>5, <2>6, ActivationMoves DEF ActivateStep
<1>. QED BY <1>1, <1>2, <1>3 DEF DocumentsFounded

\* A request that is over stays as it is, but for what SSO Service still answers.
LEMMA OverStays ==
    ASSUME Typed, [Next]_vars, NEW w \in Writers, Over(w)
    PROVE  Over(w)' /\ (w \in Logins => login'[w].req = login[w].req)
<1>. USE DEF Typed, TypeOK, Over
<1>1. CASE w \in Logins
  <2>1. login[w] \in LoginState /\ login[w].pc \in {"done", "failed"}
    BY <1>1
  <2>2. login'[w] = login[w] \/ SignIn(w) \/ SignInDenied(w)
    BY <1>1, <2>1, LoginMoves DEF LoginStart, LoginStep, LoginRead, LoginChallenge, LoginStore,
       LoginCallFails, LoginFails
  <2>3. login'[w].pc = login[w].pc /\ login'[w].req = login[w].req
    <3>1. ASSUME NEW call, login' = [login EXCEPT ![w].call = call]
          PROVE  login'[w].pc = login[w].pc /\ login'[w].req = login[w].req
      BY <1>1, <2>1, <3>1 DEF LoginState
    <3>2. login'[w] = login[w] \/ \E call : login' = [login EXCEPT ![w].call = call]
      BY <2>2, Zenon DEF SignIn, SignInDenied
    <3>. QED BY <3>1, <3>2
  <2>. QED BY <1>1, <2>1, <2>3
<1>2. CASE w \notin Logins
  <2>1. w \in Activations /\ activation[w] \in ActivationState /\ activation[w].pc = "done"
    BY <1>2 DEF Writers
  <2>2. activation'[w] = activation[w] \/ ActivateSession(w) \/ ActivateSessionLost(w)
    BY <2>1, ActivationMoves DEF ActivateStart, ActivateStep, ActivateRead, ActivateStore,
       ActivateFails
  <2>3. activation'[w].pc = activation[w].pc
    BY <2>1, <2>2 DEF ActivateSession, ActivateSessionLost, ActivationState
  <2>. QED BY <1>2, <2>1, <2>3
<1>. QED BY <1>1, <1>2

\* A session is the last that its writer does.
LEMMA WritersStep ==
    ASSUME Typed, WritersOver, [Next]_vars
    PROVE  WritersOver'
<1>. USE DEF Typed, TypeOK
<1>1. SUFFICES ASSUME NEW k \in Keys, NEW w, sess'[k] # Nil, sess'[k].by = w
               PROVE  Over(w)'
  BY DEF WritersOver, Over
<1>2. CASE sess'[k] = sess[k]
  BY <1>1, <1>2, OverStays DEF WritersOver, Session
<1>3. ASSUME NEW l \in Logins, LoginWrites(l, k)
      PROVE  Over(w)'
  <2>1. w = l /\ login'[l].pc \in {"done", "failed"}
    BY <1>1, <1>3 DEF LoginWrites, LoginStore, LoginState
  <2>. QED BY <2>1 DEF Over
<1>4. ASSUME NEW a \in Activations, ActivateWrites(a, k)
      PROVE  Over(w)'
  <2>1. w = a /\ activation'[a].pc = "done"
    BY <1>1, <1>4 DEF ActivateWrites, ActivateStore, ActivationState
  <2>. QED BY <2>1, DisjointAssumption DEF Over
<1>. QED BY <1>1, <1>2, <1>3, <1>4, SessionWrites

\* The clock only lets time to live run out, and nobody writes a pending session
\* with a long one.
LEMMA PendingStep ==
    ASSUME Typed, AcceptedFounded, DocumentsFounded, WritersOver, PendingIsShortLived,
           [Next]_vars
    PROVE  PendingIsShortLived'
<1>. USE DEF Typed, TypeOK
<1>0. now' \in Nat /\ now' >= now
  <2>1. now' = now \/ now' = now + 1
    BY DEF Next, vars, Tick, Terminating, LoginStart, SignIn, SignInDenied, LoginStep,
           LoginRead, LoginChallenge, LoginStore, LoginCallFails, LoginFails,
           ActivateStart, ActivateSession, ActivateSessionLost, ActivateStep,
           ActivateRead, ActivateStore, ActivateFails, PurgeListSessions, PurgeStep,
           PurgeDeleteSessions, PurgeListCodes, PurgeDeleteCodes, PurgeFails
  <2>. QED BY <2>1
<1>. SUFFICES ASSUME NEW k \in Keys, sess'[k] # Nil
              PROVE  /\ sess'[k].doc.act = 0 =>
                          /\ sess'[k].dl # NoExpiry
                          /\ sess'[k].dl <= now' + MFASessionDuration
                     /\ sess'[k].by \in Logins /\ sess'[k].doc.act # 0 =>
                          /\ sess'[k].dl # NoExpiry
                          /\ sess'[k].dl <= now' +
                               GetExpirationFromAuthentication(login'[sess'[k].by].req)
                     /\ sess'[k].dl = NoExpiry => \E a \in Activations : ActivatedBy(a, k)'
  BY DEF PendingIsShortLived, GetExpirationFromAuthentication, Remembered
<1>1. CASE sess'[k] = sess[k]
  <2>1. /\ sess[k].doc.act = 0 => sess[k].dl # NoExpiry /\ sess[k].dl <= now + MFASessionDuration
        /\ sess[k].dl = NoExpiry => \E a \in Activations : ActivatedBy(a, k)
    BY <1>1 DEF PendingIsShortLived
  <2>2. sess[k].dl \in Nat
    BY <1>1 DEF Session
  <2>3. ASSUME sess[k].by \in Logins, sess[k].doc.act # 0
        PROVE  /\ sess[k].dl # NoExpiry
               /\ sess[k].dl <= now' +
                    GetExpirationFromAuthentication(login'[sess[k].by].req)
    <3>1. login'[sess[k].by].req = login[sess[k].by].req
      BY <1>1, <2>3, OverStays DEF WritersOver, Writers
    <3>2. GetExpirationFromAuthentication(login[sess[k].by].req) \in Nat
      BY DurationAssumption DEF GetExpirationFromAuthentication
    <3>3. sess[k].dl <= now + GetExpirationFromAuthentication(login[sess[k].by].req)
          /\ sess[k].dl # NoExpiry
      BY <1>1, <2>3 DEF PendingIsShortLived
    <3>. QED BY <1>0, <2>2, <3>1, <3>2, <3>3
  <2>. QED BY <1>0, <1>1, <2>1, <2>2, <2>3, ActivatedStaysActivated, DurationAssumption
<1>2. ASSUME NEW l \in Logins, LoginWrites(l, k)
      PROVE  /\ sess'[k].dl # NoExpiry /\ sess'[k].by = l
             /\ sess'[k].doc.act = 0 => sess'[k].dl <= now' + MFASessionDuration
             /\ sess'[k].doc.act # 0 =>
                  sess'[k].dl <= now' + GetExpirationFromAuthentication(login'[l].req)
  <2>. DEFINE lifetime == LoginLifetime(login[l].req, login[l].doc)
  <2>1. lifetime \in Nat \ {0}
    BY DurationAssumption DEF LoginLifetime, GetExpirationFromAuthentication, Remembered
  <2>2. login[l].doc.act = 0 => Method[login[l].req.sub] # "NONE"
    BY <1>2 DEF LoginWrites, LoginStore, DocumentsFounded, LoginFounded
  <2>3. login[l].doc.act = 0 => lifetime = MFASessionDuration
    BY <2>2 DEF LoginLifetime
  <2>4. sess'[k].dl = Deadline(lifetime) /\ sess'[k].doc = login[l].doc
    BY <1>2 DEF LoginWrites
  <2>5. Deadline(lifetime) = now + lifetime
    BY <2>1 DEF Deadline
  <2>6. sess'[k].by = l /\ login'[l].req = login[l].req
    BY <1>2 DEF LoginWrites, LoginStore
  <2>7. login[l].doc.act # 0 => lifetime = GetExpirationFromAuthentication(login'[l].req)
    BY <2>6 DEF LoginLifetime
  <2>. HIDE DEF lifetime
  <2>. QED BY <1>0, <2>1, <2>3, <2>4, <2>5, <2>6, <2>7 DEF NoExpiry
<1>3. ASSUME NEW a \in Activations, ActivateWrites(a, k)
      PROVE  sess'[k].doc.act # 0 /\ sess'[k].by \notin Logins /\ ActivatedBy(a, k)'
  <2>1. ActivatedBy(a, k)'
    BY <1>3, WriterActivated, ActivatedStaysActivated DEF ActivateWrites
  <2>2. activation[a].doc \in Document
    BY DEF ActivationState
  <2>3. sess'[k].doc.act = now
    BY <1>3, <2>2 DEF ActivateWrites, Document
  <2>. QED BY <1>3, <2>1, <2>3, DisjointAssumption DEF ActivateWrites
<1>. QED BY <1>1, <1>2, <1>3, SessionWrites

\* The initial state satisfies the invariant: nothing is stored yet.
LEMMA IInvInit == Init => IInv
<1>. SUFFICES ASSUME Init PROVE IInv
  OBVIOUS
<1>1. Typed
  BY TypedInit
<1>2. SecretsFounded /\ WritersOver /\ PendingIsShortLived
  BY DEF Init, SecretsFounded, WritersOver, PendingIsShortLived
<1>3. AcceptedFounded
  BY DEF Init, AcceptedFounded, Accepted
<1>4. DocumentsFounded
  BY DEF Init, DocumentsFounded, LoginFounded
<1>. QED BY <1>1, <1>2, <1>3, <1>4 DEF IInv

\* Every step preserves it.
LEMMA IInvStep == IInv /\ [Next]_vars => IInv'
BY TypedStep, SecretsStep, AcceptedStep, DocumentsStep, WritersStep, PendingStep DEF IInv

\* IInv holds in every reachable state.
THEOREM Invariance == Spec => []IInv
BY IInvInit, IInvStep, PTL DEF Spec

\* No order of sign-ins, activations, purges, failures and expiries activates a
\* session of an account with a second factor without both of its secrets.
THEOREM ActivationIsEarned == Spec => []ActivationEarned
<1>1. IInv => ActivationEarned
  BY DEF IInv, DocumentsFounded, Founded, ActivationEarned
<1>. QED BY <1>1, Invariance, PTL

\* None of them leaves a pending session with a long life, or a session without a
\* time to live that was not activated.
THEOREM PendingSessionsAreShortLived == Spec => []PendingIsShortLived
<1>1. IInv => PendingIsShortLived
  BY DEF IInv
<1>. QED BY <1>1, Invariance, PTL

-----------------------------------------------------------------------------
(* A purge that is done is final for the requests settled before it.       *)

\* What is left of the requests before the purge, as far as it has come: until the
\* sessions are deleted, only keys it has found; then none; until the codes are
\* deleted, only codes it has found; then none.
PurgeOf(p) ==
    LET req == purge[p].req IN
    purge[p].pc # "idle" =>
        /\ purge[p].before \subseteq Settled
        /\ \A k \in Purged(req) :
             /\ sess[k] # Nil /\ sess[k].by \in purge[p].before =>
                  /\ purge[p].pc \notin {"codes", "deletecodes", "done"}
                  /\ purge[p].pc = "delete" => k \in purge[p].keys
             /\ clg[k] # Nil /\ clg[k].of \in purge[p].before =>
                  /\ purge[p].pc \notin {"codes", "deletecodes", "done"}
                  /\ purge[p].pc = "delete" => k \in purge[p].clgs
        /\ \A c \in CodeKeys : c[1] = req.sid /\ act[c] # Nil /\ act[c].of \in purge[p].before =>
             /\ purge[p].pc # "done"
             /\ purge[p].pc = "deletecodes" => c \in purge[p].codes

Purging == \A p \in Purges : PurgeOf(p)

\* At first no purge has begun.
LEMMA PurgingInit == Init => Purging
BY DEF Init, Purging, PurgeOf

\* A settled request stays settled.
LEMMA SettledStays ==
    ASSUME Typed, [Next]_vars
    PROVE  Settled \subseteq Settled'
<1>. USE DEF Typed, TypeOK
<1>1. ASSUME NEW l \in Logins, login[l].pc \in {"done", "failed"}, login[l].call # "sent"
      PROVE  login'[l] = login[l]
  BY <1>1, LoginMoves DEF LoginStart, SignIn, SignInDenied, LoginStep, LoginRead,
     LoginChallenge, LoginStore, LoginCallFails, LoginFails
<1>2. ASSUME NEW a \in Activations, activation[a].pc \in {"refused", "done", "failed"}
      PROVE  activation'[a].pc = activation[a].pc
  <2>1. CASE ActivateStart(a) \/ ActivateStep(a)
    BY <1>2, <2>1 DEF ActivateStart, ActivateStep, ActivateRead, ActivateStore, ActivateFails
  <2>2. CASE ActivateSession(a)
    <3>1. PICK call, l :
             \/ activation' = [activation EXCEPT ![a].call = call, ![a].codeOf = l]
             \/ activation' = [activation EXCEPT ![a].call = call]
      BY <2>2 DEF ActivateSession
    <3>. QED BY <3>1 DEF ActivationState
  <2>3. CASE ActivateSessionLost(a)
    BY <2>3 DEF ActivateSessionLost, ActivationState
  <2>. QED BY <2>1, <2>2, <2>3, ActivationMoves
<1>. QED BY <1>1, <1>2 DEF Settled

\* A settled request writes nothing.
LEMMA SettledWriteNothing ==
    ASSUME Typed, [Next]_vars, NEW w \in Settled
    PROVE  /\ \A k \in Keys : sess'[k] # Nil /\ sess'[k].by = w => sess'[k] = sess[k]
           /\ \A k \in Keys : clg'[k] # Nil /\ clg'[k].of = w => clg'[k] = clg[k]
           /\ \A c \in CodeKeys : act'[c] # Nil /\ act'[c].of = w => act'[c] = act[c]
<1>1. ASSUME NEW k \in Keys, sess'[k] # Nil, sess'[k].by = w
      PROVE  sess'[k] = sess[k]
  <2>1. ASSUME NEW l \in Logins, LoginWrites(l, k) PROVE FALSE
    <3>1. w = l /\ login[l].pc = "store"
      BY <1>1, <2>1 DEF LoginWrites, LoginStore
    <3>. QED BY <3>1, DisjointAssumption DEF Settled
  <2>2. ASSUME NEW a \in Activations, ActivateWrites(a, k) PROVE FALSE
    <3>1. w = a /\ activation[a].pc = "call"
      BY <1>1, <2>2 DEF ActivateWrites, ActivateStore
    <3>. QED BY <3>1, DisjointAssumption DEF Settled
  <2>. QED BY <1>1, <2>1, <2>2, SessionWrites
<1>2. ASSUME NEW k \in Keys, clg'[k] # Nil, clg'[k].of = w
      PROVE  clg'[k] = clg[k]
  <2>1. ASSUME NEW l \in Logins, LoginChallenge(l), clg'[k] = NewChallenge(l) PROVE FALSE
    <3>1. w = l /\ login[l].pc = "challenge"
      BY <1>2, <2>1 DEF NewChallenge, LoginChallenge
    <3>. QED BY <3>1, DisjointAssumption DEF Settled
  <2>. QED BY <1>2, <2>1, ChallengeWrites
<1>3. ASSUME NEW c \in CodeKeys, act'[c] # Nil, act'[c].of = w
      PROVE  act'[c] = act[c]
  <2>1. ASSUME NEW l \in Logins, CodeStored(l, c) PROVE FALSE
    <3>1. w = l /\ login[l].call = "sent"
      BY <1>3, <2>1 DEF CodeStored, NewActivationCode
    <3>. QED BY <3>1, DisjointAssumption DEF Settled
  <2>. QED BY <1>3, <2>1, CodeWrites
<1>. QED BY <1>1, <1>2, <1>3

\* A purge changes by its own steps only.
LEMMA PurgeMoves ==
    ASSUME Typed, [Next]_vars, NEW p \in Purges
    PROVE  purge'[p] = purge[p] \/ PurgeListSessions(p) \/ PurgeStep(p)
<1>. USE DEF Typed, TypeOK
<1>1. CASE Tick \/ Terminating \/ UNCHANGED vars
  BY <1>1 DEF Tick, Terminating, vars
<1>2. ASSUME NEW q \in Purges, q # p, PurgeListSessions(q) \/ PurgeStep(q)
      PROVE  purge'[p] = purge[p]
  BY <1>2 DEF PurgeListSessions, PurgeStep, PurgeDeleteSessions, PurgeListCodes,
              PurgeDeleteCodes, PurgeFails
<1>3. CASE \E a \in Activations : \/ ActivateStart(a) \/ ActivateSession(a)
                                  \/ ActivateSessionLost(a) \/ ActivateStep(a)
  BY <1>3 DEF ActivateStart, ActivateSession, ActivateSessionLost, ActivateStep,
              ActivateRead, ActivateStore, ActivateFails
<1>4. CASE \E l \in Logins : LoginStart(l) \/ SignIn(l) \/ SignInDenied(l) \/ LoginStep(l)
  BY <1>4 DEF LoginStart, SignIn, SignInDenied, LoginStep, LoginRead, LoginChallenge,
              LoginStore, LoginCallFails, LoginFails
<1>. QED BY <1>1, <1>2, <1>3, <1>4 DEF Next

\* Every step keeps what is left within what each purge has still to delete.
LEMMA PurgingStep ==
    ASSUME Typed, Purging, [Next]_vars
    PROVE  Purging'
<1>. SUFFICES ASSUME NEW p \in Purges PROVE PurgeOf(p)'
  BY DEF Purging
<1>. DEFINE q == purge[p]
<1>1. PurgeOf(p) /\ q \in PurgeState /\ Purged(q.req) \subseteq Keys
      /\ Settled \subseteq Settled' /\ purge \in [Purges -> PurgeState]
  BY SettledStays DEF Purging, Purged, Typed, TypeOK
<1>2. ASSUME NEW new \in PurgeState, purge' = [purge EXCEPT ![p] = new],
             new.req = q.req, new.before = q.before, q.pc # "idle"
      PROVE  /\ purge'[p] = new /\ new.before \subseteq Settled'
             /\ \A k \in Keys : sess'[k] # Nil /\ sess'[k].by \in new.before => sess'[k] = sess[k]
             /\ \A k \in Keys : clg'[k] # Nil /\ clg'[k].of \in new.before => clg'[k] = clg[k]
             /\ \A c \in CodeKeys : act'[c] # Nil /\ act'[c].of \in new.before => act'[c] = act[c]
  <2>1. new.before \subseteq Settled
    BY <1>1, <1>2 DEF PurgeOf
  <2>. QED BY <1>1, <1>2, <2>1, SettledWriteNothing
<1>3. CASE purge'[p] = purge[p]
  <2>1. CASE q.pc = "idle"
    BY <1>3, <2>1 DEF PurgeOf
  <2>2. CASE q.pc # "idle"
    <3>1. q.before \subseteq Settled
      BY <1>1, <2>2 DEF PurgeOf
    <3>2. /\ \A k \in Keys : sess'[k] # Nil /\ sess'[k].by \in q.before => sess'[k] = sess[k]
          /\ \A k \in Keys : clg'[k] # Nil /\ clg'[k].of \in q.before => clg'[k] = clg[k]
          /\ \A c \in CodeKeys : act'[c] # Nil /\ act'[c].of \in q.before => act'[c] = act[c]
      BY <3>1, SettledWriteNothing
    <3>. QED BY <1>1, <1>3, <2>2, <3>1, <3>2 DEF PurgeOf, Purged
  <2>. QED BY <2>1, <2>2
<1>4. CASE PurgeListSessions(p)
  <2>1. PICK req \in PurgeRequest : purge' = [purge EXCEPT
            ![p].pc = "delete", ![p].req = req, ![p].before = Settled,
            ![p].keys = {k \in Purged(req) : sess[k] # Nil},
            ![p].clgs = FoundChallenges(req)]
    BY <1>4 DEF PurgeListSessions
  <2>2. /\ purge'[p].pc = "delete" /\ purge'[p].req = req /\ purge'[p].before = Settled
        /\ purge'[p].keys = {k \in Purged(req) : sess[k] # Nil}
        /\ purge'[p].clgs = FoundChallenges(req)
    BY <1>1, <2>1 DEF PurgeState
  <2>3. UNCHANGED <<sess, clg, act>>
    BY <1>4 DEF PurgeListSessions, redis
  <2>. QED BY <1>1, <2>2, <2>3 DEF PurgeOf, Purged, FoundChallenges
<1>5. CASE PurgeDeleteSessions(p)
  <2>1. PICK pc \in {"done", "codes", "failed"} :
          /\ purge' = [purge EXCEPT ![p].pc = pc]
          /\ pc = "done" => q.req.sid = Nil
    BY <1>5 DEF PurgeDeleteSessions
  <2>. DEFINE new == [q EXCEPT !.pc = pc]
  <2>2. new \in PurgeState /\ new.pc = pc /\ new.req = q.req /\ new.before = q.before
    BY <1>1, <2>1 DEF PurgeState
  <2>3. purge' = [purge EXCEPT ![p] = new]
    BY <1>1, <2>1
  <2>. HIDE DEF new
  <2>4. q.pc = "delete" /\ \A k \in Keys : /\ k \in q.keys => sess'[k] = Nil
                                           /\ k \in q.clgs => clg'[k] = Nil
    BY <1>5 DEF PurgeDeleteSessions
  <2>5. \A c \in CodeKeys : c[1] # Nil
    BY NilAssumption DEF CodeKeys
  <2>6. \A k \in Purged(q.req) : /\ sess'[k] # Nil => sess'[k].by \notin new.before
                                 /\ clg'[k] # Nil => clg'[k].of \notin new.before
    BY <1>1, <1>2, <2>2, <2>3, <2>4, ZenonT(40) DEF PurgeOf
  <2>7. /\ purge'[p] = new /\ new.before \subseteq Settled'
        /\ new.pc \notin {"delete", "deletecodes"}
        /\ \A c \in CodeKeys : new.pc = "done" => c[1] # new.req.sid
    BY <1>2, <2>1, <2>2, <2>3, <2>4, <2>5
  <2>8. \A k \in Purged(new.req) : /\ sess'[k] # Nil => sess'[k].by \notin new.before
                                   /\ clg'[k] # Nil => clg'[k].of \notin new.before
    BY <2>2, <2>6
  <2>. QED BY <2>7, <2>8 DEF PurgeOf, Purged
<1>6. CASE PurgeListCodes(p)
  <2>. DEFINE found == {c \in CodeKeys : c[1] = q.req.sid /\ act[c] # Nil}
              new == [q EXCEPT !.pc = "deletecodes", !.codes = found]
  <2>1. found \in SUBSET CodeKeys
    OBVIOUS
  <2>2. /\ purge' = [purge EXCEPT ![p] = new] /\ q.pc = "codes"
        /\ UNCHANGED <<sess, clg, act>>
    BY <1>1, <1>6 DEF PurgeListCodes, redis
  <2>. HIDE DEF found
  <2>3. /\ new \in PurgeState /\ new.pc = "deletecodes" /\ new.req = q.req
        /\ new.before = q.before /\ new.codes = found
    BY <1>1, <2>1 DEF PurgeState
  <2>. HIDE DEF new
  <2>4. \A c \in CodeKeys : c[1] = q.req.sid /\ act[c] # Nil => c \in found
    BY DEF found
  <2>. QED BY <1>1, <1>2, <2>2, <2>3, <2>4 DEF PurgeOf, Purged
<1>7. CASE PurgeDeleteCodes(p)
  <2>1. PICK pc \in {"done", "failed"} : purge' = [purge EXCEPT ![p].pc = pc]
    BY <1>7 DEF PurgeDeleteCodes
  <2>. DEFINE new == [q EXCEPT !.pc = pc]
  <2>2. new \in PurgeState /\ new.pc = pc /\ new.req = q.req /\ new.before = q.before
    BY <1>1, <2>1 DEF PurgeState
  <2>3. purge' = [purge EXCEPT ![p] = new]
    BY <1>1, <2>1
  <2>. HIDE DEF new
  <2>4. /\ q.pc = "deletecodes" /\ UNCHANGED <<sess, clg>>
        /\ \A c \in CodeKeys : c \in q.codes => act'[c] = Nil
    BY <1>7 DEF PurgeDeleteCodes
  <2>5. \A c \in CodeKeys : c[1] = q.req.sid /\ act'[c] # Nil => act'[c].of \notin new.before
    BY <1>1, <1>2, <2>2, <2>3, <2>4 DEF PurgeOf
  <2>. QED BY <1>1, <1>2, <2>2, <2>3, <2>4, <2>5 DEF PurgeOf, Purged
<1>8. CASE PurgeFails(p)
  <2>. DEFINE new == [q EXCEPT !.pc = "failed"]
  <2>1. new \in PurgeState /\ new.pc = "failed" /\ new.req = q.req /\ new.before = q.before
    BY <1>1 DEF PurgeState
  <2>2. purge' = [purge EXCEPT ![p] = new] /\ q.pc # "idle"
    BY <1>1, <1>8 DEF PurgeFails
  <2>. HIDE DEF new
  <2>. QED BY <1>2, <2>1, <2>2 DEF PurgeOf
<1>. QED BY <1>3, <1>4, <1>5, <1>6, <1>7, <1>8, PurgeMoves DEF PurgeStep

\* No order of sign-ins, activations and expiries leaves a session, a challenge or a
\* code of before a purge that has deleted them (purge.go:57-141).
THEOREM PurgesAreFinal == Spec => []PurgedStaysPurged
<1>1. Purging => PurgedStaysPurged
  BY DEF Purging, PurgeOf, PurgedStaysPurged
<1>. QED BY TypedInit, TypedStep, PurgingInit, PurgingStep, <1>1, PTL DEF Spec

-----------------------------------------------------------------------------
(* A challenge that is stored is of use.                                   *)

\* Without remember-me no document has a cookie date.  A challenge has not outlived
\* the MFA window, and once its sign-in is answered the session outlives it.
Usable ==
    /\ \A k \in Keys : sess[k] # Nil => sess[k].doc.exp = 0
    /\ \A l \in Logins : login[l].doc.exp = 0
    /\ \A a \in Activations : activation[a].doc.exp = 0
    /\ \A k \in Keys : clg[k] # Nil =>
         /\ clg[k].dl > 0 /\ clg[k].dl <= now + MFASessionDuration
         /\ login[clg[k].of].pc = "done" =>
              sess[k] # Nil /\ (sess[k].dl = NoExpiry \/ clg[k].dl <= sess[k].dl)

\* At first nothing is stored.
LEMMA UsableInit == Init => Usable
BY DEF Init, Usable, NoDocument

\* What is written into a session key is a session.
LEMMA SessionStored ==
    ASSUME Typed, [Next]_vars, NEW k \in Keys,
           (\E l \in Logins : LoginStore(l) /\ k = KeyOf(login[l].req))
             \/ \E a \in Activations : ActivateStore(a) /\ k = KeyOf(activation[a].req)
    PROVE  sess'[k] # Nil \/ (sess[k] = Nil /\ ~\E l \in Logins :
                                 LoginStore(l) /\ k = KeyOf(login[l].req))
<1>1. sess' \in [Keys -> Session \cup {Nil}]
  BY TypedStep DEF Typed, TypeOK
<1>2. ASSUME NEW l \in Logins, LoginStore(l), k = KeyOf(login[l].req)
      PROVE  sess'[k] # Nil
  <2>. DEFINE new == [doc |-> login[l].doc, by |-> l,
                      dl |-> Deadline(LoginLifetime(login[l].req, login[l].doc))]
  <2>1. sess' = [sess EXCEPT ![k] = new]
    BY <1>2 DEF LoginStore
  <2>2. LoginLifetime(login[l].req, login[l].doc) \in Int
    BY DurationAssumption DEF LoginLifetime, GetExpirationFromAuthentication
  <2>3. new \in Session
    BY <2>2, DeadlineType DEF Typed, TypeOK, LoginState, Session, Writers
  <2>. QED BY <2>1, <2>3, NilRecordAssumption DEF Typed, TypeOK
<1>3. ASSUME NEW a \in Activations, ActivateStore(a), k = KeyOf(activation[a].req), sess[k] # Nil
      PROVE  sess'[k] # Nil
  <2>. DEFINE new == [doc |-> [activation[a].doc EXCEPT !.act = now], by |-> a,
                      dl |-> Deadline(ActivatedLifetime(activation[a].doc))]
  <2>1. sess' \in {sess, [sess EXCEPT ![k] = new]}
    BY <1>3 DEF ActivateStore
  <2>2. activation[a].doc \in Document /\ now \in Nat
    BY DEF Typed, TypeOK, ActivationState
  <2>3. ActivatedLifetime(activation[a].doc) \in Int
    BY <2>2 DEF ActivatedLifetime, Since, Document
  <2>4. [activation[a].doc EXCEPT !.act = now] \in Document
    BY <2>2 DEF Document
  <2>5. new \in Session
    BY <2>2, <2>3, <2>4, DeadlineType DEF Session, Writers
  <2>. QED BY <1>3, <2>1, <2>5, NilRecordAssumption DEF Typed, TypeOK
<1>. QED BY <1>2, <1>3

\* Without purges a session goes only when its time has come.
LEMMA SessionGoes ==
    ASSUME Typed, [Next]_vars, Purges = {}, NEW k \in Keys, sess[k] # Nil, sess'[k] = Nil
    PROVE  Tick /\ sess[k].dl # NoExpiry /\ sess[k].dl <= now'
<1>. USE DEF Typed, TypeOK, redis
<1>1. CASE Tick
  BY <1>1 DEF Tick, Unexpired
<1>2. CASE \E a \in Activations : \/ ActivateStart(a) \/ ActivateRead(a) \/ ActivateFails(a)
                                  \/ ActivateSession(a) \/ ActivateSessionLost(a)
  BY <1>2 DEF ActivateStart, ActivateSession, ActivateSessionLost, ActivateRead, ActivateFails
<1>3. ASSUME NEW a \in Activations, ActivateStore(a)
      PROVE  FALSE
  <2>1. k # KeyOf(activation[a].req)
    BY <1>3, SessionStored
  <2>. QED BY <1>3, <2>1 DEF ActivateStore
<1>4. ASSUME NEW l \in Logins, LoginStore(l)
      PROVE  FALSE
  <2>1. k # KeyOf(login[l].req)
    BY <1>4, SessionStored
  <2>. QED BY <1>4, <2>1 DEF LoginStore
<1>5. CASE \E l \in Logins : \/ LoginStart(l) \/ SignIn(l) \/ SignInDenied(l) \/ LoginRead(l)
                             \/ LoginChallenge(l) \/ LoginCallFails(l) \/ LoginFails(l)
  BY <1>5 DEF LoginStart, SignIn, SignInDenied, LoginRead, LoginChallenge,
              LoginCallFails, LoginFails
<1>6. CASE Terminating \/ UNCHANGED vars
  BY <1>6 DEF Terminating, vars
<1>. QED BY <1>1, <1>2, <1>3, <1>4, <1>5, <1>6 DEF Next, ActivateStep, LoginStep

\* What these assumptions say of the two writes.
LEMMA LongEnough ==
    ASSUME Typed, Usable, RememberMeDuration = 0,
           EphemeralSessionDuration >= MFASessionDuration, NEW k \in Keys,
           \/ \E l \in Logins : LoginWrites(l, k)
           \/ \E a \in Activations : ActivateWrites(a, k)
    PROVE  /\ sess'[k].doc.exp = 0 /\ now' = now /\ clg' = clg
           /\ sess'[k].dl = NoExpiry \/ sess'[k].dl >= now + MFASessionDuration
<1>. USE DEF Typed, TypeOK
<1>1. ASSUME NEW l \in Logins, LoginWrites(l, k)
      PROVE  /\ sess'[k].doc.exp = 0 /\ now' = now /\ clg' = clg
             /\ sess'[k].dl >= now + MFASessionDuration
  <2>1. /\ sess'[k].doc = login[l].doc /\ now' = now /\ clg' = clg
        /\ sess'[k].dl = Deadline(LoginLifetime(login[l].req, login[l].doc))
    BY <1>1 DEF LoginWrites, LoginStore
  <2>2. LoginLifetime(login[l].req, login[l].doc) \in {MFASessionDuration, EphemeralSessionDuration}
    BY DEF LoginLifetime, GetExpirationFromAuthentication, Remembered
  <2>. QED BY <2>1, <2>2, DurationAssumption DEF Deadline, Usable
<1>2. ASSUME NEW a \in Activations, ActivateWrites(a, k)
      PROVE  /\ sess'[k].doc.exp = 0 /\ now' = now /\ clg' = clg
             /\ sess'[k].dl = NoExpiry
  <2>. DEFINE doc == activation[a].doc
  <2>1. /\ sess'[k].doc = [doc EXCEPT !.act = now] /\ now' = now /\ clg' = clg
        /\ sess'[k].dl = Deadline(ActivatedLifetime(doc))
    BY <1>2 DEF ActivateWrites, ActivateStore
  <2>2. doc \in Document /\ doc.exp = 0
    BY DEF Usable, ActivationState
  <2>3. sess'[k].doc.exp = 0
    BY <2>1, <2>2 DEF Document
  <2>4. ActivatedLifetime(doc) = 0
    BY <2>2 DEF ActivatedLifetime
  <2>. QED BY <2>1, <2>3, <2>4 DEF Deadline
<1>. QED BY <1>1, <1>2

\* Only LoginRead sets the document of a sign-in, only LoginStore ends one well.
LEMMA LoginKeeps ==
    ASSUME Typed, NEW l \in Logins
    PROVE  /\ (\/ LoginStart(l) \/ SignIn(l) \/ SignInDenied(l) \/ LoginChallenge(l)
               \/ LoginStore(l) \/ LoginCallFails(l) \/ LoginFails(l))
              => login'[l].doc = login[l].doc
           /\ (\/ LoginStart(l) \/ SignIn(l) \/ SignInDenied(l) \/ LoginRead(l)
               \/ LoginChallenge(l) \/ LoginCallFails(l) \/ LoginFails(l))
              => \/ login[l].pc = "done"
                 \/ login'[l].pc # "done"
<1>. DEFINE Kept == login'[l].doc = login[l].doc
            Open == login[l].pc = "done" \/ login'[l].pc # "done"
<1>0. login[l] \in LoginState /\ login \in [Logins -> LoginState]
  BY DEF Typed, TypeOK
<1>1. ASSUME LoginStart(l) PROVE Kept /\ Open
  <2>1. PICK req \in LoginRequest :
           login' = [login EXCEPT ![l].pc = "signin", ![l].req = req, ![l].call = "sent"]
    BY <1>1 DEF LoginStart
  <2>2. login'[l] = [login[l] EXCEPT !.pc = "signin", !.req = req, !.call = "sent"]
    BY <1>0, <2>1
  <2>. QED BY <1>0, <2>2 DEF LoginState
<1>2. ASSUME SignIn(l) PROVE Kept /\ Open
  <2>1. PICK reply \in {"ok", "error"} : login' = [login EXCEPT ![l].call = reply]
    BY <1>2 DEF SignIn
  <2>. QED BY <1>0, <2>1 DEF LoginState
<1>3. ASSUME SignInDenied(l) PROVE Kept /\ Open
  BY <1>0, <1>3 DEF SignInDenied, LoginState
<1>4. ASSUME LoginChallenge(l) PROVE Kept /\ Open
  BY <1>0, <1>4 DEF LoginChallenge, LoginState
<1>5. ASSUME LoginStore(l) PROVE Kept
  BY <1>0, <1>5 DEF LoginStore, LoginState
<1>6. ASSUME LoginCallFails(l) \/ LoginFails(l) PROVE Kept /\ Open
  BY <1>0, <1>6 DEF LoginCallFails, LoginFails, LoginState
<1>7. ASSUME LoginRead(l) PROVE Open
  <2>. DEFINE doc == SignedInDocument(login[l].req)
  <2>1. \E pc \in {"store", "challenge"} : \E saw :
           login' = [login EXCEPT ![l].doc = doc, ![l].saw = saw, ![l].pc = pc]
    BY <1>7 DEF LoginRead
  <2>. HIDE DEF doc
  <2>. QED BY <1>0, <2>1 DEF LoginState
<1>. HIDE DEF Kept, Open
<1>8. /\ (\/ LoginStart(l) \/ SignIn(l) \/ SignInDenied(l) \/ LoginChallenge(l)
          \/ LoginStore(l) \/ LoginCallFails(l) \/ LoginFails(l)) => Kept
      /\ (\/ LoginStart(l) \/ SignIn(l) \/ SignInDenied(l) \/ LoginRead(l)
          \/ LoginChallenge(l) \/ LoginCallFails(l) \/ LoginFails(l)) => Open
  BY <1>1, <1>2, <1>3, <1>4, <1>5, <1>6, <1>7
<1>. QED BY <1>8 DEF Kept, Open

\* Usable is inductive, together with IInv.
LEMMA UsableStep ==
    ASSUME Purges = {}, RememberMeDuration = 0, EphemeralSessionDuration >= MFASessionDuration,
           IInv, Usable, [Next]_vars
    PROVE  Usable'
<1>. USE DEF IInv
<1>1. ASSUME NEW k \in Keys, sess'[k] # Nil
      PROVE  sess'[k].doc.exp = 0
  BY <1>1, SessionWrites, LongEnough DEF Usable
<1>2. ASSUME NEW l \in Logins
      PROVE  login'[l].doc.exp = 0
  <2>1. login[l] \in LoginState /\ login[l].doc.exp = 0 /\ login \in [Logins -> LoginState]
    BY DEF Typed, TypeOK, Usable
  <2>2. CASE LoginRead(l)
    <3>. DEFINE req == login[l].req
                k == KeyOf(req)
    <3>1. login'[l].doc = SignedInDocument(req)
      BY <2>1, <2>2 DEF LoginRead, LoginState
    <3>2. req \in LoginRequest
      BY <2>2 DEF LoginRead, Typed, RequestsKnown
    <3>3. CachedDocument(k).exp = 0
      BY <3>2 DEF CachedDocument, NoDocument, Usable, Keys, KeyOf, LoginRequest
    <3>. QED BY <3>1, <3>3 DEF SignedInDocument, Remembered
  <2>3. CASE login'[l] = login[l]
    BY <2>1, <2>3
  <2>4. CASE \/ LoginStart(l) \/ SignIn(l) \/ SignInDenied(l) \/ LoginChallenge(l)
             \/ LoginStore(l) \/ LoginCallFails(l) \/ LoginFails(l)
    <3>1. login'[l].doc = login[l].doc
      BY <2>1, <2>4, LoginKeeps
    <3>. QED BY <2>1, <3>1
  <2>. QED BY <2>2, <2>3, <2>4, LoginMoves DEF LoginStep
<1>3. ASSUME NEW a \in Activations
      PROVE  activation'[a].doc.exp = 0
  <2>. DEFINE old == activation[a]
  <2>1. old \in ActivationState /\ old.doc.exp = 0
        /\ activation \in [Activations -> ActivationState]
    BY DEF Typed, TypeOK, Usable
  <2>2. CASE ActivateRead(a)
    <3>. DEFINE k == KeyOf(old.req)
    <3>1. k \in Keys
      BY <2>2 DEF ActivateRead, Typed, RequestsKnown, KeyOf, Keys, ActivateRequest
    <3>2. CASE sess[k] = Nil
      BY <2>1, <2>2, <3>2 DEF ActivateRead, ActivationState
    <3>3. CASE sess[k] # Nil
      <4>. DEFINE doc == sess[k].doc
                  new == [old EXCEPT !.pc = "call", !.call = "sent", !.doc = doc]
      <4>1. doc.exp = 0
        BY <3>1, <3>3 DEF Usable
      <4>2. activation' = [activation EXCEPT ![a].pc = "call", ![a].call = "sent", ![a].doc = doc]
        BY <2>2, <3>3 DEF ActivateRead
      <4>3. activation'[a] = new
        BY <2>1, <4>2
      <4>. HIDE DEF doc
      <4>4. new.doc = doc
        BY <2>1 DEF ActivationState
      <4>. QED BY <4>1, <4>3, <4>4
    <3>. QED BY <3>2, <3>3
  <2>3. CASE activation'[a] = activation[a]
    BY <2>1, <2>3
  <2>4. CASE ActivateSession(a)
    <3>1. PICK call, l :
             \/ activation' = [activation EXCEPT ![a].call = call, ![a].codeOf = l]
             \/ activation' = [activation EXCEPT ![a].call = call]
      BY <2>4 DEF ActivateSession
    <3>2. activation'[a].doc = old.doc
      BY <2>1, <3>1 DEF ActivationState
    <3>. QED BY <2>1, <3>2
  <2>5. CASE ActivateStart(a)
    <3>1. PICK req \in ActivateRequest, pc \in {"read", "refused"} :
             activation' = [activation EXCEPT ![a].req = req, ![a].pc = pc]
      BY <2>5 DEF ActivateStart
    <3>2. activation'[a].doc = old.doc
      BY <2>1, <3>1 DEF ActivationState
    <3>. QED BY <2>1, <3>2
  <2>6. CASE ActivateSessionLost(a) \/ ActivateStore(a) \/ ActivateFails(a)
    <3>1. activation'[a].doc = old.doc
      BY <2>1, <2>6 DEF ActivateSessionLost, ActivateStore, ActivateFails, ActivationState
    <3>. QED BY <2>1, <3>1
  <2>. QED BY <2>2, <2>3, <2>4, <2>5, <2>6, ActivationMoves DEF ActivateStep
<1>4. now \in Nat /\ now' \in Nat /\ now <= now' /\ MFASessionDuration \in Nat \ {0}
  <2>1. Typed'
    BY TypedStep
  <2>2. now' = now \/ now' = now + 1
    BY DEF Next, Tick, LoginStart, SignIn, SignInDenied, LoginStep, LoginRead, LoginChallenge,
       LoginStore, LoginCallFails, LoginFails, ActivateStart, ActivateSession,
       ActivateSessionLost, ActivateStep, ActivateRead, ActivateStore, ActivateFails,
       PurgeListSessions, PurgeStep, PurgeDeleteSessions, PurgeListCodes, PurgeDeleteCodes,
       PurgeFails, Terminating, vars
  <2>. QED BY <2>1, <2>2, DurationAssumption DEF Typed, TypeOK
<1>5. ASSUME NEW k \in Keys, clg'[k] # Nil
      PROVE  /\ clg'[k].dl > 0 /\ clg'[k].dl <= now' + MFASessionDuration
             /\ login'[clg'[k].of].pc = "done" =>
                  sess'[k] # Nil /\ (sess'[k].dl = NoExpiry \/ clg'[k].dl <= sess'[k].dl)
  <2>1. CASE clg'[k] = clg[k]
    <3>. DEFINE l == clg[k].of
    <3>1. /\ clg[k] \in Challenge /\ l \in Logins /\ clg[k].dl \in Nat
          /\ clg[k].dl > 0 /\ clg[k].dl <= now + MFASessionDuration
          /\ sess[k] # Nil => sess[k].dl \in Nat
      BY <1>5, <2>1 DEF Usable, Typed, TypeOK, Challenge, Session
    <3>2. ASSUME sess'[k] # Nil, sess'[k] # sess[k]
          PROVE  sess'[k].dl = NoExpiry \/ clg[k].dl <= sess'[k].dl
      <4>1. sess'[k].dl = NoExpiry \/ sess'[k].dl >= now + MFASessionDuration
        BY <3>2, SessionWrites, LongEnough
      <4>2. sess'[k].dl \in Nat
        BY <3>2, TypedStep DEF Typed, TypeOK, Session
      <4>. QED BY <1>4, <3>1, <4>1, <4>2
    <3>3. CASE login[l].pc = "done"
      <4>1. sess[k] # Nil /\ (sess[k].dl = NoExpiry \/ clg[k].dl <= sess[k].dl)
        BY <1>5, <2>1, <3>3 DEF Usable
      <4>2. sess'[k] # Nil
        <5>1. ASSUME sess'[k] = Nil PROVE FALSE
          <6>1. Tick /\ sess[k].dl # NoExpiry /\ sess[k].dl <= now'
            BY <4>1, <5>1, SessionGoes
          <6>2. clg[k].dl # NoExpiry /\ clg[k].dl <= now'
            BY <1>4, <3>1, <4>1, <6>1 DEF NoExpiry
          <6>. QED BY <1>5, <2>1, <6>1, <6>2 DEF Tick, Unexpired, Typed, TypeOK
        <5>. QED BY <5>1
      <4>. QED BY <1>4, <2>1, <3>1, <3>2, <4>1, <4>2
    <3>4. CASE login[l].pc # "done" /\ login'[l].pc = "done"
      <4>1. LoginStore(l)
        <5>1. login[l] \in LoginState /\ login \in [Logins -> LoginState]
          BY <3>1 DEF Typed, TypeOK
        <5>2. CASE \/ LoginStart(l) \/ SignIn(l) \/ SignInDenied(l) \/ LoginRead(l)
                   \/ LoginChallenge(l) \/ LoginCallFails(l) \/ LoginFails(l)
          <6>1. login'[l].pc # "done"
            BY <3>1, <3>4, <5>1, <5>2, LoginKeeps DEF LoginRead
          <6>. QED BY <3>4, <6>1
        <5>. QED BY <3>1, <3>4, <5>2, LoginMoves DEF LoginStep
      <4>2. k = KeyOf(login[l].req)
        BY <1>5, <2>1 DEF SecretsFounded, PasswordChecked, KeyOf, Keys
      <4>3. LoginWrites(l, k)
        BY <4>1, <4>2 DEF LoginWrites, LoginStore, Typed, TypeOK
      <4>4. sess'[k].dl = NoExpiry \/ sess'[k].dl >= now + MFASessionDuration
        BY <3>1, <4>3, LongEnough
      <4>5. sess'[k] # Nil
        BY <3>1, <4>1, <4>2, SessionStored
      <4>6. sess'[k].dl \in Nat
        BY <4>5, TypedStep DEF Typed, TypeOK, Session
      <4>. QED BY <1>4, <2>1, <3>1, <4>4, <4>5, <4>6
    <3>. QED BY <1>4, <2>1, <3>1, <3>3, <3>4
  <2>2. ASSUME NEW l \in Logins, LoginChallenge(l), clg'[k] = NewChallenge(l)
        PROVE  clg'[k].of = l /\ clg'[k].dl = now + MFASessionDuration /\ now' = now
               /\ login'[l].pc # "done"
    <3>1. login[l] \in LoginState /\ login \in [Logins -> LoginState]
      BY DEF Typed, TypeOK
    <3>2. login'[l].pc # "done"
      BY <2>2, <3>1 DEF LoginChallenge, LoginState
    <3>. QED BY <1>4, <2>2, <3>2 DEF NewChallenge, LoginChallenge, Deadline
  <2>. QED BY <1>4, <1>5, <2>1, <2>2, ChallengeWrites
<1>6. \A k \in Keys : (clg[k] # Nil)' =>
         /\ (clg[k].dl > 0)' /\ (clg[k].dl <= now + MFASessionDuration)'
         /\ (login[clg[k].of].pc = "done")' =>
              (sess[k] # Nil)' /\ (sess[k].dl = NoExpiry \/ clg[k].dl <= sess[k].dl)'
  BY <1>5
<1>. QED BY <1>1, <1>2, <1>3, <1>6 DEF Usable

\* Whoever holds the challenge of an answered sign-in has a session to activate: with
\* ephemeral sessions that last at least as long as the MFA window, and no purges.
THEOREM ChallengesAreUsable ==
    ASSUME Purges = {}, RememberMeDuration = 0, EphemeralSessionDuration >= MFASessionDuration
    PROVE  Spec => []ChallengeUsable
<1>1. Init => IInv /\ Usable
  BY IInvInit, UsableInit
<1>2. IInv /\ Usable /\ [Next]_vars => IInv' /\ Usable'
  BY IInvStep, UsableStep
<1>3. Usable => ChallengeUsable
  BY DEF Usable, ChallengeUsable
<1>. QED BY <1>1, <1>2, <1>3, PTL DEF Spec

-----------------------------------------------------------------------------
(* An activation is lost only in a race.                                   *)

\* What a sign-in has read stands for the session as long as nobody writes it: who wrote
\* that one is over, so that whatever is written later is known to be another one.
ReadStands(l) ==
    /\ login[l].saw # Nil => Over(login[l].saw)
    /\ login[l].pc \in {"challenge", "store"} =>
         \A k \in Keys :
            /\ k = KeyOf(login[l].req) /\ sess[k] # Nil
            /\ sess[k].by = login[l].saw /\ sess[k].doc.act # 0
            => login[l].doc.act # 0

ReadsStand == \A l \in Logins : ReadStands(l)

LEMMA ReadsInit == Init => ReadsStand
BY DEF Init, ReadsStand, ReadStands

\* A request that goes on with the document it has still knows the session it has read.
LEMMA ReadKept ==
    ASSUME IInv, ReadsStand, [Next]_vars, NEW l \in Logins,
           login'[l].saw = login[l].saw, login'[l].doc = login[l].doc,
           login'[l].req = login[l].req,
           login[l].pc \in {"challenge", "store"} \/ login'[l].pc \notin {"challenge", "store"}
    PROVE  ReadStands(l)'
<1>. PICK saw \in Writers \cup {Nil} : login[l].saw = saw
  BY DEF IInv, Typed, TypeOK, LoginState
<1>1. saw # Nil => saw \in Writers /\ Over(saw)
  BY DEF ReadsStand, ReadStands
<1>2. saw # Nil => Over(saw)'
  BY <1>1, OverStays DEF IInv
<1>3. ASSUME NEW k \in Keys, sess'[k] # Nil, sess'[k].by = saw
      PROVE  sess'[k] = sess[k]
  <2>1. ASSUME NEW m \in Logins, LoginWrites(m, k)
        PROVE  FALSE
    <3>1. saw = m /\ login[m].pc = "store"
      BY <1>3, <2>1 DEF LoginWrites, LoginStore
    <3>. QED BY <1>1, <3>1, NilAssumption DEF Over
  <2>2. ASSUME NEW a \in Activations, ActivateWrites(a, k)
        PROVE  FALSE
    <3>1. saw = a /\ activation[a].pc = "call"
      BY <1>3, <2>2 DEF ActivateWrites, ActivateStore
    <3>. QED BY <1>1, <3>1, NilAssumption, DisjointAssumption DEF Over
  <2>. QED BY <1>3, <2>1, <2>2, SessionWrites DEF IInv
<1>4. (login[l].saw # Nil => Over(login[l].saw))'
  BY <1>2 DEF Over
<1>. QED BY <1>3, <1>4 DEF ReadsStand, ReadStands

LEMMA ReadsStep ==
    ASSUME IInv, ReadsStand, [Next]_vars
    PROVE  ReadsStand'
<1>. SUFFICES ASSUME NEW l \in Logins
              PROVE  ReadStands(l)'
  BY DEF ReadsStand
<1>. USE DEF IInv, Typed, TypeOK
<1>1. login[l] \in LoginState
  OBVIOUS
<1>2. CASE login'[l] = login[l]
  BY <1>2, ReadKept
<1>3. CASE LoginStart(l) \/ SignIn(l) \/ SignInDenied(l)
  <2>1. ASSUME LoginStart(l)
        PROVE  ReadStands(l)'
    <3>1. /\ login'[l].pc = "signin" /\ login'[l].saw = login[l].saw
      BY <1>1, <2>1 DEF LoginStart, LoginState
    <3>2. ASSUME NEW saw \in Writers, login[l].saw = saw, saw # Nil
          PROVE  Over(saw)'
      BY <3>2, OverStays DEF ReadsStand, ReadStands
    <3>3. login[l].saw # Nil => login[l].saw \in Writers
      BY <1>1 DEF LoginState
    <3>. QED BY <3>1, <3>2, <3>3 DEF ReadStands, Over
  <2>2. ASSUME SignIn(l) \/ SignInDenied(l)
        PROVE  ReadStands(l)'
    <3>1. \E call : login' = [login EXCEPT ![l].call = call]
      BY <2>2, Zenon DEF SignIn, SignInDenied
    <3>. QED BY <1>1, <3>1, ReadKept DEF LoginState
  <2>. QED BY <1>3, <2>1, <2>2
<1>4. CASE LoginChallenge(l) \/ LoginStore(l) \/ LoginCallFails(l) \/ LoginFails(l)
  <2>1. login[l].pc \in {"challenge", "store"} \/ LoginCallFails(l)
    BY <1>4 DEF LoginChallenge, LoginStore, LoginFails
  <2>2. \E pc \in {"store", "done", "failed"} :
           /\ login' = [login EXCEPT ![l].pc = pc]
           /\ LoginCallFails(l) => pc = "failed"
    BY <1>4 DEF LoginChallenge, LoginStore, LoginCallFails, LoginFails
  <2>. QED BY <1>1, <2>1, <2>2, ReadKept DEF LoginState
<1>5. CASE LoginRead(l)
  <2>. DEFINE key == KeyOf(login[l].req)
              doc == SignedInDocument(login[l].req)
  <2>1. /\ login'[l].req = login[l].req /\ login'[l].saw = CachedBy(key)
        /\ login'[l].doc = doc
        /\ UNCHANGED sess
    BY <1>1, <1>5 DEF LoginRead, LoginState, redis
  <2>2. key \in Keys
    BY <1>5 DEF LoginRead, RequestsKnown, LoginRequest, KeyOf, Keys
  <2>. PICK saw : CachedBy(key) = saw
    OBVIOUS
  <2>3. saw # Nil => saw \in Writers /\ Over(saw)
    BY <2>2 DEF CachedBy, WritersOver, Session
  <2>4. saw # Nil => Over(saw)'
    BY <2>3, OverStays
  <2>5. sess[key] # Nil /\ sess[key].doc.act # 0 => doc.act # 0
    BY <2>2 DEF SignedInDocument, CachedDocument, DocumentsFounded, Founded
  <2>6. (login[l].saw # Nil => Over(login[l].saw))'
    BY <2>1, <2>4 DEF Over
  <2>. QED BY <2>1, <2>5, <2>6 DEF ReadStands
<1>. QED BY <1>2, <1>3, <1>4, <1>5, LoginMoves DEF LoginStep

\* Signing in again takes an activation away only if the sign-in had read the session
\* before the one it overwrites was stored, for any number of sign-ins and activations
\* (authentication.go:135-145, 216-222).
THEOREM ActivationsLostOnlyInRace == Spec => ActivationLostOnlyInRace
<1>1. Init => IInv /\ ReadsStand
  BY IInvInit, ReadsInit
<1>2. IInv /\ ReadsStand /\ [Next]_vars => IInv' /\ ReadsStand'
  BY IInvStep, ReadsStep
<1>3. ASSUME IInv, ReadsStand, [Next]_vars, NEW k \in Keys,
             sess[k] # Nil, sess[k].doc.act # 0, sess'[k] # Nil, sess'[k].doc.act = 0
      PROVE  sess'[k].by \in Logins /\ sess[k].by # login[sess'[k].by].saw
  <2>1. ASSUME NEW l \in Logins, LoginWrites(l, k)
        PROVE  sess'[k].by \in Logins /\ sess[k].by # login[sess'[k].by].saw
    <3>1. sess'[k].by = l /\ login[l].pc = "store" /\ k = KeyOf(login[l].req)
          /\ login[l].doc.act = 0
      BY <1>3, <2>1 DEF LoginWrites, LoginStore
    <3>. QED BY <1>3, <3>1 DEF ReadsStand, ReadStands
  <2>2. ASSUME NEW a \in Activations, ActivateWrites(a, k)
        PROVE  FALSE
    <3>1. activation[a].doc \in Document /\ now # 0
      BY <1>3 DEF IInv, Typed, TypeOK, ActivationState
    <3>. QED BY <1>3, <2>2, <3>1 DEF ActivateWrites, Document
  <2>. QED BY <1>3, <2>1, <2>2, SessionWrites DEF IInv
<1>4. IInv /\ ReadsStand /\ [Next]_vars =>
        [\A k \in Keys :
           /\ sess[k] # Nil /\ sess[k].doc.act # 0
           /\ sess'[k] # Nil /\ sess'[k].doc.act = 0
           => /\ sess'[k].by \in Logins
              /\ sess[k].by # login[sess'[k].by].saw]_vars
  BY <1>3
<1>. QED BY <1>1, <1>2, <1>4, PTL DEF Spec, ActivationLostOnlyInRace

-----------------------------------------------------------------------------
(* Every request ends.                                                     *)

\* How far a request has come.  A request never goes back, and each step of its handler
\* brings it further.
LoginAt(l, pc) == login[l].pc = pc
LoginOver(l) == login[l].pc \in {"done", "failed"}
ActivationAt(a, pc) == activation[a].pc = pc
ActivationOver(a) == activation[a].pc \in {"refused", "done", "failed"}
PurgeAt(p, pc) == purge[p].pc = pc
PurgeOver(p) == purge[p].pc \in {"done", "failed"}

LEMMA LoginSteps ==
    ASSUME NEW l \in Logins
    PROVE  /\ Typed /\ LoginAt(l, "signin") /\ [Next]_vars =>
                \/ LoginAt(l, "signin")' \/ LoginAt(l, "challenge")'
                \/ LoginAt(l, "store")' \/ LoginOver(l)'
           /\ Typed /\ LoginAt(l, "challenge") /\ [Next]_vars =>
                LoginAt(l, "challenge")' \/ LoginAt(l, "store")' \/ LoginOver(l)'
           /\ Typed /\ LoginAt(l, "store") /\ [Next]_vars =>
                LoginAt(l, "store")' \/ LoginOver(l)'
           /\ Typed /\ LoginStep(l) =>
                /\ ~LoginAt(l, "signin")'
                /\ LoginAt(l, "challenge") => ~LoginAt(l, "challenge")'
                /\ LoginAt(l, "store") => ~LoginAt(l, "store")'
<1>. USE DEF LoginAt, LoginOver, Typed, TypeOK
<1>1. ASSUME Typed, LoginStart(l) \/ SignIn(l) \/ SignInDenied(l)
      PROVE  login[l].pc = "idle" \/ login'[l].pc = login[l].pc
  BY <1>1 DEF LoginStart, SignIn, SignInDenied, LoginState
<1>2. ASSUME Typed, LoginStep(l)
      PROVE  \/ login[l].pc = "signin" /\ login'[l].pc \in {"store", "challenge", "failed"}
             \/ login[l].pc = "challenge" /\ login'[l].pc \in {"store", "failed"}
             \/ login[l].pc = "store" /\ login'[l].pc \in {"done", "failed"}
  BY <1>2 DEF LoginStep, LoginRead, LoginChallenge, LoginStore, LoginCallFails, LoginFails,
              LoginState
<1>. QED BY <1>1, <1>2, LoginMoves

LEMMA ActivationSteps ==
    ASSUME NEW a \in Activations
    PROVE  /\ Typed /\ ActivationAt(a, "read") /\ [Next]_vars =>
                ActivationAt(a, "read")' \/ ActivationAt(a, "call")' \/ ActivationOver(a)'
           /\ Typed /\ ActivationAt(a, "call") /\ [Next]_vars =>
                ActivationAt(a, "call")' \/ ActivationOver(a)'
           /\ Typed /\ ActivateStep(a) =>
                /\ ~ActivationAt(a, "read")'
                /\ ActivationAt(a, "call") => ~ActivationAt(a, "call")'
<1>. USE DEF ActivationAt, ActivationOver, Typed, TypeOK
<1>1. ASSUME Typed, ActivateStart(a) \/ ActivateSession(a) \/ ActivateSessionLost(a)
      PROVE  activation[a].pc = "idle" \/ activation'[a].pc = activation[a].pc
  BY <1>1 DEF ActivateStart, ActivateSession, ActivateSessionLost, ActivationState
<1>2. ASSUME Typed, ActivateStep(a)
      PROVE  \/ activation[a].pc = "read" /\ activation'[a].pc \in {"call", "failed"}
             \/ activation[a].pc = "call" /\ activation'[a].pc \in {"done", "failed"}
  BY <1>2 DEF ActivateStep, ActivateRead, ActivateStore, ActivateFails, ActivationState
<1>. QED BY <1>1, <1>2, ActivationMoves

LEMMA PurgeSteps ==
    ASSUME NEW p \in Purges
    PROVE  /\ Typed /\ PurgeAt(p, "delete") /\ [Next]_vars =>
                \/ PurgeAt(p, "delete")' \/ PurgeAt(p, "codes")'
                \/ PurgeAt(p, "deletecodes")' \/ PurgeOver(p)'
           /\ Typed /\ PurgeAt(p, "codes") /\ [Next]_vars =>
                PurgeAt(p, "codes")' \/ PurgeAt(p, "deletecodes")' \/ PurgeOver(p)'
           /\ Typed /\ PurgeAt(p, "deletecodes") /\ [Next]_vars =>
                PurgeAt(p, "deletecodes")' \/ PurgeOver(p)'
           /\ Typed /\ PurgeStep(p) =>
                /\ ~PurgeAt(p, "delete")'
                /\ PurgeAt(p, "codes") => ~PurgeAt(p, "codes")'
                /\ PurgeAt(p, "deletecodes") => ~PurgeAt(p, "deletecodes")'
<1>. USE DEF PurgeAt, PurgeOver, Typed, TypeOK
<1>1. ASSUME Typed, PurgeStep(p)
      PROVE  \/ purge[p].pc = "delete" /\ purge'[p].pc \in {"done", "codes", "failed"}
             \/ purge[p].pc = "codes" /\ purge'[p].pc \in {"deletecodes", "failed"}
             \/ purge[p].pc = "deletecodes" /\ purge'[p].pc \in {"done", "failed"}
  BY <1>1 DEF PurgeStep, PurgeDeleteSessions, PurgeListCodes, PurgeDeleteCodes, PurgeFails,
              PurgeState
<1>. QED BY <1>1, PurgeMoves DEF PurgeListSessions

\* Of the requests of each kind, one at a time.
LEMMA LoginTerminates ==
    ASSUME NEW l \in Logins
    PROVE  Spec /\ LoginGoesOn(l) /\ []HandlersNeverWait => LoginEnds(l)
<1>1. HandlersNeverWait =>
        (LoginAt(l, "signin") \/ LoginAt(l, "challenge") \/ LoginAt(l, "store")
         => ENABLED <<LoginStep(l)>>_vars)
  BY DEF HandlersNeverWait, LoginAt
<1>2. Typed /\ login[l].pc # "idle" =>
        \/ LoginAt(l, "signin") \/ LoginAt(l, "challenge") \/ LoginAt(l, "store")
        \/ LoginOver(l)
  BY DEF Typed, TypeOK, LoginState, LoginAt, LoginOver
<1>3. LoginOver(l) => login[l].pc \in {"done", "failed"}
  BY DEF LoginOver
<1>. QED BY <1>1, <1>2, <1>3, LoginSteps, TypedInit, TypedStep, PTL
         DEF Spec, LoginGoesOn, LoginEnds

LEMMA ActivationTerminates ==
    ASSUME NEW a \in Activations
    PROVE  Spec /\ ActivationGoesOn(a) /\ []HandlersNeverWait => ActivationEnds(a)
<1>1. HandlersNeverWait =>
        (ActivationAt(a, "read") \/ ActivationAt(a, "call") => ENABLED <<ActivateStep(a)>>_vars)
  BY DEF HandlersNeverWait, ActivationAt
<1>2. Typed /\ activation[a].pc # "idle" =>
        ActivationAt(a, "read") \/ ActivationAt(a, "call") \/ ActivationOver(a)
  BY DEF Typed, TypeOK, ActivationState, ActivationAt, ActivationOver
<1>3. ActivationOver(a) => activation[a].pc \in {"refused", "done", "failed"}
  BY DEF ActivationOver
<1>. QED BY <1>1, <1>2, <1>3, ActivationSteps, TypedInit, TypedStep, PTL
         DEF Spec, ActivationGoesOn, ActivationEnds

LEMMA PurgeTerminates ==
    ASSUME NEW p \in Purges
    PROVE  Spec /\ PurgeGoesOn(p) /\ []HandlersNeverWait => PurgeEnds(p)
<1>1. HandlersNeverWait =>
        (PurgeAt(p, "delete") \/ PurgeAt(p, "codes") \/ PurgeAt(p, "deletecodes")
         => ENABLED <<PurgeStep(p)>>_vars)
  BY DEF HandlersNeverWait, PurgeAt
<1>2. Typed /\ purge[p].pc # "idle" =>
        \/ PurgeAt(p, "delete") \/ PurgeAt(p, "codes") \/ PurgeAt(p, "deletecodes")
        \/ PurgeOver(p)
  BY DEF Typed, TypeOK, PurgeState, PurgeAt, PurgeOver
<1>3. PurgeOver(p) => purge[p].pc \in {"done", "failed"}
  BY DEF PurgeOver
<1>. QED BY <1>1, <1>2, <1>3, PurgeSteps, TypedInit, TypedStep, PTL
         DEF Spec, PurgeGoesOn, PurgeEnds

\* Every request is answered, for any number of requests and whoever does not answer, if
\* the goroutines of the handlers run and a handler can always go on or give up
\* (authentication.go:102, 311).
THEOREM EveryRequestEnds == FairSpec /\ []HandlersNeverWait => RequestsTerminate
<1>1. ASSUME NEW l \in Logins
      PROVE  FairSpec /\ []HandlersNeverWait => LoginEnds(l)
  <2>1. Fairness => LoginGoesOn(l)
    BY DEF Fairness
  <2>. QED BY <2>1, LoginTerminates, PTL DEF FairSpec
<1>2. ASSUME NEW a \in Activations
      PROVE  FairSpec /\ []HandlersNeverWait => ActivationEnds(a)
  <2>1. Fairness => ActivationGoesOn(a)
    BY DEF Fairness
  <2>. QED BY <2>1, ActivationTerminates, PTL DEF FairSpec
<1>3. ASSUME NEW p \in Purges
      PROVE  FairSpec /\ []HandlersNeverWait => PurgeEnds(p)
  <2>1. Fairness => PurgeGoesOn(p)
    BY DEF Fairness
  <2>. QED BY <2>1, PurgeTerminates, PTL DEF FairSpec
<1>. QED BY <1>1, <1>2, <1>3 DEF RequestsTerminate
=============================================================================
