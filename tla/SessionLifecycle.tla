-------------------------- MODULE SessionLifecycle --------------------------
(***************************************************************************)
(* Sign-in, MFA activation and purge of SSO sessions.                      *)
(*                                                                         *)
(* A session lives in Redis only, as one document per (session id,         *)
(* subject) with a time to live.  Three kinds of requests work on it, each *)
(* in several round trips that interleave freely:                          *)
(*   - AuthenticateHandler: SignIn at SSO Service, read the session, store *)
(*     an MFA challenge, write the session back;                           *)
(*   - ActivateSessionHandler: take the challenge, read the session,       *)
(*     ActivateSession at SSO Service (which takes the activation code),   *)
(*     write the session back;                                             *)
(*   - PurgeAccountCache: list keys, delete them, list codes, delete them. *)
(*                                                                         *)
(* Every request is used once, so the state keeps what each one did.       *)
(* Redis and the gRPC transport are external: a command or a call may      *)
(* fail, with or without having taken effect.                              *)
(***************************************************************************)
EXTENDS Integers

CONSTANTS
    Sessions,      \* session ids: the values of the session cookie
    Subjects,      \* account ids
    Agents,        \* User-Agent headers; hashed into challenges and codes
    Codes,         \* activation codes ("000001".."999999" in the code)
    Logins,        \* requests to AuthenticateHandler
    Activations,   \* requests to ActivateSessionHandler
    Purges,        \* calls of PurgeAccountCache
    Method,        \* [Subjects -> the account's activation_method]
    RememberMeDuration, EphemeralSessionDuration, MFASessionDuration,
    MaxTime,       \* bound: the clock stops here
    Nil            \* a missing Redis key, "*" or an absent value

ASSUME MethodAssumption ==
    Method \in [Subjects -> {"NONE", "EMAIL", "GOOGLE_AUTHENTICATOR"}]
ASSUME DurationAssumption ==
    /\ RememberMeDuration \in Nat              \* 0 switches remember-me off
    /\ EphemeralSessionDuration \in Nat \ {0}
    /\ MFASessionDuration \in Nat \ {0}
    /\ MaxTime \in Nat \ {0}
ASSUME DisjointAssumption == Logins \cap Activations = {}
ASSUME NilAssumption == Nil \notin Sessions \cup Logins \cup Activations

NoExpiry == 0      \* deadline of a key that Redis keeps for ever

Keys == Sessions \X Subjects                \* ":sess:<session>:<subject>"
CodeKeys == Sessions \X Codes \X Agents     \* ":act:<session>:<hash(code,agent)>"
Writers == Logins \cup Activations

\* sso.SessionSubject: seconds, 0 for "not set".
Document == [auth : Nat, exp : Nat, act : Nat]
\* ... as Redis holds it; `by' is a history field: the request that wrote it.
Session == [doc : Document, dl : Nat, by : Writers]
Challenge == [of : Logins, agent : Agents, dl : Nat]
ActivationCode == [of : Logins, sub : Subjects, dl : Nat]
ASSUME NilRecordAssumption == Nil \notin Session \cup Challenge \cup ActivationCode

LoginRequest == [sid : Sessions, sub : Subjects, agent : Agents,
                 remember : BOOLEAN]
ActivateRequest == [sid : Sessions, sub : Subjects, agent : Agents,
                    challenge : Logins \cup {Nil}, code : Codes]
PurgeRequest == [sub : Subjects, sid : Sessions \cup {Nil}]

VARIABLES
    now,           \* Unix time; the process starts at 1
    sess,          \* Redis: [Keys -> the session or Nil]
    clg,           \* Redis: [Keys -> the pending MFA challenge or Nil]
    act,           \* Redis: [CodeKeys -> the activation code's subject or Nil]
    login,         \* [Logins -> state of the request]
    activation,    \* [Activations -> state of the request]
    purge          \* [Purges -> state of the call]

redis == <<sess, clg, act>>
vars == <<now, sess, clg, act, login, activation, purge>>

KeyOf(req) == <<req.sid, req.sub>>
CodeKeyOf(req) == <<req.sid, req.code, req.agent>>

NoDocument == [auth |-> 0, exp |-> 0, act |-> 0]

\* Requests that will not write anything any more, at SSO Service included.
Settled == {l \in Logins : login[l].pc \in {"done", "failed"} /\ login[l].call # "sent"}
           \cup {a \in Activations : activation[a].pc \in {"refused", "done", "failed"}}

Init ==
    /\ now = 1
    /\ sess = [k \in Keys |-> Nil]
    /\ clg = [k \in Keys |-> Nil]
    /\ act = [c \in CodeKeys |-> Nil]
    /\ login = [l \in Logins |->
                  [pc |-> "idle", req |-> Nil, call |-> "none", doc |-> NoDocument,
                   saw |-> Nil]]
    /\ activation = [a \in Activations |->
                  [pc |-> "idle", req |-> Nil, call |-> "none", doc |-> NoDocument,
                   codeOf |-> Nil]]
    /\ purge = [p \in Purges |->
                  [pc |-> "idle", req |-> Nil, keys |-> {}, clgs |-> {}, codes |-> {},
                   before |-> {}]]

-----------------------------------------------------------------------------
(* Redis: time to live.                                                    *)

\* The deadline SET gives a key written now: go-redis sends no EX/PX when the
\* duration is zero or negative, and the key then never expires.
Deadline(expiration) == IF expiration > 0 THEN now + expiration ELSE NoExpiry

\* Keys whose deadline is reached are gone for every later command.
Unexpired(store, t) ==
    [k \in DOMAIN store |->
        IF store[k] # Nil /\ store[k].dl # NoExpiry /\ store[k].dl <= t
        THEN Nil ELSE store[k]]

Tick ==
    /\ now < MaxTime
    /\ now' = now + 1
    /\ sess' = Unexpired(sess, now')
    /\ clg' = Unexpired(clg, now')
    /\ act' = Unexpired(act, now')
    /\ UNCHANGED <<login, activation, purge>>

-----------------------------------------------------------------------------
(* SSO Service: SignIn.                                                    *)

\* An activation code is generated unless the account has no second factor
\* or (not implemented yet) an authenticator application.
SendsCode(sub) == Method[sub] \notin {"NONE", "GOOGLE_AUTHENTICATOR"}

\* What is stored under the hash of the code and the user agent.
NewActivationCode(l) == [of |-> l, sub |-> login[l].req.sub,
                         dl |-> Deadline(MFASessionDuration)]

\* Good credentials.  generateActivationCode draws a code, announces it in an
\* event and stores it; the reply is an error when Redis reports one, which
\* does not mean that the key was not written.
SignIn(l) ==
    /\ login[l].call = "sent"
    /\ LET req == login[l].req IN
       IF SendsCode(req.sub)
       THEN \E code \in Codes, reply \in {"ok", "error"} :
              /\ act' = [act EXCEPT ![<<req.sid, code, req.agent>>] =
                                       NewActivationCode(l)]
              /\ login' = [login EXCEPT ![l].call = reply]
       ELSE /\ login' = [login EXCEPT ![l].call = "ok"]
            /\ UNCHANGED act
    /\ UNCHANGED <<now, sess, clg, activation, purge>>

\* Unknown account, wrong password, or a Redis error before the SET.
SignInDenied(l) ==
    /\ login[l].call = "sent"
    /\ login' = [login EXCEPT ![l].call = "denied"]
    /\ UNCHANGED <<now, redis, activation, purge>>

-----------------------------------------------------------------------------
(* SSO Provider: AuthenticateHandler.                                      *)

\* The session id is the cookie's value or a new one: any id will do.
LoginStart(l) ==
    /\ login[l].pc = "idle"
    /\ \E req \in LoginRequest :
         login' = [login EXCEPT ![l].pc = "signin", ![l].req = req,
                                ![l].call = "sent"]
    /\ UNCHANGED <<now, redis, activation, purge>>

Remembered(req) == RememberMeDuration > 0 /\ req.remember

GetExpirationFromAuthentication(req) ==
    IF Remembered(req) THEN RememberMeDuration ELSE EphemeralSessionDuration

\* The stored session (GetCachedSessionSubject) or a new one.
CachedDocument(k) == IF sess[k] = Nil THEN [NoDocument EXCEPT !.auth = now]
                     ELSE sess[k].doc

\* Who has written the stored session: a history value.
CachedBy(k) == IF sess[k] = Nil THEN Nil ELSE sess[k].by

\* (mutant) Every authentication resets the session.
SignedInDocument_Reset(req) ==
    LET old == CachedDocument(KeyOf(req))
    IN [auth |-> old.auth,
        exp  |-> IF Remembered(req) THEN now + RememberMeDuration ELSE old.exp,
        act  |-> IF Method[req.sub] = "NONE" THEN old.auth ELSE 0]

\* What this request will write: with a new cookie date if it is to be remembered,
\* and active from its authentication on if there is no second factor.
SignedInDocument(req) ==
    LET old == CachedDocument(KeyOf(req))
    IN [auth |-> old.auth,
        exp  |-> IF Remembered(req) THEN now + RememberMeDuration ELSE old.exp,
        act  |-> IF Method[req.sub] = "NONE" THEN old.auth ELSE old.act]

LoginRead(l) ==
    /\ login[l].pc = "signin"
    /\ login[l].call = "ok"
    /\ LET req == login[l].req IN
       login' = [login EXCEPT ![l].doc = SignedInDocument(req),
                              ![l].saw = CachedBy(KeyOf(req)),
                              ![l].pc = IF Method[req.sub] = "NONE"
                                        THEN "store" ELSE "challenge"]
    /\ UNCHANGED <<now, redis, activation, purge>>

\* (mutant) The hash forgets the user agent.
NewChallenge_NoAgent(l) == [of |-> l, agent |-> Nil, dl |-> Deadline(MFASessionDuration)]

\* (mutant) The challenge lives as long as an ephemeral session.
NewChallenge_Ephemeral(l) == [of |-> l, agent |-> login[l].req.agent,
                              dl |-> Deadline(EphemeralSessionDuration)]

\* What is stored of a challenge: its hash with the user agent.
NewChallenge(l) == [of |-> l, agent |-> login[l].req.agent,
                    dl |-> Deadline(MFASessionDuration)]

\* A new challenge replaces the pending one.  Redis may apply the SET and still
\* fail the request.
LoginChallenge(l) ==
    /\ login[l].pc = "challenge"
    /\ clg' = [clg EXCEPT ![KeyOf(login[l].req)] = NewChallenge(l)]
    /\ \E pc \in {"store", "failed"} : login' = [login EXCEPT ![l].pc = pc]
    /\ UNCHANGED <<now, sess, act, activation, purge>>

\* (mutant) The lifetime is not cut while the activation is pending.
LoginLifetime_NotReset(req, doc) == GetExpirationFromAuthentication(req)

\* The lifetime given to the session: a session that waits for its activation
\* lasts as long as its challenge.
LoginLifetime(req, doc) ==
    IF Method[req.sub] # "NONE" /\ doc.act = 0 THEN MFASessionDuration
    ELSE GetExpirationFromAuthentication(req)

\* UpdateSessionSubject and the response, which carries the challenge.
LoginStore(l) ==
    /\ login[l].pc = "store"
    /\ LET req == login[l].req IN
       sess' = [sess EXCEPT ![KeyOf(req)] =
                  [doc |-> login[l].doc, by |-> l,
                   dl |-> Deadline(LoginLifetime(req, login[l].doc))]]
    /\ \E pc \in {"done", "failed"} : login' = [login EXCEPT ![l].pc = pc]
    /\ UNCHANGED <<now, clg, act, activation, purge>>

\* SignIn answered with an error status, failed, or missed RequestDeadline.
LoginCallFails(l) ==
    /\ login[l].pc = "signin"
    /\ login' = [login EXCEPT ![l].pc = "failed"]
    /\ UNCHANGED <<now, redis, activation, purge>>

\* A Redis command that did nothing failed, or SSO Provider went down.
LoginFails(l) ==
    /\ login[l].pc \in {"challenge", "store"}
    /\ login' = [login EXCEPT ![l].pc = "failed"]
    /\ UNCHANGED <<now, redis, activation, purge>>

-----------------------------------------------------------------------------
(* SSO Provider: ActivateSessionHandler.                                   *)

\* Challenges that reached a browser, and one that was never issued (Nil).
KnownChallenges == {l \in Logins : login[l].pc = "done"} \cup {Nil}

Matches(k, req) == /\ clg[k] # Nil
                   /\ clg[k].of = req.challenge
                   /\ clg[k].agent = req.agent

\* (mutant) The pipeline only reads the challenge.
WithoutChallenge_Kept(k) == clg

WithoutChallenge(k) == [clg EXCEPT ![k] = Nil]

\* GET and DEL of the challenge in one MULTI/EXEC: it is consumed whether or
\* not it matches.  An error of EXEC reads as a missing challenge.
ActivateStart(a) ==
    /\ activation[a].pc = "idle"
    /\ \E req \in ActivateRequest :
         /\ req.challenge \in KnownChallenges
         /\ \/ /\ clg' = WithoutChallenge(KeyOf(req))
               /\ activation' = [activation EXCEPT
                    ![a].req = req,
                    ![a].pc = IF Matches(KeyOf(req), req) THEN "read" ELSE "refused"]
            \/ /\ clg' \in {clg, WithoutChallenge(KeyOf(req))}
               /\ activation' = [activation EXCEPT ![a].req = req, ![a].pc = "refused"]
    /\ UNCHANGED <<now, sess, act, login, purge>>

\* The session must still be there: it is read before the code is checked.
ActivateRead(a) ==
    /\ activation[a].pc = "read"
    /\ LET k == KeyOf(activation[a].req) IN
       activation' = IF sess[k] = Nil
                     THEN [activation EXCEPT ![a].pc = "failed"]
                     ELSE [activation EXCEPT ![a].pc = "call", ![a].call = "sent",
                                             ![a].doc = sess[k].doc]
    /\ UNCHANGED <<now, redis, login, purge>>

\* (mutant) The pipeline only reads the code.
WithoutCode_Kept(c) == act

WithoutCode(c) == [act EXCEPT ![c] = Nil]

\* (mutant) The subject the code was stored for is not compared.
ValidCode_AnySubject(c, sub) == act[c] # Nil

ValidCode(c, sub) == act[c] # Nil /\ act[c].sub = sub

\* SSO Service: validateActivationCode takes the code in one MULTI/EXEC, and
\* then compares the subject it was stored for.  A missing code is refused; that
\* go-redis may report it as an error of EXEC is the next action's.
ActivateSession(a) ==
    /\ activation[a].call = "sent"
    /\ LET req == activation[a].req
           c == CodeKeyOf(req)
       IN /\ act' = WithoutCode(c)
          /\ activation' = IF ValidCode(c, req.sub)
               THEN [activation EXCEPT ![a].call = "ok", ![a].codeOf = act[c].of]
               ELSE [activation EXCEPT ![a].call = "denied"]
    /\ UNCHANGED <<now, sess, clg, login, purge>>

\* An error of EXEC ends the SSO Service process: the call is never answered,
\* its code may be gone.
ActivateSessionLost(a) ==
    /\ activation[a].call = "sent"
    /\ act' \in {act, WithoutCode(CodeKeyOf(activation[a].req))}
    /\ activation' = [activation EXCEPT ![a].call = "lost"]
    /\ UNCHANGED <<now, sess, clg, login, purge>>

\* time.Since in whole seconds, rounded up: t itself was rounded down.
Since(t) == now - t + 1

\* The expiration handed to SET after an activation.
ActivatedLifetime(doc) == IF doc.exp > 0 THEN Since(doc.exp) ELSE 0

\* The document read earlier is written back with its activation date; the
\* handler does not look at the outcome of the SET.
ActivateStore(a) ==
    /\ activation[a].pc = "call"
    /\ activation[a].call = "ok"
    /\ LET doc == activation[a].doc IN
       sess' \in {sess, [sess EXCEPT ![KeyOf(activation[a].req)] =
                           [doc |-> [doc EXCEPT !.act = now], by |-> a,
                            dl |-> Deadline(ActivatedLifetime(doc))]]}
    /\ activation' = [activation EXCEPT ![a].pc = "done"]
    /\ UNCHANGED <<now, clg, act, login, purge>>

\* (mutant) Instead of giving up, the handler tries again, from the read on.
ActivateFails_Retries(a) ==
    /\ activation[a].pc = "call"
    /\ activation' = [activation EXCEPT ![a].pc = "read", ![a].call = "none"]
    /\ UNCHANGED <<now, redis, login, purge>>

\* A failed GET, an error status, a failed call, RequestDeadline, or a crash.
ActivateFails(a) ==
    /\ activation[a].pc \in {"read", "call"}
    /\ activation' = [activation EXCEPT ![a].pc = "failed"]
    /\ UNCHANGED <<now, redis, login, purge>>

-----------------------------------------------------------------------------
(* SSO Service: PurgeAccountCache, of one session or (Nil) of all of them. *)

Purged(req) == {k \in Keys : k[2] = req.sub /\ req.sid \in {k[1], Nil}}

\* (mutant) The pattern lacks its final "*".
FoundChallenges_Exact(req) == {}

\* KEYS ":sess:<session or *>:<subject>*" also finds the challenges.
FoundChallenges(req) == {k \in Purged(req) : clg[k] # Nil}

PurgeListSessions(p) ==
    /\ purge[p].pc = "idle"
    /\ \E req \in PurgeRequest :
         purge' = [purge EXCEPT
            ![p].pc = "delete", ![p].req = req, ![p].before = Settled,
            ![p].keys = {k \in Purged(req) : sess[k] # Nil},
            ![p].clgs = FoundChallenges(req)]
    /\ UNCHANGED <<now, redis, login, activation>>

\* DEL of the keys found, whatever they hold by now.
PurgeDeleteSessions(p) ==
    /\ purge[p].pc = "delete"
    /\ sess' = [k \in Keys |-> IF k \in purge[p].keys THEN Nil ELSE sess[k]]
    /\ clg' = [k \in Keys |-> IF k \in purge[p].clgs THEN Nil ELSE clg[k]]
    /\ \E pc \in {IF purge[p].req.sid = Nil THEN "done" ELSE "codes", "failed"} :
         purge' = [purge EXCEPT ![p].pc = pc]
    /\ UNCHANGED <<now, act, login, activation>>

\* The codes are looked up by session, when there is one: KEYS ":act:<session>:*".
PurgeListCodes(p) ==
    /\ purge[p].pc = "codes"
    /\ purge' = [purge EXCEPT ![p].pc = "deletecodes",
         ![p].codes = {c \in CodeKeys : c[1] = purge[p].req.sid /\ act[c] # Nil}]
    /\ UNCHANGED <<now, redis, login, activation>>

PurgeDeleteCodes(p) ==
    /\ purge[p].pc = "deletecodes"
    /\ act' = [c \in CodeKeys |-> IF c \in purge[p].codes THEN Nil ELSE act[c]]
    /\ \E pc \in {"done", "failed"} : purge' = [purge EXCEPT ![p].pc = pc]
    /\ UNCHANGED <<now, sess, clg, login, activation>>

\* A Redis command failed without effect: the purge stops half-way.
PurgeFails(p) ==
    /\ purge[p].pc \in {"delete", "codes", "deletecodes"}
    /\ purge' = [purge EXCEPT ![p].pc = "failed"]
    /\ UNCHANGED <<now, redis, login, activation>>

-----------------------------------------------------------------------------

LoginStep(l) == \/ LoginRead(l) \/ LoginChallenge(l) \/ LoginStore(l)
                \/ LoginCallFails(l) \/ LoginFails(l)
ActivateStep(a) == ActivateRead(a) \/ ActivateStore(a) \/ ActivateFails(a)
PurgeStep(p) == \/ PurgeDeleteSessions(p) \/ PurgeListCodes(p)
                \/ PurgeDeleteCodes(p) \/ PurgeFails(p)

\* Every request has been used and has come to its end; the clock is at its bound.
Terminating ==
    /\ now = MaxTime
    /\ Settled = Writers
    /\ \A p \in Purges : purge[p].pc \in {"done", "failed"}
    /\ UNCHANGED vars

Next == \/ Tick
        \/ \E l \in Logins :
              LoginStart(l) \/ SignIn(l) \/ SignInDenied(l) \/ LoginStep(l)
        \/ \E a \in Activations :
              \/ ActivateStart(a) \/ ActivateSession(a)
              \/ ActivateSessionLost(a) \/ ActivateStep(a)
        \/ \E p \in Purges : PurgeListSessions(p) \/ PurgeStep(p)
        \/ Terminating

\* A handler that has begun goes on: its gRPC calls have a deadline and its
\* Redis commands the client's timeouts.  SSO Service owes no answer.
LoginGoesOn(l) == WF_vars(LoginStep(l))
ActivationGoesOn(a) == WF_vars(ActivateStep(a))
PurgeGoesOn(p) == WF_vars(PurgeStep(p))

Fairness == /\ \A l \in Logins : LoginGoesOn(l)
            /\ \A a \in Activations : ActivationGoesOn(a)
            /\ \A p \in Purges : PurgeGoesOn(p)

Spec == Init /\ [][Next]_vars
FairSpec == Spec /\ Fairness
=============================================================================
