-------------------------- MODULE SessionProperties --------------------------
(***************************************************************************)
(* What makes the session life cycle correct, stated over the states of    *)
(* SessionLifecycle, and what the project's documentation says about it.   *)
(***************************************************************************)
EXTENDS SessionLifecycle

\* What a request knows and where it is; each field's values.
LoginState ==
    [pc : {"idle", "signin", "challenge", "store", "done", "failed"},
     req : LoginRequest \cup {Nil},
     call : {"none", "sent", "ok", "error", "denied"},
     doc : Document, saw : Writers \cup {Nil}]
ActivationState ==
    [pc : {"idle", "refused", "read", "call", "done", "failed"},
     req : ActivateRequest \cup {Nil},
     call : {"none", "sent", "ok", "denied", "lost"},
     doc : Document,
     codeOf : Logins \cup {Nil}]
PurgeState ==
    [pc : {"idle", "delete", "codes", "deletecodes", "done", "failed"},
     req : PurgeRequest \cup {Nil},
     keys : SUBSET Keys, clgs : SUBSET Keys, codes : SUBSET CodeKeys,
     before : SUBSET Writers]

\* Type invariant of the Redis keys and of the requests.
TypeOK ==
    /\ now \in Nat \ {0}
    /\ sess \in [Keys -> Session \cup {Nil}]
    /\ clg \in [Keys -> Challenge \cup {Nil}]
    /\ act \in [CodeKeys -> ActivationCode \cup {Nil}]
    /\ login \in [Logins -> LoginState]
    /\ activation \in [Activations -> ActivationState]
    /\ purge \in [Purges -> PurgeState]

-----------------------------------------------------------------------------

\* a presented the challenge issued to l, in time, and it was accepted.
WonChallenge(a, l) == /\ activation[a].pc \in {"read", "call", "done", "failed"}
                      /\ activation[a].req.challenge = l

\* a presented the activation code that was announced for l.
WonCode(a, l) == activation[a].codeOf = l

\* l is a sign-in of the given session and account, by the given browser, whose
\* password was checked.
PasswordChecked(l, sid, sub, agent) ==
    /\ login[l].call \in {"ok", "error"}
    /\ login[l].req.sid = sid /\ login[l].req.sub = sub /\ login[l].req.agent = agent

\* Some activation of the session k went through with both secrets, each handed
\* to the same browser for the same session and account.
ActivatedBy(a, k) ==
    LET req == activation[a].req IN
    /\ activation[a].pc \in {"call", "done", "failed"}
    /\ activation[a].call = "ok"
    /\ KeyOf(req) = k
    /\ req.challenge # Nil
    /\ PasswordChecked(req.challenge, req.sid, req.sub, req.agent)
    /\ activation[a].codeOf # Nil
    /\ PasswordChecked(activation[a].codeOf, req.sid, req.sub, req.agent)

\* A session never counts as activated (ActivatedAt set) on an account with a
\* second factor unless both the challenge and the activation code of sign-ins
\* with the same session, account and user agent were presented; however many
\* handlers carry copies of the document around (authentication.go:135-233,
\* 286-335) and write them back late.
ActivationEarned ==
    \A k \in Keys : sess[k] # Nil /\ sess[k].doc.act # 0 /\ Method[k[2]] # "NONE"
                    => \E a \in Activations : ActivatedBy(a, k)

\* A session that still waits for its second factor dies with the MFA window
\* (authentication.go:217-219), what a sign-in stores lasts as long as README.md:57-58
\* say, and only an activation that went through leaves a session without a time to
\* live: no order of the read-modify-writes gives a pending session a long life.
PendingIsShortLived ==
    \A k \in Keys : sess[k] # Nil =>
        /\ sess[k].doc.act = 0
             => sess[k].dl # NoExpiry /\ sess[k].dl <= now + MFASessionDuration
        /\ sess[k].by \in Logins /\ sess[k].doc.act # 0
             => /\ sess[k].dl # NoExpiry
                /\ sess[k].dl <= now + GetExpirationFromAuthentication(login[sess[k].by].req)
        /\ sess[k].dl = NoExpiry => \E a \in Activations : ActivatedBy(a, k)

\* The challenge of a sign-in that was answered is of use: as long as it is
\* stored the session it activates is stored too, although the two keys are
\* written one after the other and expire on their own.  (For ephemeral sessions
\* at least as long as the MFA window, no remember-me, no purge.)
ChallengeUsable ==
    \A k \in Keys : clg[k] # Nil /\ login[clg[k].of].pc = "done" => sess[k] # Nil

\* The sign-in that takes an activation away had read the session before another
\* request stored the one it overwrites: signing in again and activating lose an
\* activation only in a race (authentication.go:135-145, 216-222).
ActivationLostOnlyInRace ==
    [][\A k \in Keys :
         /\ sess[k] # Nil /\ sess[k].doc.act # 0
         /\ sess'[k] # Nil /\ sess'[k].doc.act = 0
         => /\ sess'[k].by \in Logins
            /\ sess[k].by # login[sess'[k].by].saw]_vars

\* A purge that has deleted the sessions (and, for a single session, the codes)
\* leaves nothing behind that a request settled before the purge had written:
\* session, pending challenge, activation code (purge.go:57-141).
PurgedStaysPurged ==
    \A p \in Purges :
        LET req == purge[p].req IN
        /\ purge[p].pc \in {"codes", "deletecodes", "done"} =>
             \A k \in Purged(req) :
                /\ sess[k] # Nil => sess[k].by \notin purge[p].before
                /\ clg[k] # Nil => clg[k].of \notin purge[p].before
        /\ purge[p].pc = "done" =>
             \A c \in CodeKeys : c[1] = req.sid /\ act[c] # Nil
                                 => act[c].of \notin purge[p].before

\* A handler that has begun never depends on somebody else: whether SSO Service answers,
\* and whatever other requests do, it can go on or give up (authentication.go:102, 311).
HandlersNeverWait ==
    /\ \A l \in Logins : login[l].pc \in {"signin", "challenge", "store"}
                         => ENABLED <<LoginStep(l)>>_vars
    /\ \A a \in Activations : activation[a].pc \in {"read", "call"}
                              => ENABLED <<ActivateStep(a)>>_vars
    /\ \A p \in Purges : purge[p].pc \in {"delete", "codes", "deletecodes"}
                         => ENABLED <<PurgeStep(p)>>_vars

LoginEnds(l) == login[l].pc # "idle" ~> login[l].pc \in {"done", "failed"}
ActivationEnds(a) ==
    activation[a].pc # "idle" ~> activation[a].pc \in {"refused", "done", "failed"}
PurgeEnds(p) == purge[p].pc # "idle" ~> purge[p].pc \in {"done", "failed"}

\* Every request is answered, although SSO Service may not answer its calls:
\* RequestDeadline bounds them (authentication.go:102, 311).
RequestsTerminate ==
    /\ []HandlersNeverWait
    /\ \A l \in Logins : LoginEnds(l)
    /\ \A a \in Activations : ActivationEnds(a)
    /\ \A p \in Purges : PurgeEnds(p)

-----------------------------------------------------------------------------
(* The two secrets are one-time tickets.                                   *)

ChallengeStored(l) == \E k \in Keys : clg[k] # Nil /\ clg[k].of = l
CodeStoredFor(l) == \E c \in CodeKeys : act[c] # Nil /\ act[c].of = l

ChallengeStatus(l) ==
    IF \E a \in Activations : WonChallenge(a, l) THEN "spent"
    ELSE IF ChallengeStored(l) THEN "live"
    ELSE IF login[l].pc \in {"idle", "signin", "challenge"} THEN "unissued"
    ELSE "void"

CodeStatus(l) ==
    IF \E a \in Activations : WonCode(a, l) THEN "spent"
    ELSE IF CodeStoredFor(l) THEN "live"
    ELSE IF login[l].call \in {"none", "sent"} THEN "unissued"
    ELSE "void"

ChallengeTickets == INSTANCE OneTimeTicket WITH
    Tickets <- Logins, Holders <- Activations,
    state <- [l \in Logins |-> ChallengeStatus(l)],
    holders <- [l \in Logins |-> {a \in Activations : WonChallenge(a, l)}]

CodeTickets == INSTANCE OneTimeTicket WITH
    Tickets <- Logins, Holders <- Activations,
    state <- [l \in Logins |-> CodeStatus(l)],
    holders <- [l \in Logins |-> {a \in Activations : WonCode(a, l)}]

\* The MFA challenge is accepted once at most, and never after it expired, was
\* replaced, purged or presented wrongly (authentication.go:265-284).
ChallengeIsOneTime == ChallengeTickets!Spec

\* So is the activation code (mfa.go:75-144), also when several sign-ins of one
\* session have a code each and when two of them drew the same digits.
CodeIsOneTime == CodeTickets!Spec

-----------------------------------------------------------------------------
(* What the documentation says.                                            *)

\* README.md:57-58: SSO_REMEMBER_ME_TIMEOUT is "the session duration of a
\* remember-me enabled session", SSO_EPHEMERAL_SESSION_DURATION the "Maximum
\* duration of ephemeral sessions (normal sessions without remember-me)".
SessionDurationBounded ==
    \A k \in Keys : sess[k] # Nil =>
        /\ sess[k].dl # NoExpiry
        /\ sess[k].dl <= now + (IF sess[k].doc.exp = 0 THEN EphemeralSessionDuration
                                ELSE RememberMeDuration)

\* authentication.go:216: "Only resets the session cache if it's the first
\* authentication": signing in again never takes an activation away.
ActivationKept ==
    [][\A k \in Keys : sess[k] # Nil /\ sess'[k] # Nil /\ sess[k].doc.act # 0
                       => sess'[k].doc.act # 0]_vars
=============================================================================
