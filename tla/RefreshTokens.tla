---------------------------- MODULE RefreshTokens ----------------------------
(***************************************************************************)
(* Authorization codes and the refresh tokens they are exchanged for.      *)
(*                                                                         *)
(* ExchangeHandler takes an authorization code out of Redis and calls      *)
(* NewRefreshToken at SSO Service, which answers with the live row of      *)
(* sso.token or writes a new one in a transaction.  RefreshTokenHandler    *)
(* calls NewRefreshToken to find out whether the token it was given is     *)
(* still the live one.  RevokeToken marks the rows as deleted.             *)
(*                                                                         *)
(* One step is one SQL statement or one Redis command.  PostgreSQL is      *)
(* external and runs at its default isolation, READ COMMITTED: a statement *)
(* sees the rows committed when it began, and an UPDATE waits for the      *)
(* transactions that have updated one of them.                             *)
(***************************************************************************)
EXTENDS Integers

CONSTANTS
    Owners,        \* pairs of an account and a client: a token belongs to one
    Codes,         \* authorization codes (with the client they are for)
    Redirects,     \* redirect URIs
    Exchanges,     \* requests to ExchangeHandler; also name the token they insert
    Refreshes,     \* requests to RefreshTokenHandler
    Revocations,   \* calls of RevokeToken
    AuthorizationCodeDuration, RefreshTokenDuration,
    MaxTime,       \* bound: the clock stops here
    Nil            \* a missing key or row

ASSUME TokenDurationAssumption ==
    /\ AuthorizationCodeDuration \in Nat \ {0}
    /\ RefreshTokenDuration \in Nat \ {0}
    /\ MaxTime \in Nat \ {0}

Calls == Exchanges \cup Refreshes      \* calls of NewRefreshToken
Tokens == Exchanges                    \* ids of the rows of sso.token

ASSUME CallsAssumption == Exchanges \cap Refreshes = {}

\* sso.NewRefreshTokenRequest, as stored under ":authc:...", and its deadline.
AuthorizationCode == [owner : Owners, redirect : Redirects, dl : Nat]
\* A row of sso.token with type = 0.
Row == [owner : Owners, expires : Nat, deleted : BOOLEAN]

ASSUME TokenNilAssumption == Nil \notin Codes \cup Calls \cup AuthorizationCode \cup Row

VARIABLES
    now,
    issued,        \* [Codes -> whether AuthorizationHandler made this code]
    code,          \* Redis: [Codes -> the stored code or Nil]
    token,         \* PostgreSQL: [Tokens -> the committed row or Nil]
    call,          \* [Calls -> state of NewRefreshToken]
    handler,       \* [Calls -> state of the HTTP request]
    revocation     \* [Revocations -> state of RevokeToken]

vars == <<now, issued, code, token, call, handler, revocation>>

Undeleted(owner) == {t \in Tokens : token[t] # Nil /\ token[t].owner = owner
                                    /\ ~token[t].deleted}
Live(owner) == {t \in Undeleted(owner) : token[t].expires > now}
Committed(owner) == {t \in Tokens : token[t] # Nil /\ token[t].owner = owner}
Dead == {t \in Tokens : token[t] # Nil /\ (token[t].deleted \/ token[t].expires <= now)}

Init ==
    /\ now = 1
    /\ issued = [c \in Codes |-> "no"]
    /\ code = [c \in Codes |-> Nil]
    /\ token = [t \in Tokens |-> Nil]
    /\ call = [x \in Calls |-> [pc |-> "none", owner |-> Nil, seen |-> {},
                                before |-> {}, expires |-> 0, id |-> Nil]]
    /\ handler = [x \in Calls |-> [pc |-> "idle", given |-> Nil, dead |-> {}]]
    /\ revocation = [v \in Revocations |-> [pc |-> "idle", owner |-> Nil, seen |-> {}]]

Tick ==
    /\ now < MaxTime
    /\ now' = now + 1
    /\ code' = [c \in Codes |-> IF code[c] # Nil /\ code[c].dl <= now' THEN Nil ELSE code[c]]
    /\ UNCHANGED <<issued, token, call, handler, revocation>>

-----------------------------------------------------------------------------
(* SSO Provider.                                                           *)

\* The end of AuthorizationHandler: the code is stored, then RegisterEvent is
\* called; when that fails the code stays behind without being handed out.
IssueCode(c) ==
    /\ issued[c] = "no"
    /\ \E owner \in Owners, redirect \in Redirects, outcome \in {"lost", "delivered"} :
         /\ code' = [code EXCEPT ![c] = [owner |-> owner, redirect |-> redirect,
                                         dl |-> now + AuthorizationCodeDuration]]
         /\ issued' = [issued EXCEPT ![c] = outcome]
    /\ UNCHANGED <<now, token, call, handler, revocation>>

\* A request calls NewRefreshToken for owner.  `dead' is a history field: the
\* tokens that are of no use any more when the request begins.
CallNewRefreshToken(x, owner, given) ==
    /\ call' = [call EXCEPT ![x].pc = "select", ![x].owner = owner]
    /\ handler' = [handler EXCEPT ![x] = [pc |-> "call", given |-> given, dead |-> Dead]]

Refused(x) ==
    /\ handler' = [handler EXCEPT ![x].pc = "refused"]
    /\ UNCHANGED call

\* (mutant) The pipeline only reads the code.
WithoutCode_Kept(c) == code

WithoutCode(c) == [code EXCEPT ![c] = Nil]

\* GET and DEL of the code in one MULTI/EXEC; a request with another redirect
\* URI has used it up, too.  EXEC may fail with or without effect.
ExchangeStart(e) ==
    /\ handler[e].pc = "idle"
    /\ \E c \in Codes, redirect \in Redirects :
         /\ issued[c] = "delivered"
         /\ \/ /\ code' = WithoutCode(c)
               /\ IF code[c] # Nil /\ code[c].redirect = redirect
                  THEN CallNewRefreshToken(e, code[c].owner, c)
                  ELSE Refused(e)
            \/ code' \in {code, WithoutCode(c)} /\ Refused(e)
    /\ UNCHANGED <<now, issued, token, revocation>>

\* The refresh token that some exchange was answered with is presented.
RefreshStart(r) ==
    /\ handler[r].pc = "idle"
    /\ \E e \in Exchanges :
         /\ handler[e].pc = "done"
         /\ CallNewRefreshToken(r, call[e].owner, call[e].id)
    /\ UNCHANGED <<now, issued, code, token, revocation>>

\* (mutant) Any live token of the owner will do.
Matches_Any(x) == TRUE

\* The refresh token must be the one SSO Service has answered with.
Matches(x) == x \in Exchanges \/ call[x].id = handler[x].given

HandlerDone(x) ==
    /\ handler[x].pc = "call" /\ call[x].pc = "answered"
    /\ handler' = [handler EXCEPT ![x].pc = IF Matches(x) THEN "done" ELSE "refused"]
    /\ UNCHANGED <<now, issued, code, token, call, revocation>>

\* An error status, a failed call or RequestDeadline.
HandlerFails(x) ==
    /\ handler[x].pc = "call"
    /\ handler' = [handler EXCEPT ![x].pc = "failed"]
    /\ UNCHANGED <<now, issued, code, token, call, revocation>>

-----------------------------------------------------------------------------
(* SSO Service: NewRefreshToken.                                           *)

Answer(x, id) == call' = [call EXCEPT ![x].pc = "answered", ![x].id = id]
Deny(x) == call' = [call EXCEPT ![x].pc = "denied"]

\* Wrong secret, a scope that is not granted, no such client, an SQL error, or
\* the caller's deadline; an open transaction is rolled back.
NewRefreshTokenDenied(x) ==
    /\ call[x].pc \in {"select", "begin", "update", "commit"}
    /\ Deny(x)
    /\ UNCHANGED <<now, issued, code, token, handler, revocation>>

\* (mutant) SELECT does not look at deleted_at.
Current_Deleted(owner) == {t \in Committed(owner) : token[t].expires > now}

\* The rows SELECT finds.
Current(owner) == Live(owner)

\* Some live token is the answer; without one, only an exchange goes on.
SelectToken(x) ==
    /\ call[x].pc = "select"
    /\ LET found == Current(call[x].owner) IN
       \/ \E t \in found : Answer(x, t)
       \/ found = {} /\ x \in Refreshes /\ Deny(x)
       \/ found = {} /\ x \in Exchanges /\ call' = [call EXCEPT ![x].pc = "begin"]
    /\ UNCHANGED <<now, issued, code, token, handler, revocation>>

\* (mutant) The previous tokens are left alone.
Previous_None(owner) == {}

\* The rows UPDATE is to mark, deleted ones included.
Previous(owner) == Committed(owner)

\* BEGIN; UPDATE takes its snapshot.  `before' is a history field: the tokens
\* that exist at that moment.
BeginUpdate(x) ==
    /\ call[x].pc = "begin"
    /\ LET owner == call[x].owner IN
       call' = [call EXCEPT ![x].pc = "update", ![x].seen = Previous(owner),
                            ![x].before = Committed(owner)]
    /\ UNCHANGED <<now, issued, code, token, handler, revocation>>

\* Nobody else has updated one of these rows without having committed.
Unlocked(rows, x) ==
    \A y \in Calls \ {x} : call[y].pc = "commit" => call[y].seen \cap rows = {}

\* UPDATE has its row locks; the new row is inserted.
UpdateTokens(x) ==
    /\ call[x].pc = "update"
    /\ Unlocked(call[x].seen, x)
    /\ call' = [call EXCEPT ![x].pc = "commit",
                            ![x].expires = now + RefreshTokenDuration]
    /\ UNCHANGED <<now, issued, code, token, handler, revocation>>

\* (mutant) Rows are retired by moving expires_at into the past.
Deleting_Rewinds(dead) ==
    [t \in Tokens |-> IF t \in dead THEN [token[t] EXCEPT !.expires = now - MaxTime - 1]
                      ELSE token[t]]

\* The table with the rows in dead marked as deleted.
Deleting(dead) == [t \in Tokens |-> IF t \in dead THEN [token[t] EXCEPT !.deleted = TRUE]
                                    ELSE token[t]]

\* COMMIT; its success may go unnoticed.
CommitToken(x) ==
    /\ call[x].pc = "commit"
    /\ token' = [Deleting(call[x].seen) EXCEPT
                   ![x] = [owner |-> call[x].owner, expires |-> call[x].expires,
                           deleted |-> FALSE]]
    /\ Answer(x, x) \/ Deny(x)
    /\ UNCHANGED <<now, issued, code, handler, revocation>>

-----------------------------------------------------------------------------
(* SSO Service: RevokeToken, a single UPDATE.                              *)

RevokeStart(v) ==
    /\ revocation[v].pc = "idle"
    /\ \E owner \in Owners :
         revocation' = [revocation EXCEPT
            ![v] = [pc |-> "update", owner |-> owner, seen |-> Undeleted(owner)]]
    /\ UNCHANGED <<now, issued, code, token, call, handler>>

\* (mutant) Rows that a transaction has locked are skipped.
Revoked_SkipLocked(v) ==
    {t \in revocation[v].seen : \A y \in Calls : call[y].pc = "commit" => t \notin call[y].seen}

\* The rows UPDATE marks.
Revoked(v) == revocation[v].seen

RevokeTokens(v) ==
    /\ revocation[v].pc = "update"
    /\ Unlocked(Revoked(v), v)
    /\ token' = Deleting(Revoked(v))
    /\ \E pc \in {"done", "failed"} : revocation' = [revocation EXCEPT ![v].pc = pc]
    /\ UNCHANGED <<now, issued, code, call, handler>>

RevokeFails(v) ==
    /\ revocation[v].pc = "update"
    /\ revocation' = [revocation EXCEPT ![v].pc = "failed"]
    /\ UNCHANGED <<now, issued, code, token, call, handler>>

-----------------------------------------------------------------------------

\* Everything that can be asked for has been, and has come to its end.
Terminating ==
    /\ now = MaxTime
    /\ \A x \in Calls : /\ call[x].pc \in {"none", "answered", "denied"}
                        /\ handler[x].pc # "call"
    /\ \A v \in Revocations : revocation[v].pc \in {"done", "failed"}
    /\ UNCHANGED vars

Next == \/ Tick
        \/ \E c \in Codes : IssueCode(c)
        \/ \E e \in Exchanges :
             \/ ExchangeStart(e) \/ BeginUpdate(e) \/ UpdateTokens(e) \/ CommitToken(e)
        \/ \E r \in Refreshes : RefreshStart(r)
        \/ \E x \in Calls :
             \/ SelectToken(x) \/ NewRefreshTokenDenied(x)
             \/ HandlerDone(x) \/ HandlerFails(x)
        \/ \E v \in Revocations : RevokeStart(v) \/ RevokeTokens(v) \/ RevokeFails(v)
        \/ Terminating

Spec == Init /\ [][Next]_vars
=============================================================================
