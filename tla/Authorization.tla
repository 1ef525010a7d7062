---------------------------- MODULE Authorization ----------------------------
(***************************************************************************)
(* Which clients get a code or an access token, and for which scopes.      *)
(*                                                                         *)
(* AuthorizationHandler serves the sign-in page: for a browser with a      *)
(* session it asks AuthorizeClient whether the account has granted the     *)
(* scopes a client wants, and answers with a consent page (and its nonce)  *)
(* or with a code or an access token.  GrantScopesHandler takes a nonce    *)
(* and has GrantScopes write the grants.  For access tokens the answer of  *)
(* AuthorizeClient is remembered under a key of its own.  PurgeAccountCache*)
(* and PurgeClientCache delete keys; RevokeScopes is to delete grants.     *)
(*                                                                         *)
(* Redis and PostgreSQL are external.  Lifetimes are not counted: a key    *)
(* that has one may expire at any moment.  Scopes and grants are never     *)
(* taken away, so AuthorizeClient's four queries, whose answers only grow, *)
(* are one step: the one of the last query.                                *)
(***************************************************************************)
CONSTANTS
    Subjects,      \* accounts; each with a browser session of its own
    Clients, Scopes,
    Pages,         \* requests to AuthorizationHandler; also name the nonce or code
    Consents,      \* requests to GrantScopesHandler
    AccountPurges, ClientPurges,   \* calls of PurgeAccountCache, PurgeClientCache
    Revocations,   \* calls of RevokeScopes
    Nil            \* a missing key or value

ASSUME AuthorizationAssumption ==
    /\ AccountPurges \cap ClientPurges = {}
    /\ Subjects \cap Clients = {}
    /\ Nil \notin Pages

ScopeSets == SUBSET Scopes \ {{}}
Owners == Subjects \X Clients
TokenKeys == Owners \X ScopeSets       \* ":tkn:<client>:<subject>:<hash(scopes)>"
Purges == AccountPurges \cup ClientPurges
PageRequest == [owner : Owners, scopes : ScopeSets, type : {"code", "token"}]

VARIABLES
    session,       \* Redis: the accounts whose session is stored
    nonce,         \* Redis: the pages whose consent request is stored
    authc,         \* Redis: the pages whose authorization code is stored
    tkn,           \* Redis: [TokenKeys -> the page that wrote the key or Nil]
    known,         \* PostgreSQL: [Clients -> the scopes registered for it]
    granted,       \* PostgreSQL: [Owners -> the scopes granted]
    page,          \* [Pages -> state of the request]
    consent,       \* [Consents -> state of the request]
    purge,         \* [Purges -> state of the call]
    revocation     \* [Revocations -> what the event registered at the end says]

redis == <<session, nonce, authc, tkn>>
database == <<known, granted>>
vars == <<redis, database, page, consent, purge, revocation>>

\* Pages that will not write anything any more; consents that were granted.
Settled == {p \in Pages : page[p].pc \in {"consent", "done", "refused", "failed"}}
GrantedConsents == {g \in Consents : consent[g].pc = "done"}

Init ==
    /\ session = {} /\ nonce = {} /\ authc = {}
    /\ tkn = [k \in TokenKeys |-> Nil]
    /\ known = [c \in Clients |-> {}]
    /\ granted = [o \in Owners |-> {}]
    /\ page = [p \in Pages |-> [pc |-> "idle", req |-> Nil, cached |-> FALSE, after |-> {}]]
    /\ consent = [g \in Consents |->
                    [pc |-> "idle", of |-> Nil, rows |-> {}, short |-> FALSE]]
    /\ purge = [q \in Purges |->
                  [pc |-> "idle", who |-> Nil, had |-> FALSE, found |-> {}, keys |-> {},
                   before |-> {}]]
    /\ revocation = [v \in Revocations |-> Nil]

-----------------------------------------------------------------------------
(* Around it.                                                              *)

\* The account signs in (module SessionLifecycle).
SessionStored(s) ==
    /\ s \notin session
    /\ session' = session \cup {s}
    /\ UNCHANGED <<nonce, authc, tkn, database, page, consent, purge, revocation>>

\* The manager registers a scope of a client.
UpsertScope(c, scope) ==
    /\ scope \notin known[c]
    /\ known' = [known EXCEPT ![c] = @ \cup {scope}]
    /\ UNCHANGED <<redis, granted, page, consent, purge, revocation>>

\* A key reaches the end of its lifetime.
Expire ==
    /\ \/ /\ \E s \in session : session' = session \ {s}
          /\ UNCHANGED <<nonce, authc, tkn>>
       \/ /\ \E p \in nonce : nonce' = nonce \ {p}
          /\ UNCHANGED <<session, authc, tkn>>
       \/ /\ \E p \in authc : authc' = authc \ {p}
          /\ UNCHANGED <<session, nonce, tkn>>
       \/ /\ \E k \in TokenKeys : tkn[k] # Nil /\ tkn' = [tkn EXCEPT ![k] = Nil]
          /\ UNCHANGED <<session, nonce, authc>>
    /\ UNCHANGED <<database, page, consent, purge, revocation>>

-----------------------------------------------------------------------------
(* SSO Provider: AuthorizationHandler.                                     *)

MovePage(p, pc) == page' = [page EXCEPT ![p].pc = pc]

\* Without a session the user has to sign in.  `after' is a history field: the
\* consents that were granted when the request began.
PageStart(p) ==
    /\ page[p].pc = "idle"
    /\ \E req \in PageRequest :
         page' = [page EXCEPT
            ![p].req = req, ![p].after = GrantedConsents,
            ![p].pc = IF req.owner[1] \notin session THEN "refused"
                      ELSE IF req.type = "token" THEN "exists" ELSE "authorize"]
    /\ UNCHANGED <<redis, database, consent, purge, revocation>>

\* (mutant) The key is made of the client and the subject only.
TokenKey_NoScopes(req) == <<req.owner, Scopes>>

TokenKey(req) == <<req.owner, req.scopes>>

\* EXISTS of the key of the implicit flow: when it is there, nobody is asked.
PageExists(p) ==
    /\ page[p].pc = "exists"
    /\ page' = IF tkn[TokenKey(page[p].req)] # Nil
               THEN [page EXCEPT ![p].pc = "answer", ![p].cached = TRUE]
               ELSE [page EXCEPT ![p].pc = "authorize"]
    /\ UNCHANGED <<redis, database, consent, purge, revocation>>

\* (mutant) The WHERE of the query is missing.
Unauthorized_All(o, scopes) == scopes \cap known[o[2]]

\* The scopes of the client that the account has not granted.
Unauthorized(o, scopes) == (scopes \cap known[o[2]]) \ granted[o]

\* (mutant) The check fails open.
HasUnknownScopes_Never(o, scopes) == FALSE

HasUnknownScopes(o, scopes) == ~(scopes \subseteq known[o[2]])

\* What a loop over `rows' gets: an error after the first row ends it like the end of
\* the rows (nobody asks result.Err()), one before that row is returned by Query.
ReadRows(rows) == {read \in SUBSET rows : read = {} => rows = {}}

\* SSO Service.  It also refuses for reasons that are not modelled: tenant, client,
\* redirect URI, response type, SQL errors.
AuthorizeClient(o, scopes) ==
    {"refused"} \cup (IF HasUnknownScopes(o, scopes) THEN {}
                      ELSE {IF read = {} THEN "answer" ELSE "ask" :
                              read \in ReadRows(Unauthorized(o, scopes))})

\* The handler goes on as it was answered.
PageAuthorize(p) ==
    /\ page[p].pc = "authorize"
    /\ \E pc \in AuthorizeClient(page[p].req.owner, page[p].req.scopes) : MovePage(p, pc)
    /\ UNCHANGED <<redis, database, consent, purge, revocation>>

\* The consent page: its nonce is stored with the client and the scopes.
AskConsent(p) ==
    /\ page[p].pc = "ask"
    /\ nonce' = nonce \cup {p}
    /\ \E pc \in {"consent", "failed"} : MovePage(p, pc)
    /\ UNCHANGED <<session, authc, tkn, database, consent, purge, revocation>>

\* The code is stored and its event registered.
AnswerCode(p) ==
    /\ page[p].pc = "answer" /\ page[p].req.type = "code"
    /\ authc' = authc \cup {p}
    /\ \E pc \in {"done", "failed"} : MovePage(p, pc)
    /\ UNCHANGED <<session, nonce, tkn, database, consent, purge, revocation>>

\* The access token is made; its key is stored unless it was there.
AnswerToken(p) ==
    /\ page[p].pc = "answer" /\ page[p].req.type = "token"
    /\ IF page[p].cached
       THEN MovePage(p, "done") /\ UNCHANGED tkn
       ELSE /\ tkn' = [tkn EXCEPT ![TokenKey(page[p].req)] = p]
            /\ \E pc \in {"done", "failed"} : MovePage(p, pc)
    /\ UNCHANGED <<session, nonce, authc, database, consent, purge, revocation>>

\* An error without effect, RequestDeadline, or the end of the process.
PageFails(p) ==
    /\ page[p].pc \in {"exists", "authorize", "ask", "answer"}
    /\ MovePage(p, "failed")
    /\ UNCHANGED <<redis, database, consent, purge, revocation>>

-----------------------------------------------------------------------------
(* GrantScopesHandler and, in SSO Service, GrantScopes.                    *)

MoveConsent(g, pc) == consent' = [consent EXCEPT ![g].pc = pc]
Wanted(g) == page[consent[g].of].req

\* (mutant) The pipeline only reads the nonce.
WithoutNonce_Kept(p) == nonce

WithoutNonce(p) == nonce \ {p}

\* GET and DEL of the nonce of a consent page in one MULTI/EXEC, whose error
\* reads as a missing nonce; nor is it found in another session.
ConsentStart(g) ==
    /\ consent[g].pc = "idle"
    /\ \E p \in Pages :
         /\ page[p].pc = "consent"
         /\ \/ /\ p \in nonce
               /\ nonce' = WithoutNonce(p)
               /\ consent' = [consent EXCEPT ![g].pc = "check", ![g].of = p]
            \/ nonce' \in {nonce, WithoutNonce(p)} /\ MoveConsent(g, "refused")
    /\ UNCHANGED <<session, authc, tkn, database, page, purge, revocation>>

\* The consent counts only if none of its scopes is granted yet, as far as the rows
\* were read.  `short' is a history field: a loop over rows broke off.
GrantCheck(g) ==
    /\ consent[g].pc = "check"
    /\ LET rows == Unauthorized(Wanted(g).owner, Wanted(g).scopes) IN
       \E read \in ReadRows(rows) :
         consent' = [consent EXCEPT
            ![g].pc = IF read = Wanted(g).scopes THEN "insert" ELSE "refused",
            ![g].short = (read # rows)]
    /\ UNCHANGED <<redis, database, page, purge, revocation>>

\* (mutant) The ids are selected by client only.
Inserted_AllOfClient(g) == known[Wanted(g).owner[2]]

\* The scopes whose ids are selected.
Inserted(g) == Wanted(g).scopes \cap known[Wanted(g).owner[2]]

\* INSERT ... ON CONFLICT DO UPDATE of the ids that were read; without any it is no
\* SQL.  Its success may go unnoticed.  `rows', a history field, are its scopes.
GrantInsert(g) ==
    /\ consent[g].pc = "insert"
    /\ \E read \in ReadRows(Inserted(g)) \ {{}}, pc \in {"done", "failed"} :
         /\ granted' = [granted EXCEPT ![Wanted(g).owner] = @ \cup read]
         /\ consent' = [consent EXCEPT ![g].pc = pc, ![g].rows = read,
                                       ![g].short = (read # Inserted(g))]
    /\ UNCHANGED <<redis, known, page, purge, revocation>>

\* Tenant, SQL error (no row at all among them), RequestDeadline.
ConsentFails(g) ==
    /\ consent[g].pc \in {"check", "insert"}
    /\ MoveConsent(g, "failed")
    /\ UNCHANGED <<redis, database, page, purge, revocation>>

-----------------------------------------------------------------------------
(* SSO Service: purges and the revocation of scopes.                       *)

\* (mutant) The session itself is taken for a nonce.
FoundNonces_WithSession(s) == {p \in nonce : page[p].req.owner[1] = s} \cup (session \cap {s})

\* KEYS ":sess:*:<subject>*" finds the sessions and the nonces.
FoundNonces(s) == {p \in nonce : page[p].req.owner[1] = s}

PurgeAccountStart(q) ==
    /\ purge[q].pc = "idle"
    /\ \E s \in Subjects :
         purge' = [purge EXCEPT ![q] = [pc |-> "sessions", who |-> s, had |-> s \in session,
                                        found |-> FoundNonces(s), keys |-> {},
                                        before |-> Settled]]
    /\ UNCHANGED <<redis, database, page, consent, revocation>>

\* DEL of the keys found, whatever they hold by now.
PurgeSessions(q) ==
    /\ purge[q].pc = "sessions"
    /\ session' = IF purge[q].had THEN session \ {purge[q].who} ELSE session
    /\ nonce' = nonce \ purge[q].found
    /\ \E pc \in {"list", "failed"} : purge' = [purge EXCEPT ![q].pc = pc]
    /\ UNCHANGED <<authc, tkn, database, page, consent, revocation>>

\* PurgeClientCache looks at tokens only when it finds no authorization code.
PurgeClientStart(q) ==
    /\ purge[q].pc = "idle"
    /\ \E c \in Clients :
         LET found == {p \in authc : page[p].req.owner[2] = c} IN
         purge' = [purge EXCEPT ![q] = [pc |-> IF found = {} THEN "list" ELSE "codes",
                                        who |-> c, had |-> FALSE, found |-> found,
                                        keys |-> {}, before |-> Settled]]
    /\ UNCHANGED <<redis, database, page, consent, revocation>>

PurgeCodes(q) ==
    /\ purge[q].pc = "codes"
    /\ authc' = authc \ purge[q].found
    /\ \E pc \in {"done", "failed"} : purge' = [purge EXCEPT ![q].pc = pc]
    /\ UNCHANGED <<session, nonce, tkn, database, page, consent, revocation>>

\* (mutant) The subject is taken for the client.
PurgedTokens_Swapped(who) == {k \in TokenKeys : k[1][2] = who}

\* KEYS ":tkn:*:<subject>:*" and ":tkn:<client>:*".
PurgedTokens(who) == {k \in TokenKeys : who \in {k[1][1], k[1][2]}}

PurgeListTokens(q) ==
    /\ purge[q].pc = "list"
    /\ purge' = [purge EXCEPT ![q].pc = "tokens",
                   ![q].keys = {k \in PurgedTokens(purge[q].who) : tkn[k] # Nil}]
    /\ UNCHANGED <<redis, database, page, consent, revocation>>

PurgeTokens(q) ==
    /\ purge[q].pc = "tokens"
    /\ tkn' = [k \in TokenKeys |-> IF k \in purge[q].keys THEN Nil ELSE tkn[k]]
    /\ \E pc \in {"done", "failed"} : purge' = [purge EXCEPT ![q].pc = pc]
    /\ UNCHANGED <<session, nonce, authc, database, page, consent, revocation>>

\* A Redis command failed without effect.
PurgeFails(q) ==
    /\ purge[q].pc \in {"sessions", "codes", "list", "tokens"}
    /\ purge' = [purge EXCEPT ![q].pc = "failed"]
    /\ UNCHANGED <<redis, database, page, consent, revocation>>

\* The SELECT names a column that sso.scope does not have: the transaction is
\* rolled back, and the event is registered all the same.
RevokeScopes(v) ==
    /\ revocation[v] = Nil
    /\ \E o \in Owners, scopes \in ScopeSets :
         revocation' = [revocation EXCEPT ![v] = [owner |-> o, scopes |-> scopes]]
    /\ UNCHANGED <<redis, database, page, consent, purge>>

-----------------------------------------------------------------------------

PurgeStep(q) == \/ PurgeSessions(q) \/ PurgeCodes(q) \/ PurgeListTokens(q)
                \/ PurgeTokens(q) \/ PurgeFails(q)

\* There may be nobody left to ask for anything.
Terminating ==
    /\ Settled = Pages
    /\ UNCHANGED vars

Next == \/ \E s \in Subjects : SessionStored(s)
        \/ \E c \in Clients, scope \in Scopes : UpsertScope(c, scope)
        \/ Expire
        \/ \E p \in Pages :
             \/ PageStart(p) \/ PageExists(p) \/ PageAuthorize(p) \/ AskConsent(p)
             \/ AnswerCode(p) \/ AnswerToken(p) \/ PageFails(p)
        \/ \E g \in Consents :
             ConsentStart(g) \/ GrantCheck(g) \/ GrantInsert(g) \/ ConsentFails(g)
        \/ \E q \in AccountPurges : PurgeAccountStart(q)
        \/ \E q \in ClientPurges : PurgeClientStart(q)
        \/ \E q \in Purges : PurgeStep(q)
        \/ \E v \in Revocations : RevokeScopes(v)
        \/ Terminating

Spec == Init /\ [][Next]_vars
=============================================================================
