----------------------- MODULE AuthorizationProperties -----------------------
(***************************************************************************)
(* What authorization and consent promise, over the states of              *)
(* Authorization.                                                          *)
(***************************************************************************)
EXTENDS Authorization

PageState ==
    [pc : {"idle", "exists", "authorize", "ask", "answer", "consent", "done", "refused",
           "failed"},
     req : PageRequest \cup {Nil}, cached : BOOLEAN, after : SUBSET Consents]
ConsentState ==
    [pc : {"idle", "check", "insert", "done", "refused", "failed"}, of : Pages \cup {Nil},
     rows : SUBSET Scopes, short : BOOLEAN]
PurgeState ==
    [pc : {"idle", "sessions", "codes", "list", "tokens", "done", "failed"},
     who : Subjects \cup Clients \cup {Nil}, had : BOOLEAN, found : SUBSET Pages,
     keys : SUBSET TokenKeys, before : SUBSET Pages]

\* Type invariant of the keys, the rows and the requests.
TypeOK ==
    /\ session \subseteq Subjects /\ nonce \subseteq Pages /\ authc \subseteq Pages
    /\ tkn \in [TokenKeys -> Pages \cup {Nil}]
    /\ known \in [Clients -> SUBSET Scopes]
    /\ granted \in [Owners -> SUBSET Scopes]
    /\ page \in [Pages -> PageState]
    /\ consent \in [Consents -> ConsentState]
    /\ purge \in [Purges -> PurgeState]
    /\ revocation \in [Revocations -> [owner : Owners, scopes : ScopeSets] \cup {Nil}]

-----------------------------------------------------------------------------

\* No code and no access token is handed out for a scope the account has not
\* granted, although an access token may be made without asking AuthorizeClient
\* (authorization.go:95-112): what the key of an earlier answer stands for is
\* granted as long as the key is there.
CoveredByConsent ==
    /\ \A p \in Pages : page[p].pc = "done" => page[p].req.scopes \subseteq granted[page[p].req.owner]
    /\ \A k \in TokenKeys : tkn[k] # Nil => k[2] \subseteq granted[k[1]]

\* g has taken the nonce of the consent page p in time.
WonNonce(g, p) == consent[g].of = p

\* An account has granted to a client only what some consent page of theirs showed
\* and some consent took the nonce of (authorization.go:150-176, 334-366,
\* authorization-server.go:109-176).
GrantedByConsent ==
    \A o \in Owners : \A s \in granted[o] :
        \E g \in Consents, p \in Pages :
            WonNonce(g, p) /\ page[p].req.owner = o /\ s \in page[p].req.scopes

\* What the consents in G have inserted for an account and a client.
InsertedBy(G, o) ==
    UNION {consent[g].rows : g \in {h \in G : consent[h].of # Nil /\ Wanted(h).owner = o}}

\* A consent that is answered with OK has inserted some of its scopes, and all of them
\* unless a loop over rows broke off unnoticed (authorization-server.go:149-163).  What
\* the consents before a page have inserted, in however many parts, the page does not
\* ask the account for once more (authorization.go:10-53 of cmd/sso-service).
NotAskedAgain ==
    /\ \A g \in GrantedConsents :
         consent[g].rows # {} /\ (consent[g].short \/ consent[g].rows = Wanted(g).scopes)
    /\ \A p \in Pages : page[p].pc \in {"ask", "consent"} =>
         ~ (page[p].req.scopes \subseteq InsertedBy(page[p].after, page[p].req.owner))

\* A consent whose nonce was there, and whose rows were all read, is refused only when
\* another one has inserted one of its scopes, be it unnoticed: GrantScopes counts a
\* consent only if none of its scopes is granted (authorization-server.go:109-119).
\* That no later consent of the same scopes counts either is how the code is.
RefusedByAnother ==
    \A g \in Consents : consent[g].pc = "refused" /\ consent[g].of # Nil =>
        \/ consent[g].short
        \/ InsertedBy(Consents \ {g}, Wanted(g).owner) \cap Wanted(g).scopes # {}

\* What pages settled before q, of the account or client it is for, have left.
LeftNonces(q) == {p \in nonce \cap purge[q].before : page[p].req.owner[1] = purge[q].who}
LeftCodes(q) == {p \in authc \cap purge[q].before : page[p].req.owner[2] = purge[q].who}
LeftTokens(q) == {k \in TokenKeys : purge[q].who \in {k[1][1], k[1][2]}
                                   /\ tkn[k] \in purge[q].before}

\* A purge that is done has deleted the kinds of keys it is for.  Of an account these are
\* nonces and token keys: no consent page of before it can be consented to any more, and
\* AuthorizeClient is asked again; its authorization codes stay (purge.go:57-111).  Of a
\* client they are authorization codes, and token keys if it found no code
\* (purge.go:3-53).
PurgeDeletesItsKeys ==
    /\ \A q \in AccountPurges : purge[q].pc = "done" => LeftNonces(q) = {} /\ LeftTokens(q) = {}
    /\ \A q \in ClientPurges : purge[q].pc = "done" =>
         LeftCodes(q) = {} /\ (purge[q].found = {} => LeftTokens(q) = {})

-----------------------------------------------------------------------------
(* The nonce of a consent page is a one-time ticket.                       *)

NonceStatus(p) ==
    IF \E g \in Consents : WonNonce(g, p) THEN "spent"
    ELSE IF p \in nonce THEN "live"
    ELSE IF page[p].pc \in {"consent", "failed"} THEN "void"
    ELSE "unissued"

NonceTickets == INSTANCE OneTimeTicket WITH
    Tickets <- Pages, Holders <- Consents,
    state <- [p \in Pages |-> NonceStatus(p)],
    holders <- [p \in Pages |-> {g \in Consents : WonNonce(g, p)}]

\* A consent page can be consented to once, and not at all once its nonce has
\* expired or was purged (authorization.go:334-348).
ConsentIsOneTime == NonceTickets!Spec
=============================================================================
