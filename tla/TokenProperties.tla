--------------------------- MODULE TokenProperties ---------------------------
(***************************************************************************)
(* What authorization codes and refresh tokens promise, over the states of *)
(* RefreshTokens.                                                          *)
(***************************************************************************)
EXTENDS RefreshTokens

CallState ==
    [pc : {"none", "select", "begin", "update", "commit", "answered", "denied"},
     owner : Owners \cup {Nil}, seen : SUBSET Tokens, before : SUBSET Tokens,
     expires : Nat, id : Tokens \cup {Nil}]
HandlerState ==
    [pc : {"idle", "call", "done", "refused", "failed"},
     given : Codes \cup Tokens \cup {Nil}, dead : SUBSET Tokens]
RevocationState ==
    [pc : {"idle", "update", "done", "failed"}, owner : Owners \cup {Nil},
     seen : SUBSET Tokens]

\* Type invariant of the Redis keys, the rows and the requests.
TypeOK ==
    /\ now \in Nat \ {0}
    /\ issued \in [Codes -> {"no", "lost", "delivered"}]
    /\ code \in [Codes -> AuthorizationCode \cup {Nil}]
    /\ token \in [Tokens -> Row \cup {Nil}]
    /\ call \in [Calls -> CallState]
    /\ handler \in [Calls -> HandlerState]
    /\ revocation \in [Revocations -> RevocationState]

-----------------------------------------------------------------------------

\* e has taken the code c, in time and with the right redirect URI.
WonCode(e, c) == handler[e].given = c

CodeStatus(c) ==
    IF \E e \in Exchanges : WonCode(e, c) THEN "spent"
    ELSE IF code[c] # Nil THEN "live"
    ELSE IF issued[c] = "no" THEN "unissued"
    ELSE "void"

CodeTickets == INSTANCE OneTimeTicket WITH
    Tickets <- Codes, Holders <- Exchanges,
    state <- [c \in Codes |-> CodeStatus(c)],
    holders <- [c \in Codes |-> {e \in Exchanges : WonCode(e, c)}]

\* An authorization code gets one exchange at most as far as NewRefreshToken, and
\* none once it expired or came with another redirect URI (token.go:50-88).
AuthorizationCodeIsOneTime == CodeTickets!Spec

\* The refresh token a finished request is about.
TokenOf(x) == IF x \in Refreshes THEN handler[x].given ELSE call[x].id

\* A refresh token that was revoked, replaced or expired when a request began is
\* neither handed out by it nor good for an access token, and no request ends
\* with a token of another account or client (authorization-server.go:247-269,
\* token.go:220), whatever commits between SELECT and the answer.
NoStaleAnswer ==
    \A x \in Calls : handler[x].pc = "done" =>
        /\ TokenOf(x) \notin handler[x].dead
        /\ token[TokenOf(x)] # Nil /\ token[TokenOf(x)].owner = call[x].owner

\* The transactions that wrote t and u overlapped: neither token existed when the
\* other one's transaction began.
Raced(t, u) == t \notin call[u].before /\ u \notin call[t].before

\* Two refresh tokens of one account and client are live at a time only when
\* two exchanges raced: of two transactions, one of which began after the other
\* had committed, the later one has retired the token of the earlier one, and no
\* later step brings it back (authorization-server.go:277-312).
OneLiveUnlessRaced ==
    \A owner \in Owners : \A t, u \in Live(owner) : t # u => Raced(t, u)

\* A client is refused with a refresh token only if that token is dead, or another
\* exchange raced with the one that wrote it.
RefusalJustified ==
    \A r \in Refreshes : handler[r].pc = "refused" =>
        LET t == handler[r].given IN
        t \in Dead \/ \E u \in Committed(call[r].owner) \ {t} : Raced(t, u)

\* A token that existed when a revocation began is dead from its end on, although
\* transactions that have locked its row may still commit or roll back
\* (account.go:98-108 against authorization-server.go:285-312).
RevokedStaysRevoked ==
    \A v \in Revocations : revocation[v].pc = "done" => revocation[v].seen \subseteq Dead
=============================================================================
