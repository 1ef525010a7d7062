------------------------- MODULE RefreshTokens_proofs -------------------------
(***************************************************************************)
(* Proofs about authorization codes and refresh tokens, for all values of  *)
(* the constants.                                                          *)
(***************************************************************************)
EXTENDS TokenProperties, TLAPS

-----------------------------------------------------------------------------
(* Type correctness.                                                       *)

\* A call is made by a request that has begun, for an owner; only exchanges write.
RequestsKnown ==
    /\ \A x \in Calls :
         /\ IF call[x].pc = "none" THEN handler[x].pc \in {"idle", "refused"}
            ELSE handler[x].pc # "idle" /\ call[x].owner \in Owners
         /\ call[x].pc = "answered" => call[x].id \in Tokens
    /\ \A v \in Revocations : revocation[v].pc # "idle" => revocation[v].owner \in Owners

\* Only rows that exist were seen.
RowsSeen ==
    /\ \A x \in Calls : \A t \in call[x].seen \cup call[x].before : token[t] # Nil
    /\ \A v \in Revocations : \A t \in revocation[v].seen : token[t] # Nil

Typed == TypeOK /\ RequestsKnown /\ RowsSeen

\* The initial state is well typed.
LEMMA TypedInit == Init => Typed
BY DEF Init, Typed, TypeOK, RequestsKnown, RowsSeen, CallState, HandlerState,
       RevocationState

\* Marking rows that exist leaves rows, and leaves no row out.
LEMMA DeletingType ==
    ASSUME token \in [Tokens -> Row \cup {Nil}], NEW dead \in SUBSET Tokens,
           \A t \in dead : token[t] # Nil
    PROVE  /\ Deleting(dead) \in [Tokens -> Row \cup {Nil}]
           /\ \A t \in Tokens : token[t] # Nil => Deleting(dead)[t] # Nil
<1>1. \A t \in dead : [token[t] EXCEPT !.deleted = TRUE] \in Row
  BY DEF Row
<1>. QED BY <1>1, TokenNilAssumption DEF Deleting

\* Every step that serves a call of NewRefreshToken keeps the state well typed.
LEMMA TypedCall ==
    ASSUME Typed, NEW x \in Calls,
           \/ SelectToken(x) \/ NewRefreshTokenDenied(x)
           \/ x \in Exchanges /\ (BeginUpdate(x) \/ UpdateTokens(x) \/ CommitToken(x))
    PROVE  Typed'
<1>. USE DEF Typed, TypeOK, RequestsKnown, RowsSeen
<1>. DEFINE c == call[x]
<1>1. c \in CallState /\ (c.pc # "none" => c.owner \in Owners /\ handler[x].pc # "idle")
  OBVIOUS
<1>2. ASSUME NEW new \in CallState, call' = [call EXCEPT ![x] = new],
             c.pc # "none", new.pc # "none", new.owner = c.owner,
             new.pc = "answered" => new.id \in Tokens,
             \A t \in new.seen \cup new.before : token'[t] # Nil,
             \A t \in Tokens : token[t] # Nil => token'[t] # Nil,
             token' \in [Tokens -> Row \cup {Nil}],
             UNCHANGED <<now, issued, code, handler, revocation>>
      PROVE  Typed'
  <2>1. \A y \in Calls : call'[y] = IF y = x THEN new ELSE call[y]
    BY <1>2
  <2>2. call' \in [Calls -> CallState]
    BY <1>2
  <2>3. \A y \in Calls : call[y].seen \cup call[y].before \subseteq Tokens
    BY DEF CallState
  <2>4. \A v \in Revocations : revocation[v].seen \subseteq Tokens
    BY DEF RevocationState
  <2>5. TypeOK'
    BY <1>2, <2>2
  <2>6. RequestsKnown'
    BY <1>1, <1>2, <2>1
  <2>7. RowsSeen'
    BY <1>2, <2>1, <2>3, <2>4
  <2>. QED BY <2>5, <2>6, <2>7
<1>. HIDE DEF c
<1>3. \A t \in c.seen \cup c.before : t \in Tokens /\ token[t] # Nil
  BY DEF c, CallState
<1>4. ASSUME Deny(x) \/ \E id \in Tokens : Answer(x, id)
      PROVE  \E new \in CallState :
                /\ call' = [call EXCEPT ![x] = new] /\ new.pc # "none"
                /\ new.owner = c.owner /\ new.seen = c.seen /\ new.before = c.before
                /\ new.pc = "answered" => new.id \in Tokens
  <2>1. CASE Deny(x)
    <3>1. [c EXCEPT !.pc = "denied"] \in CallState
      BY <1>1 DEF CallState
    <3>2. call' = [call EXCEPT ![x] = [c EXCEPT !.pc = "denied"]]
      BY <2>1 DEF Deny, c
    <3>. QED BY <1>1, <3>1, <3>2 DEF CallState
  <2>2. ASSUME NEW id \in Tokens, Answer(x, id)
        PROVE  \E new \in CallState :
                  /\ call' = [call EXCEPT ![x] = new] /\ new.pc # "none"
                  /\ new.owner = c.owner /\ new.seen = c.seen /\ new.before = c.before
                  /\ new.pc = "answered" => new.id \in Tokens
    <3>1. [c EXCEPT !.pc = "answered", !.id = id] \in CallState
      BY <1>1 DEF CallState
    <3>2. call' = [call EXCEPT ![x] = [c EXCEPT !.pc = "answered", !.id = id]]
      BY <2>2 DEF Answer, c
    <3>. QED BY <1>1, <3>1, <3>2 DEF CallState
  <2>. QED BY <1>4, <2>1, <2>2
<1>5. CASE SelectToken(x)
  <2>1. \A t \in Current(call[x].owner) : t \in Tokens
    BY DEF Current, Live, Undeleted
  <2>2. CASE call' = [call EXCEPT ![x].pc = "begin"]
    <3>1. [c EXCEPT !.pc = "begin"] \in CallState
      BY <1>1 DEF CallState
    <3>2. call' = [call EXCEPT ![x] = [c EXCEPT !.pc = "begin"]]
      BY <2>2 DEF c
    <3>. QED BY <1>1, <1>2, <1>3, <1>5, <3>1, <3>2 DEF SelectToken, CallState, c
  <2>3. CASE Deny(x) \/ \E id \in Tokens : Answer(x, id)
    BY <1>2, <1>3, <1>4, <1>5, <2>3 DEF SelectToken, c
  <2>. QED BY <1>5, <2>1, <2>2, <2>3 DEF SelectToken
<1>6. CASE NewRefreshTokenDenied(x)
  BY <1>2, <1>3, <1>4, <1>6 DEF NewRefreshTokenDenied, c
<1>7. CASE x \in Exchanges /\ BeginUpdate(x)
  <2>. DEFINE rows == Committed(c.owner)
              new == [c EXCEPT !.pc = "update", !.seen = rows, !.before = rows]
  <2>1. rows \in SUBSET Tokens /\ \A t \in rows : token[t] # Nil
    BY DEF Committed
  <2>2. call' = [call EXCEPT ![x] = new]
    BY <1>7 DEF BeginUpdate, Previous, c
  <2>. HIDE DEF rows
  <2>3. new \in CallState /\ new.pc = "update" /\ new.owner = c.owner
        /\ new.seen = rows /\ new.before = rows
    BY <1>1, <2>1 DEF CallState
  <2>. HIDE DEF new
  <2>. QED BY <1>2, <1>7, <2>1, <2>2, <2>3 DEF BeginUpdate, c
<1>8. CASE x \in Exchanges /\ UpdateTokens(x)
  <2>. DEFINE until == now + RefreshTokenDuration
              new == [c EXCEPT !.pc = "commit", !.expires = until]
  <2>1. until \in Nat
    BY TokenDurationAssumption
  <2>2. call' = [call EXCEPT ![x] = new]
    BY <1>8 DEF UpdateTokens, c
  <2>. HIDE DEF until
  <2>3. new \in CallState /\ new.pc = "commit" /\ new.owner = c.owner
        /\ new.seen = c.seen /\ new.before = c.before
    BY <1>1, <2>1 DEF CallState
  <2>. HIDE DEF new
  <2>. QED BY <1>2, <1>3, <1>8, <2>2, <2>3 DEF UpdateTokens, c
<1>9. CASE x \in Exchanges /\ CommitToken(x)
  <2>. DEFINE row == [owner |-> c.owner, expires |-> c.expires, deleted |-> FALSE]
  <2>1. c.pc = "commit"
    BY <1>9 DEF CommitToken, c
  <2>2. row \in Row /\ row # Nil
    <3>1. c.owner \in Owners /\ c.expires \in Nat
      BY <1>1, <2>1 DEF CallState
    <3>2. row \in Row
      BY <3>1 DEF Row
    <3>. QED BY <3>2, TokenNilAssumption
  <2>3. /\ Deleting(c.seen) \in [Tokens -> Row \cup {Nil}]
        /\ \A t \in Tokens : token[t] # Nil => Deleting(c.seen)[t] # Nil
    BY <1>1, <1>3, DeletingType DEF CallState
  <2>4. token' = [Deleting(c.seen) EXCEPT ![x] = row]
    BY <1>9 DEF CommitToken, c
  <2>. HIDE DEF row
  <2>5. /\ token' \in [Tokens -> Row \cup {Nil}]
        /\ \A t \in Tokens : token[t] # Nil => token'[t] # Nil
    BY <2>2, <2>3, <2>4
  <2>6. Deny(x) \/ \E id \in Tokens : Answer(x, id)
    BY <1>9 DEF CommitToken, Tokens
  <2>. QED BY <1>2, <1>3, <1>4, <1>9, <2>1, <2>5, <2>6 DEF CommitToken, c
<1>. QED BY <1>5, <1>6, <1>7, <1>8, <1>9

\* So does every step of a handler, of AuthorizationHandler and of the clock.
LEMMA TypedHandler ==
    ASSUME Typed, NEW x \in Calls,
           \/ HandlerDone(x) \/ HandlerFails(x)
           \/ x \in Exchanges /\ ExchangeStart(x)
           \/ x \in Refreshes /\ RefreshStart(x)
    PROVE  Typed'
<1>. USE DEF Typed, TypeOK, RequestsKnown, RowsSeen, CallState, HandlerState
<1>1. ASSUME NEW pc \in {"done", "refused", "failed"}, handler[x].pc = "call",
             handler' = [handler EXCEPT ![x].pc = pc],
             UNCHANGED <<now, issued, code, token, call, revocation>>
      PROVE  Typed'
  BY <1>1
<1>2. CASE HandlerDone(x) \/ HandlerFails(x)
  <2>1. CASE HandlerDone(x)
    BY <1>1, <2>1 DEF HandlerDone
  <2>2. CASE HandlerFails(x)
    BY <1>1, <2>2 DEF HandlerFails
  <2>. QED BY <1>2, <2>1, <2>2
<1>3. Dead \in SUBSET Tokens
  BY DEF Dead
<1>4. \A c \in Codes : WithoutCode(c) \in [Codes -> AuthorizationCode \cup {Nil}]
  BY DEF WithoutCode
<1>5. ASSUME Refused(x), handler[x].pc = "idle", code' \in [Codes -> AuthorizationCode \cup {Nil}],
             UNCHANGED <<now, issued, token, revocation>>
      PROVE  Typed'
  BY <1>5 DEF Refused
<1>6. ASSUME NEW owner \in Owners, NEW given \in Codes \cup Tokens \cup {Nil},
             CallNewRefreshToken(x, owner, given), handler[x].pc = "idle",
             code' \in [Codes -> AuthorizationCode \cup {Nil}],
             UNCHANGED <<now, issued, token, revocation>>
      PROVE  Typed'
  <2>. DEFINE c == [call[x] EXCEPT !.pc = "select", !.owner = owner]
              h == [pc |-> "call", given |-> given, dead |-> Dead]
  <2>1. c \in CallState /\ c.pc = "select" /\ c.owner = owner
        /\ c.seen = call[x].seen /\ c.before = call[x].before
    <3>. HIDE DEF RequestsKnown, RowsSeen
    <3>1. call[x] \in CallState
      OBVIOUS
    <3>. QED BY <3>1
  <2>2. h \in HandlerState /\ h.pc = "call"
    BY <1>3
  <2>3. call' = [call EXCEPT ![x] = c] /\ handler' = [handler EXCEPT ![x] = h]
    BY <1>6 DEF CallNewRefreshToken
  <2>. HIDE DEF c, h
  <2>4. TypeOK'
    BY <1>6, <2>1, <2>2, <2>3
  <2>5. RequestsKnown'
    BY <1>6, <2>1, <2>2, <2>3
  <2>6. RowsSeen'
    BY <1>6, <2>1, <2>3
  <2>. QED BY <2>4, <2>5, <2>6
<1>7. CASE x \in Exchanges /\ ExchangeStart(x)
  <2>1. PICK c \in Codes, redirect \in Redirects :
          \/ /\ code' = WithoutCode(c)
             /\ IF code[c] # Nil /\ code[c].redirect = redirect
                THEN CallNewRefreshToken(x, code[c].owner, c)
                ELSE Refused(x)
          \/ code' \in {code, WithoutCode(c)} /\ Refused(x)
    BY <1>7 DEF ExchangeStart
  <2>2. handler[x].pc = "idle" /\ UNCHANGED <<now, issued, token, revocation>>
    BY <1>7 DEF ExchangeStart
  <2>3. code' \in [Codes -> AuthorizationCode \cup {Nil}]
    BY <1>4, <2>1
  <2>4. CASE Refused(x)
    BY <1>5, <2>2, <2>3, <2>4
  <2>5. CASE code[c] # Nil /\ CallNewRefreshToken(x, code[c].owner, c)
    <3>1. code[c].owner \in Owners
      BY <2>5 DEF AuthorizationCode
    <3>. QED BY <1>6, <2>2, <2>3, <2>5, <3>1
  <2>. QED BY <2>1, <2>4, <2>5
<1>8. CASE x \in Refreshes /\ RefreshStart(x)
  <2>1. PICK e \in Exchanges :
          handler[e].pc = "done" /\ CallNewRefreshToken(x, call[e].owner, call[e].id)
    BY <1>8 DEF RefreshStart
  <2>2. call[e].owner \in Owners /\ call[e].id \in Codes \cup Tokens \cup {Nil}
    BY <2>1 DEF Calls
  <2>. QED BY <1>6, <1>8, <2>1, <2>2 DEF RefreshStart
<1>. QED BY <1>2, <1>7, <1>8

\* So does every step of a revocation.
LEMMA TypedRevocation ==
    ASSUME Typed, NEW v \in Revocations,
           RevokeStart(v) \/ RevokeTokens(v) \/ RevokeFails(v)
    PROVE  Typed'
<1>. USE DEF Typed, TypeOK, RequestsKnown, RowsSeen, RevocationState
<1>1. CASE RevokeStart(v)
  BY <1>1 DEF RevokeStart, Undeleted
<1>2. CASE RevokeTokens(v)
  <2>1. /\ Deleting(Revoked(v)) \in [Tokens -> Row \cup {Nil}]
        /\ \A t \in Tokens : token[t] # Nil => Deleting(Revoked(v))[t] # Nil
    BY DeletingType DEF Revoked
  <2>2. \A x \in Calls : call[x].seen \cup call[x].before \subseteq Tokens
    BY DEF CallState
  <2>. QED BY <1>2, <2>1, <2>2 DEF RevokeTokens
<1>3. CASE RevokeFails(v)
  BY <1>3 DEF RevokeFails
<1>. QED BY <1>1, <1>2, <1>3

\* So do the clock and a new code.
LEMMA TypedCode ==
    ASSUME Typed, Tick \/ \E c \in Codes : IssueCode(c)
    PROVE  Typed'
<1>. USE DEF Typed, TypeOK, RequestsKnown, RowsSeen
<1>1. CASE Tick
  BY <1>1 DEF Tick
<1>2. ASSUME NEW c \in Codes, IssueCode(c)
      PROVE  Typed'
  <2>1. PICK owner \in Owners, redirect \in Redirects, outcome \in {"lost", "delivered"} :
          /\ code' = [code EXCEPT ![c] = [owner |-> owner, redirect |-> redirect,
                                          dl |-> now + AuthorizationCodeDuration]]
          /\ issued' = [issued EXCEPT ![c] = outcome]
    BY <1>2 DEF IssueCode
  <2>2. [owner |-> owner, redirect |-> redirect, dl |-> now + AuthorizationCodeDuration]
           \in AuthorizationCode
    BY TokenDurationAssumption DEF AuthorizationCode
  <2>. QED BY <1>2, <2>1, <2>2 DEF IssueCode
<1>. QED BY <1>1, <1>2

\* Every step keeps the state well typed.
LEMMA TypedStep == Typed /\ [Next]_vars => Typed'
<1>. SUFFICES ASSUME Typed, [Next]_vars PROVE Typed'
  OBVIOUS
<1>1. CASE UNCHANGED vars \/ Terminating
  BY <1>1 DEF vars, Terminating, Typed, TypeOK, RequestsKnown, RowsSeen
<1>. QED BY <1>1, TypedCall, TypedHandler, TypedRevocation, TypedCode DEF Next, Calls

\* Every reachable state is well typed, and no transaction or revocation has seen
\* a row that does not exist.
THEOREM TypeCorrect == Spec => []TypeOK
<1>1. Typed => TypeOK
  BY DEF Typed
<1>. QED BY TypedInit, TypedStep, <1>1, PTL DEF Spec

-----------------------------------------------------------------------------
(* Who changes what.                                                       *)

Begins(x) == \/ x \in Exchanges /\ ExchangeStart(x)
             \/ x \in Refreshes /\ RefreshStart(x)
Writes(x) == x \in Exchanges /\ (BeginUpdate(x) \/ UpdateTokens(x) \/ CommitToken(x))

\* The steps that touch neither a call nor its request.
Elsewhere == \/ Tick \/ Terminating \/ UNCHANGED vars
             \/ \E c \in Codes : IssueCode(c)
             \/ \E v \in Revocations : RevokeStart(v) \/ RevokeTokens(v) \/ RevokeFails(v)

\* Every other step is one of a call or of its request.
LEMMA StepOfCall ==
    ASSUME [Next]_vars, ~Elsewhere
    PROVE  \E x \in Calls : \/ Begins(x) \/ SelectToken(x) \/ NewRefreshTokenDenied(x)
                            \/ Writes(x) \/ HandlerDone(x) \/ HandlerFails(x)
<1>1. ASSUME NEW e \in Exchanges,
             ExchangeStart(e) \/ BeginUpdate(e) \/ UpdateTokens(e) \/ CommitToken(e)
      PROVE  e \in Calls /\ (Begins(e) \/ Writes(e))
  <2>1. e \in Calls
    BY DEF Calls
  <2>2. ExchangeStart(e) => Begins(e)
    BY DEF Begins
  <2>3. BeginUpdate(e) \/ UpdateTokens(e) \/ CommitToken(e) => Writes(e)
    BY DEF Writes
  <2>. QED BY <1>1, <2>1, <2>2, <2>3
<1>2. CASE \E r \in Refreshes : RefreshStart(r)
  BY <1>2 DEF Begins, Calls
<1>3. CASE \E x \in Calls : \/ SelectToken(x) \/ NewRefreshTokenDenied(x)
                           \/ HandlerDone(x) \/ HandlerFails(x)
  BY <1>3
<1>. QED BY <1>1, <1>2, <1>3 DEF Next, Elsewhere

\* A call changes by its own steps only.
LEMMA CallMoves ==
    ASSUME Typed, [Next]_vars, NEW x \in Calls
    PROVE  \/ call'[x] = call[x]
           \/ Begins(x) \/ SelectToken(x) \/ NewRefreshTokenDenied(x) \/ Writes(x)
<1>. USE DEF Typed, TypeOK
<1>1. CASE Elsewhere \/ \E y \in Calls : HandlerDone(y) \/ HandlerFails(y)
  BY <1>1 DEF Elsewhere, Tick, Terminating, vars, IssueCode, RevokeStart, RevokeTokens, RevokeFails,
              HandlerDone, HandlerFails
<1>2. ASSUME NEW y \in Calls, y # x,
             Begins(y) \/ SelectToken(y) \/ NewRefreshTokenDenied(y) \/ Writes(y)
      PROVE  call'[x] = call[x]
  BY <1>2 DEF Begins, ExchangeStart, RefreshStart, CallNewRefreshToken, Refused, SelectToken,
              NewRefreshTokenDenied, Writes, BeginUpdate, UpdateTokens, CommitToken, Answer, Deny
<1>. QED BY <1>1, <1>2, StepOfCall

\* So does the request it is made for.
LEMMA HandlerMoves ==
    ASSUME Typed, [Next]_vars, NEW x \in Calls
    PROVE  handler'[x] = handler[x] \/ Begins(x) \/ HandlerDone(x) \/ HandlerFails(x)
<1>. USE DEF Typed, TypeOK
<1>1. CASE \/ Elsewhere
           \/ \E y \in Calls : SelectToken(y) \/ NewRefreshTokenDenied(y) \/ Writes(y)
  BY <1>1 DEF Elsewhere, Tick, Terminating, vars, IssueCode, RevokeStart, RevokeTokens, RevokeFails,
              SelectToken, NewRefreshTokenDenied, Writes, BeginUpdate, UpdateTokens, CommitToken
<1>2. ASSUME NEW y \in Calls, y # x, Begins(y) \/ HandlerDone(y) \/ HandlerFails(y)
      PROVE  handler'[x] = handler[x]
  BY <1>2 DEF Begins, ExchangeStart, RefreshStart, CallNewRefreshToken, Refused,
              HandlerDone, HandlerFails
<1>. QED BY <1>1, <1>2, StepOfCall

\* A row is left alone, marked as deleted, or written by its transaction.
LEMMA TokenWrites ==
    ASSUME Typed, [Next]_vars, NEW t \in Tokens
    PROVE  \/ token'[t] = token[t]
           \/ token[t] # Nil /\ token'[t] = [token[t] EXCEPT !.deleted = TRUE]
           \/ /\ t \in Exchanges /\ CommitToken(t)
              /\ token'[t] = [owner |-> call[t].owner, expires |-> call[t].expires,
                              deleted |-> FALSE]
<1>. USE DEF Typed, TypeOK, RowsSeen, Deleting, Tokens, Calls
<1>1. CASE \E v \in Revocations : RevokeTokens(v)
  BY <1>1 DEF RevokeTokens, Revoked
<1>2. CASE \E x \in Exchanges : CommitToken(x)
  BY <1>2 DEF CommitToken
<1>3. CASE UNCHANGED token
  BY <1>3
<1>4. CASE \/ Tick \/ Terminating \/ UNCHANGED vars
           \/ \E c \in Codes : IssueCode(c)
           \/ \E v \in Revocations : RevokeStart(v) \/ RevokeFails(v)
           \/ \E x \in Calls : \/ SelectToken(x) \/ NewRefreshTokenDenied(x)
                                \/ HandlerDone(x) \/ HandlerFails(x)
           \/ \E r \in Refreshes : RefreshStart(r)
           \/ \E e \in Exchanges : ExchangeStart(e) \/ BeginUpdate(e) \/ UpdateTokens(e)
  BY <1>3, <1>4 DEF Tick, Terminating, vars, IssueCode, RevokeStart, RevokeFails, SelectToken,
       NewRefreshTokenDenied, HandlerDone, HandlerFails, RefreshStart, ExchangeStart,
       BeginUpdate, UpdateTokens
<1>. QED BY <1>1, <1>2, <1>4 DEF Next

\* The clock does not go back.
LEMMA ClockStep ==
    ASSUME Typed, [Next]_vars
    PROVE  now' >= now
<1>1. CASE Tick
  BY <1>1 DEF Tick, Typed, TypeOK
<1>2. CASE Elsewhere /\ ~Tick
  BY <1>2 DEF Elsewhere, Typed, TypeOK, vars, Terminating, IssueCode, RevokeStart, RevokeTokens,
              RevokeFails
<1>3. CASE ~Elsewhere
  <2>1. now' = now
    BY <1>3, StepOfCall DEF Begins, ExchangeStart, RefreshStart, SelectToken, Writes,
         NewRefreshTokenDenied, HandlerDone, HandlerFails, BeginUpdate, UpdateTokens, CommitToken
  <2>. QED BY <2>1 DEF Typed, TypeOK
<1>. QED BY <1>1, <1>2, <1>3

-----------------------------------------------------------------------------
(* Live tokens.                                                            *)

\* A transaction writes its row when it commits, and that retires every token it
\* found when it began.
Retires(x) ==
    /\ token[x] # Nil => /\ call[x].pc \in {"answered", "denied"}
                         /\ \A t \in call[x].before : token[t].deleted
    /\ call[x].pc \in {"update", "commit"} => call[x].seen = call[x].before

Retired == \A x \in Exchanges : Retires(x)

\* A row stays a row of its owner, with its lifetime, and a deleted one is deleted
\* for ever.
LEMMA RowsStay ==
    ASSUME Typed, Retired, [Next]_vars, NEW t \in Tokens, token[t] # Nil
    PROVE  /\ token'[t] # Nil /\ token'[t] \in Row
           /\ token'[t].owner = token[t].owner /\ token'[t].expires = token[t].expires
           /\ token[t].deleted => token'[t].deleted
<1>1. token[t] \in Row
  BY DEF Typed, TypeOK
<1>2. CASE token'[t] = token[t]
  BY <1>1, <1>2
<1>3. CASE token'[t] = [token[t] EXCEPT !.deleted = TRUE]
  BY <1>1, <1>3, TokenNilAssumption DEF Row
<1>4. ~CommitToken(t)
  BY DEF Retired, Retires, CommitToken, Tokens
<1>. QED BY <1>2, <1>3, <1>4, TokenWrites

\* What is dead stays dead.
LEMMA DeadStays ==
    ASSUME Typed, Retired, [Next]_vars
    PROVE  Dead \subseteq Dead'
<1>. SUFFICES ASSUME NEW t \in Tokens, token[t] # Nil, token[t].deleted \/ token[t].expires <= now
              PROVE  token'[t] # Nil /\ (token'[t].deleted \/ token'[t].expires <= now')
  BY DEF Dead
<1>1. token'[t] # Nil /\ token'[t].expires = token[t].expires
      /\ (token[t].deleted => token'[t].deleted)
  BY RowsStay
<1>2. token[t].expires \in Nat /\ now \in Nat /\ now' \in Nat
  BY TypedStep DEF Typed, TypeOK, Row
<1>. QED BY <1>1, <1>2, ClockStep

\* The transaction of a written token is over.
LEMMA WrittenCallStays ==
    ASSUME Typed, Retired, [Next]_vars, NEW t \in Exchanges, token[t] # Nil
    PROVE  call'[t] = call[t]
<1>1. call[t].pc \in {"answered", "denied"} /\ handler[t].pc # "idle"
  BY DEF Retired, Retires, Typed, RequestsKnown, Calls
<1>. QED BY <1>1, CallMoves, CallsAssumption DEF Begins, Calls, ExchangeStart, RefreshStart, SelectToken,
            NewRefreshTokenDenied, Writes, BeginUpdate, UpdateTokens, CommitToken

\* Retired is inductive.
LEMMA RetiredStep ==
    ASSUME Typed, Retired, [Next]_vars
    PROVE  Retired'
<1>. SUFFICES ASSUME NEW x \in Exchanges PROVE Retires(x)'
  BY DEF Retired
<1>. USE DEF Tokens, Calls
<1>1. x \in Calls /\ call[x] \in CallState /\ call[x].before \subseteq Tokens
  BY DEF Typed, TypeOK, CallState
<1>2. CASE token[x] # Nil
  <2>1. call'[x] = call[x]
    BY <1>2, WrittenCallStays
  <2>2. \A t \in call[x].before : token[t] # Nil /\ token[t].deleted
    BY <1>1, <1>2 DEF Retired, Retires, Typed, RowsSeen
  <2>3. \A t \in call[x].before : token'[t].deleted
    BY <1>1, <2>2, RowsStay
  <2>. QED BY <1>2, <2>1, <2>3 DEF Retired, Retires
<1>3. CASE token[x] = Nil /\ CommitToken(x)
  <2>1. call[x].seen = call[x].before
    BY <1>3 DEF Retired, Retires, CommitToken
  <2>2. call'[x].pc \in {"answered", "denied"} /\ call'[x].before = call[x].before
    BY <1>1, <1>3 DEF CommitToken, Answer, Deny, Typed, TypeOK, CallState
  <2>3. \A t \in call[x].before : t # x /\ token[t] \in Row
    BY <1>1, <1>3 DEF Typed, TypeOK, RowsSeen
  <2>4. \A t \in call[x].before : token'[t] = [token[t] EXCEPT !.deleted = TRUE]
    BY <1>1, <1>3, <2>1, <2>3 DEF CommitToken, Deleting
  <2>5. \A t \in call[x].before : token'[t].deleted
    BY <2>3, <2>4 DEF Row
  <2>. QED BY <2>2, <2>5 DEF Retires
<1>4. CASE token[x] = Nil /\ ~CommitToken(x)
  <2>1. token'[x] = Nil
    BY <1>4, TokenWrites
  <2>2. call'[x].pc \in {"update", "commit"} => call'[x].seen = call'[x].before
    <3>1. CASE call'[x] = call[x]
      BY <3>1 DEF Retired, Retires
    <3>2. CASE BeginUpdate(x)
      BY <1>1, <3>2 DEF BeginUpdate, Previous, Typed, TypeOK, CallState
    <3>3. CASE UpdateTokens(x)
      <4>1. call[x].seen = call[x].before
        BY <3>3 DEF UpdateTokens, Retired, Retires
      <4>. QED BY <1>1, <3>3, <4>1 DEF UpdateTokens, Typed, TypeOK, CallState
    <3>4. CASE SelectToken(x)
      BY <1>1, <3>4 DEF SelectToken, Answer, Deny, Typed, TypeOK, CallState
    <3>5. CASE NewRefreshTokenDenied(x)
      BY <1>1, <3>5 DEF NewRefreshTokenDenied, Deny, Typed, TypeOK, CallState
    <3>6. CASE x \in Exchanges /\ ExchangeStart(x)
      <4>1. call[x].pc = "none"
        BY <3>6 DEF ExchangeStart, Typed, RequestsKnown
      <4>. QED BY <1>1, <3>6, <4>1 DEF ExchangeStart, CallNewRefreshToken, Refused,
                  Typed, TypeOK, CallState
    <3>. QED BY <1>1, <1>4, <3>1, <3>2, <3>3, <3>4, <3>5, <3>6, CallMoves, CallsAssumption
             DEF Begins, Writes
  <2>. QED BY <2>1, <2>2 DEF Retires
<1>. QED BY <1>2, <1>3, <1>4

\* At first no token is written.
LEMMA RetiredInit == Init => Retired
BY DEF Init, Retired, Retires, Tokens, Calls

\* Two live tokens of an owner were written by transactions that overlapped.
LEMMA LiveRaced ==
    ASSUME Typed, Retired, NEW owner, NEW t \in Live(owner), NEW u \in Live(owner), t # u
    PROVE  Raced(t, u)
<1>1. /\ t \in Exchanges /\ token[t] # Nil /\ ~token[t].deleted
      /\ u \in Exchanges /\ token[u] # Nil /\ ~token[u].deleted
  BY DEF Live, Undeleted, Tokens
<1>. QED BY <1>1 DEF Raced, Retired, Retires

\* A second live refresh token of an account and a client takes two exchanges that
\* raced: in any number of them, each transaction retires for good all it found.
THEOREM OneLiveTokenUnlessRaced == Spec => []OneLiveUnlessRaced
<1>1. Typed /\ Retired => OneLiveUnlessRaced
  BY LiveRaced DEF OneLiveUnlessRaced
<1>. QED BY TypedInit, TypedStep, RetiredInit, RetiredStep, <1>1, PTL DEF Spec

-----------------------------------------------------------------------------
(* Revocations and answers.                                                *)

\* The tokens a finished revocation saw are dead.
LEMMA RevokedStep ==
    ASSUME Typed, Retired, RevokedStaysRevoked, [Next]_vars
    PROVE  RevokedStaysRevoked'
<1>. SUFFICES ASSUME NEW v \in Revocations, revocation'[v].pc = "done"
              PROVE  revocation'[v].seen \subseteq Dead'
  BY DEF RevokedStaysRevoked
<1>1. CASE revocation'[v] = revocation[v]
  BY <1>1, DeadStays DEF RevokedStaysRevoked
<1>2. CASE RevokeTokens(v)
  <2>1. revocation'[v].seen = revocation[v].seen /\ revocation[v].seen \subseteq Tokens
    BY <1>2 DEF RevokeTokens, Typed, TypeOK, RevocationState
  <2>2. \A t \in revocation[v].seen :
          token[t] \in Row /\ token'[t] = [token[t] EXCEPT !.deleted = TRUE]
    BY <1>2, <2>1 DEF RevokeTokens, Revoked, Deleting, Typed, TypeOK, RowsSeen
  <2>3. \A t \in revocation[v].seen : token'[t] # Nil /\ token'[t].deleted
    <3>1. \A t \in revocation[v].seen : token'[t] \in Row /\ token'[t].deleted
      BY <2>2 DEF Row
    <3>. QED BY <3>1, TokenNilAssumption
  <2>. QED BY <2>1, <2>3 DEF Dead
<1>3. CASE RevokeStart(v)
  BY <1>3 DEF RevokeStart, Typed, TypeOK
<1>4. CASE RevokeFails(v)
  BY <1>4 DEF RevokeFails, Typed, TypeOK, RevocationState
<1>5. \/ revocation'[v] = revocation[v]
      \/ RevokeTokens(v) \/ RevokeStart(v) \/ RevokeFails(v)
  <2>1. CASE ~Elsewhere
    BY <2>1, StepOfCall DEF Begins, ExchangeStart, RefreshStart, SelectToken, Writes,
       NewRefreshTokenDenied, HandlerDone, HandlerFails, BeginUpdate, UpdateTokens, CommitToken
  <2>2. CASE Elsewhere
    BY <2>2 DEF Elsewhere, Tick, Terminating, vars, IssueCode, RevokeStart, RevokeTokens,
                RevokeFails, Typed, TypeOK
  <2>. QED BY <2>1, <2>2
<1>. QED BY <1>1, <1>2, <1>3, <1>4, <1>5

\* Whatever transactions are open, no token that existed when a revocation began is
\* ever live again once it is done.
THEOREM RevocationIsFinal == Spec => []RevokedStaysRevoked
<1>1. Init => RevokedStaysRevoked
  BY DEF Init, RevokedStaysRevoked
<1>. QED BY TypedInit, TypedStep, RetiredInit, RetiredStep, <1>1, RevokedStep, PTL DEF Spec

\* What SSO Service has answered with is a token of the call's owner that was of
\* use when the request began, and the token a client presents is one of its own.
Answered(x) ==
    /\ handler[x].dead \subseteq Dead
    /\ call[x].pc = "answered" =>
         /\ token[call[x].id] # Nil /\ token[call[x].id].owner = call[x].owner
         /\ call[x].id \notin handler[x].dead
    /\ handler[x].pc = "done" => call[x].pc = "answered" /\ Matches(x)

Presented(x) ==
    LET given == handler[x].given IN
    /\ call[x].pc # "none" =>
         given \in Tokens /\ token[given] # Nil /\ token[given].owner = call[x].owner
    /\ call[x].pc = "answered" /\ call[x].id # given =>
         given \in Dead \/ Raced(given, call[x].id)
    /\ handler[x].pc = "refused" => call[x].pc = "answered" /\ call[x].id # given

Answers == /\ \A x \in Calls : Answered(x)
           /\ \A r \in Refreshes : Presented(r)

\* At first nothing is answered.
LEMMA AnswersInit == Init => Answers
BY CallsAssumption DEF Init, Answers, Answered, Presented, Calls

\* An answer stays an answer about the same tokens.
LEMMA AnsweredStep ==
    ASSUME Typed, Retired, Answers, [Next]_vars, NEW x \in Calls
    PROVE  Answered(x)'
<1>. USE DEF Typed, TypeOK
<1>1. call[x] \in CallState /\ handler[x] \in HandlerState /\ Answered(x)
  BY DEF Answers
<1>2. CASE Begins(x)
  <2>1. handler[x].pc = "idle" /\ call[x].pc = "none"
    BY <1>2 DEF Begins, ExchangeStart, RefreshStart, RequestsKnown
  <2>2. ASSUME Refused(x) PROVE Answered(x)'
    <3>1. call' = call /\ handler'[x].pc = "refused" /\ handler'[x].dead = handler[x].dead
      BY <1>1, <2>2 DEF Refused, HandlerState
    <3>. QED BY <1>1, <2>1, <3>1, DeadStays DEF Answered
  <2>3. ASSUME NEW owner, NEW given, CallNewRefreshToken(x, owner, given)
        PROVE  Answered(x)'
    <3>1. call'[x].pc = "select" /\ handler'[x].pc = "call" /\ handler'[x].dead = Dead
      BY <2>3 DEF CallNewRefreshToken, CallState
    <3>. QED BY <3>1, DeadStays DEF Answered
  <2>. QED BY <1>2, <2>2, <2>3 DEF Begins, ExchangeStart, RefreshStart
<1>3. ASSUME handler'[x].dead = handler[x].dead,
             handler'[x].pc = "done" => call'[x].pc = "answered" /\ Matches(x)',
             \/ call'[x].pc # "answered"
             \/ /\ call'[x].id \in Tokens /\ token[call'[x].id] # Nil
                /\ token[call'[x].id].owner = call'[x].owner
                /\ call'[x].id \notin handler[x].dead
      PROVE  Answered(x)'
  BY <1>1, <1>3, DeadStays, RowsStay DEF Answered
<1>4. CASE call'[x] = call[x] /\ handler'[x] = handler[x]
  BY <1>1, <1>3, <1>4 DEF Answered, RequestsKnown, Matches
<1>5. CASE HandlerDone(x) \/ HandlerFails(x)
  <2>1. call' = call /\ handler'[x].dead = handler[x].dead
        /\ handler'[x].given = handler[x].given
    BY <1>1, <1>5 DEF HandlerDone, HandlerFails, HandlerState
  <2>2. handler'[x].pc = "done" => call[x].pc = "answered" /\ Matches(x)
    BY <1>1, <1>5 DEF HandlerDone, HandlerFails, HandlerState
  <2>. QED BY <1>1, <1>3, <2>1, <2>2 DEF Answered, RequestsKnown, Matches
<1>6. ASSUME handler' = handler, call[x].pc # "answered",
             \/ call'[x].pc # "answered"
             \/ /\ call'[x].id \in Tokens /\ token[call'[x].id] # Nil
                /\ token[call'[x].id].owner = call'[x].owner
                /\ call'[x].id \notin handler[x].dead
      PROVE  Answered(x)'
  BY <1>1, <1>3, <1>6 DEF Answered
<1>7. CASE SelectToken(x)
  <2>1. \A t \in Current(call[x].owner) :
          t \in Tokens /\ token[t] # Nil /\ token[t].owner = call[x].owner /\ t \notin Dead
    BY DEF Current, Live, Undeleted, Dead, Row
  <2>2. ASSUME NEW t \in Current(call[x].owner), Answer(x, t)
        PROVE  Answered(x)'
    <3>1. call'[x].id = t /\ call'[x].owner = call[x].owner
      BY <1>1, <2>2 DEF Answer, CallState
    <3>2. token' = token /\ handler' = handler /\ call[x].pc = "select"
      BY <1>7 DEF SelectToken
    <3>. QED BY <1>1, <1>6, <2>1, <3>1, <3>2 DEF Answered
  <2>3. CASE call'[x].pc # "answered"
    BY <1>6, <1>7, <2>3 DEF SelectToken
  <2>. QED BY <1>1, <1>7, <2>2, <2>3 DEF SelectToken, Deny, CallState
<1>8. CASE NewRefreshTokenDenied(x)
  BY <1>1, <1>6, <1>8 DEF NewRefreshTokenDenied, Deny, CallState
<1>9. CASE Writes(x) /\ ~CommitToken(x)
  BY <1>1, <1>6, <1>9 DEF Writes, BeginUpdate, UpdateTokens, CallState
<1>10. CASE Writes(x) /\ CommitToken(x)
  <2>1. x \in Exchanges /\ token[x] = Nil /\ handler' = handler
    BY <1>10 DEF Writes, CommitToken, Retired, Retires
  <2>2. x \notin Dead
    BY <2>1 DEF Dead
  <2>3. token'[x] = [owner |-> call[x].owner, expires |-> call[x].expires, deleted |-> FALSE]
    BY <1>10, <2>1 DEF CommitToken, Deleting, Tokens
  <2>4. token'[x] # Nil /\ token'[x].owner = call[x].owner
    <3>1. call[x].owner \in Owners /\ call[x].expires \in Nat
      BY <1>1, <1>10 DEF CommitToken, CallState, RequestsKnown
    <3>2. token'[x] \in Row /\ token'[x].owner = call[x].owner
      BY <2>3, <3>1 DEF Row
    <3>. QED BY <3>2, TokenNilAssumption
  <2>5. handler[x].pc # "done" /\ handler[x].dead \subseteq Dead'
    BY <1>1, <1>10, DeadStays DEF CommitToken, Answered
  <2>6. CASE Answer(x, x)
    <3>1. call'[x].id = x /\ call'[x].owner = call[x].owner
      BY <1>1, <2>6 DEF Answer, CallState
    <3>2. x \notin handler[x].dead
      BY <1>1, <2>2 DEF Answered
    <3>. QED BY <2>1, <2>4, <2>5, <3>1, <3>2 DEF Answered
  <2>7. CASE Deny(x)
    <3>1. call'[x].pc = "denied"
      BY <1>1, <2>7 DEF Deny, CallState
    <3>. QED BY <2>1, <2>5, <3>1 DEF Answered
  <2>. QED BY <1>10, <2>6, <2>7 DEF CommitToken
<1>. QED BY <1>2, <1>4, <1>5, <1>7, <1>8, <1>9, <1>10, CallMoves, HandlerMoves

\* The token a client presents stays one of its own; another one is answered with
\* only if it is dead by then or was written in a race.
LEMMA PresentedStep ==
    ASSUME Typed, Retired, Answers, [Next]_vars, NEW x \in Refreshes
    PROVE  Presented(x)'
<1>. USE DEF Typed, TypeOK
<1>. DEFINE given == handler[x].given
<1>1. /\ x \in Calls /\ x \notin Exchanges /\ Presented(x) /\ Answered(x)
      /\ call[x] \in CallState /\ handler[x] \in HandlerState
  BY CallsAssumption DEF Answers, Calls
<1>2. CASE Begins(x)
  <2>1. PICK e \in Exchanges :
          handler[e].pc = "done" /\ CallNewRefreshToken(x, call[e].owner, call[e].id)
    BY <1>1, <1>2 DEF Begins, RefreshStart
  <2>2. Answered(e) /\ e \in Calls
    BY DEF Answers, Calls
  <2>3. call[e].id \in Tokens /\ token[call[e].id] # Nil
        /\ token[call[e].id].owner = call[e].owner
    BY <2>1, <2>2 DEF Answered, RequestsKnown
  <2>4. /\ call'[x].pc = "select" /\ call'[x].owner = call[e].owner
        /\ handler'[x].pc = "call" /\ handler'[x].given = call[e].id
    BY <1>1, <2>1 DEF CallNewRefreshToken, CallState
  <2>. QED BY <2>3, <2>4, RowsStay DEF Presented
<1>3. ASSUME call[x].pc # "none", call'[x].owner = call[x].owner,
             handler'[x].given = given,
             call'[x].pc = "answered" /\ call'[x].id # given =>
                \/ given \in Dead
                \/ /\ Raced(given, call'[x].id) /\ call'[x].id \in Exchanges
                   /\ token[call'[x].id] # Nil,
             handler'[x].pc = "refused" => call'[x].pc = "answered" /\ call'[x].id # given
      PROVE  Presented(x)'
  <2>1. given \in Tokens /\ token[given] # Nil /\ token[given].owner = call[x].owner
    BY <1>1, <1>3 DEF Presented
  <2>2. token'[given] # Nil /\ token'[given].owner = call[x].owner
    BY <2>1, RowsStay
  <2>3. call'[given] = call[given]
    BY <2>1, WrittenCallStays DEF Tokens
  <2>4. ASSUME NEW u \in Exchanges, token[u] # Nil, Raced(given, u)
        PROVE  Raced(given, u)'
    <3>1. call'[u] = call[u]
      BY <2>4, WrittenCallStays
    <3>. QED BY <1>3, <2>3, <2>4, <3>1 DEF Raced
  <2>5. given \in Dead => given \in Dead'
    BY DeadStays
  <2>6. call'[x].pc = "answered" /\ call'[x].id # given =>
          given \in Dead' \/ Raced(given, call[x].id)'
    <3>. SUFFICES ASSUME call'[x].pc = "answered", call'[x].id # given, given \notin Dead'
                  PROVE  Raced(given, call[x].id)'
      OBVIOUS
    <3>1. Raced(given, call'[x].id) /\ call'[x].id \in Exchanges /\ token[call'[x].id] # Nil
      BY <1>3, <2>5
    <3>2. call'[call'[x].id] = call[call'[x].id]
      BY <3>1, WrittenCallStays
    <3>. QED BY <1>3, <2>3, <3>1, <3>2 DEF Raced
  <2>. QED BY <1>3, <2>1, <2>2, <2>6 DEF Presented
<1>4. call[x].pc = "answered" /\ call[x].id # given =>
        \/ given \in Dead
        \/ Raced(given, call[x].id) /\ call[x].id \in Exchanges /\ token[call[x].id] # Nil
  BY <1>1 DEF Presented, Answered, RequestsKnown, Tokens
<1>5. CASE call'[x] = call[x] /\ handler'[x] = handler[x]
  <2>1. CASE call[x].pc = "none"
    BY <1>1, <1>5, <2>1 DEF Presented
  <2>2. CASE call[x].pc # "none"
    BY <1>1, <1>3, <1>4, <1>5, <2>2 DEF Presented
  <2>. QED BY <2>1, <2>2
<1>6. CASE HandlerDone(x) \/ HandlerFails(x)
  <2>1. /\ call' = call /\ handler'[x].given = given /\ call[x].pc # "none"
        /\ handler'[x].pc = "refused" => call[x].pc = "answered" /\ call[x].id # given
    BY <1>1, <1>6 DEF HandlerDone, HandlerFails, HandlerState, Matches, RequestsKnown
  <2>. QED BY <1>3, <1>4, <2>1
<1>7. ASSUME handler' = handler, call[x].pc \in {"select", "begin", "update", "commit"},
             call'[x].owner = call[x].owner,
             call'[x].pc = "answered" /\ call'[x].id # given =>
                \/ given \in Dead
                \/ /\ Raced(given, call'[x].id) /\ call'[x].id \in Exchanges
                   /\ token[call'[x].id] # Nil
      PROVE  Presented(x)'
  BY <1>1, <1>3, <1>7 DEF Presented
<1>8. CASE NewRefreshTokenDenied(x)
  BY <1>1, <1>7, <1>8 DEF NewRefreshTokenDenied, Deny, CallState
<1>9. CASE SelectToken(x)
  <2>1. handler' = handler /\ call[x].pc = "select"
    BY <1>9 DEF SelectToken
  <2>2. ASSUME NEW t \in Live(call[x].owner), Answer(x, t)
        PROVE  Presented(x)'
    <3>1. call'[x].id = t /\ call'[x].owner = call[x].owner
      BY <1>1, <2>2 DEF Answer, CallState
    <3>2. t \in Exchanges /\ token[t] # Nil
      BY DEF Live, Undeleted, Tokens
    <3>3. given \in Tokens /\ token[given] \in Row /\ token[given].owner = call[x].owner
          /\ token[given] # Nil
      BY <1>1, <2>1 DEF Presented
    <3>4. given \in Dead \/ given \in Live(call[x].owner)
      BY <3>3 DEF Dead, Live, Undeleted, Row
    <3>5. t # given => given \in Dead \/ Raced(given, t)
      BY <3>4, LiveRaced
    <3>. QED BY <1>7, <2>1, <3>1, <3>2, <3>5
  <2>3. CASE Deny(x)
    BY <1>1, <1>7, <2>1, <2>3 DEF Deny, CallState
  <2>. QED BY <1>1, <1>9, <2>2, <2>3 DEF SelectToken, Current
<1>. QED BY <1>1, <1>2, <1>5, <1>6, <1>8, <1>9, CallMoves, HandlerMoves DEF Writes

\* Answers is inductive beside the others.
LEMMA AnswersStep == Typed /\ Retired /\ Answers /\ [Next]_vars => Answers'
BY AnsweredStep, PresentedStep DEF Answers

\* A request that ends well is about a token of its own account and client, and one
\* that was of use when the request began.
THEOREM AnswersAreFresh == Spec => []NoStaleAnswer
<1>1. Typed /\ Answers => NoStaleAnswer
  <2>. SUFFICES ASSUME Typed, Answers, NEW x \in Calls, handler[x].pc = "done"
                PROVE  /\ TokenOf(x) \notin handler[x].dead
                       /\ token[TokenOf(x)] # Nil /\ token[TokenOf(x)].owner = call[x].owner
    BY DEF NoStaleAnswer
  <2>1. Answered(x)
    BY DEF Answers
  <2>2. TokenOf(x) = call[x].id
    BY <2>1, CallsAssumption DEF Answered, Matches, TokenOf
  <2>. QED BY <2>1, <2>2 DEF Answered
<1>. QED BY TypedInit, TypedStep, RetiredInit, RetiredStep, AnswersInit, AnswersStep, <1>1, PTL
         DEF Spec

\* A client is refused with its refresh token only if that is dead, or another one of
\* the same account and client was written in a race with it.
THEOREM RefusalsAreJustified == Spec => []RefusalJustified
<1>1. Typed /\ Answers => RefusalJustified
  <2>. SUFFICES ASSUME Typed, Answers, NEW r \in Refreshes, handler[r].pc = "refused"
                PROVE  LET t == handler[r].given IN
                       t \in Dead \/ \E u \in Committed(call[r].owner) \ {t} : Raced(t, u)
    BY DEF RefusalJustified
  <2>1. r \in Calls /\ Answered(r) /\ Presented(r)
    BY DEF Answers, Calls
  <2>2. call[r].id \in Committed(call[r].owner)
    BY <2>1 DEF Answered, Presented, Committed, Typed, RequestsKnown
  <2>. QED BY <2>1, <2>2 DEF Presented
<1>. QED BY TypedInit, TypedStep, RetiredInit, RetiredStep, AnswersInit, AnswersStep, <1>1, PTL
         DEF Spec

-----------------------------------------------------------------------------
(* The authorization code implements OneTimeTicket.                        *)

\* A stored code was made once; a code that was taken is not stored any more, and
\* was taken by one exchange at most.
CodeOnce ==
    /\ \A e \in Exchanges : handler[e].pc = "idle" => handler[e].given = Nil
    /\ \A c \in Codes : code[c] # Nil => issued[c] # "no"
    /\ \A e \in Exchanges, c \in Codes : WonCode(e, c) => issued[c] # "no" /\ code[c] = Nil
    /\ \A d, e \in Exchanges, c \in Codes : WonCode(d, c) /\ WonCode(e, c) => d = e

Won(c) == \E e \in Exchanges : WonCode(e, c)

\* The exchange that takes a code in this step.
Takes(e, c) ==
    /\ ExchangeStart(e)
    /\ ~WonCode(e, c) /\ WonCode(e, c)'
    /\ code[c] # Nil /\ code' = WithoutCode(c)

\* A code is taken in no other way, and never given back.
LEMMA TakersStep ==
    ASSUME Typed, CodeOnce, [Next]_vars, NEW e \in Exchanges, NEW c \in Codes
    PROVE  Takes(e, c) \/ (WonCode(e, c)' <=> WonCode(e, c))
<1>. USE DEF Typed, TypeOK
<1>1. e \in Calls /\ handler[e] \in HandlerState /\ e \notin Refreshes
  BY CallsAssumption DEF Calls
<1>2. CASE ExchangeStart(e)
  <2>1. handler[e].given = Nil /\ ~WonCode(e, c)
    BY <1>2, TokenNilAssumption DEF ExchangeStart, CodeOnce, WonCode
  <2>2. PICK d \in Codes :
          \/ /\ code' = WithoutCode(d) /\ code[d] # Nil
             /\ CallNewRefreshToken(e, code[d].owner, d)
          \/ Refused(e)
    BY <1>2 DEF ExchangeStart
  <2>3. CASE Refused(e)
    <3>1. handler'[e].given = Nil
      BY <1>1, <2>1, <2>3 DEF Refused, HandlerState
    <3>. QED BY <2>1, <3>1, TokenNilAssumption DEF WonCode
  <2>4. CASE /\ code' = WithoutCode(d) /\ code[d] # Nil
             /\ CallNewRefreshToken(e, code[d].owner, d)
    <3>1. handler'[e].given = d
      BY <1>1, <2>4 DEF CallNewRefreshToken
    <3>. QED BY <1>2, <2>1, <2>4, <3>1 DEF WonCode, Takes
  <2>. QED BY <2>2, <2>3, <2>4
<1>3. CASE handler'[e].given = handler[e].given
  BY <1>3 DEF WonCode
<1>4. CASE HandlerDone(e) \/ HandlerFails(e)
  <2>1. handler'[e].given = handler[e].given
    BY <1>1, <1>4 DEF HandlerDone, HandlerFails, HandlerState
  <2>. QED BY <1>3, <2>1
<1>. QED BY <1>1, <1>2, <1>3, <1>4, HandlerMoves DEF Begins

\* A code is stored by IssueCode only, and what was issued stays so.
LEMMA CodeWrites ==
    ASSUME Typed, [Next]_vars, NEW c \in Codes
    PROVE  \/ IssueCode(c)
           \/ (code'[c] = code[c] \/ code'[c] = Nil) /\ issued'[c] = issued[c]
<1>. USE DEF Typed, TypeOK
<1>1. CASE Elsewhere
  BY <1>1 DEF Elsewhere, Tick, Terminating, vars, IssueCode, RevokeStart, RevokeTokens,
              RevokeFails
<1>2. CASE \E e \in Exchanges : ExchangeStart(e)
  <2>1. code' = code \/ \E d \in Codes : code' = WithoutCode(d)
    BY <1>2 DEF ExchangeStart
  <2>2. \A d \in Codes : WithoutCode(d)[c] \in {code[c], Nil}
    BY DEF WithoutCode
  <2>. QED BY <1>2, <2>1, <2>2 DEF ExchangeStart
<1>3. CASE ~Elsewhere /\ ~ \E e \in Exchanges : ExchangeStart(e)
  BY <1>3, StepOfCall DEF Begins, RefreshStart, SelectToken, NewRefreshTokenDenied, Writes,
     HandlerDone, HandlerFails, BeginUpdate, UpdateTokens, CommitToken
<1>. QED BY <1>1, <1>2, <1>3

\* What IssueCode does to its code.
LEMMA IssueEffect ==
    ASSUME Typed, NEW c \in Codes, IssueCode(c)
    PROVE  issued[c] = "no" /\ issued'[c] # "no" /\ code'[c] # Nil
<1>. USE DEF Typed, TypeOK
<1>1. PICK owner \in Owners, redirect \in Redirects, outcome \in {"lost", "delivered"} :
        /\ code' = [code EXCEPT ![c] = [owner |-> owner, redirect |-> redirect,
                                        dl |-> now + AuthorizationCodeDuration]]
        /\ issued' = [issued EXCEPT ![c] = outcome]
  BY DEF IssueCode
<1>2. code'[c] \in AuthorizationCode
  BY <1>1, TokenDurationAssumption DEF AuthorizationCode
<1>. QED BY <1>1, <1>2, TokenNilAssumption DEF IssueCode

\* CodeOnce is inductive.
LEMMA CodeOnceStep ==
    ASSUME Typed, CodeOnce, [Next]_vars
    PROVE  CodeOnce'
<1>. USE DEF Typed, TypeOK
<1>1. ASSUME NEW e \in Exchanges, handler'[e].pc = "idle"
      PROVE  handler'[e].given = Nil
  <2>1. e \in Calls /\ e \notin Refreshes /\ handler[e] \in HandlerState
    BY CallsAssumption DEF Calls
  <2>2. ~ (HandlerDone(e) \/ HandlerFails(e))
    BY <1>1, <2>1 DEF HandlerDone, HandlerFails, HandlerState
  <2>3. ~ ExchangeStart(e)
    <3>. SUFFICES ASSUME ExchangeStart(e) PROVE FALSE
      OBVIOUS
    <3>1. Refused(e) \/ \E owner, given : CallNewRefreshToken(e, owner, given)
      BY DEF ExchangeStart
    <3>. QED BY <1>1, <2>1, <3>1 DEF Refused, CallNewRefreshToken, HandlerState
  <2>4. handler'[e] = handler[e]
    BY <2>1, <2>2, <2>3, HandlerMoves DEF Begins
  <2>. QED BY <1>1, <2>4 DEF CodeOnce
<1>2. ASSUME NEW c \in Codes, code'[c] # Nil
      PROVE  issued'[c] # "no"
  BY <1>2, CodeWrites, IssueEffect DEF CodeOnce
<1>3. ASSUME NEW e \in Exchanges, NEW c \in Codes, WonCode(e, c)'
      PROVE  issued'[c] # "no" /\ code'[c] = Nil
  <2>1. CASE WonCode(e, c)
    <3>1. issued[c] # "no" /\ code[c] = Nil
      BY <2>1 DEF CodeOnce
    <3>. QED BY <3>1, CodeWrites, IssueEffect
  <2>2. CASE Takes(e, c)
    BY <2>2 DEF Takes, WithoutCode, ExchangeStart, CodeOnce
  <2>. QED BY <1>3, <2>1, <2>2, TakersStep
<1>4. ASSUME NEW d \in Exchanges, NEW e \in Exchanges, NEW c \in Codes,
             WonCode(d, c)', WonCode(e, c)', d # e
      PROVE  FALSE
  <2>1. ASSUME NEW x \in Exchanges, NEW y \in Exchanges, x # y, Takes(x, c), WonCode(y, c)'
        PROVE  FALSE
    <3>1. ~WonCode(y, c)
      BY <2>1 DEF Takes, CodeOnce
    <3>2. handler'[y] = handler[y]
      BY <2>1 DEF Takes, ExchangeStart, CallNewRefreshToken, Refused, Calls
    <3>. QED BY <2>1, <3>1, <3>2 DEF WonCode
  <2>. QED BY <1>4, <2>1, TakersStep DEF CodeOnce
<1>. QED BY <1>1, <1>2, <1>3, <1>4 DEF CodeOnce

-----------------------------------------------------------------------------

\* The exchange that takes a code redeems that ticket, and only that.
LEMMA TakeRedeems ==
    ASSUME Typed, CodeOnce, [Next]_vars, NEW e \in Exchanges, NEW c \in Codes, Takes(e, c)
    PROVE  CodeTickets!Redeem(c, e)
<1>. USE DEF Typed, TypeOK
<1>1. code[c] # Nil /\ code' = WithoutCode(c) /\ issued' = issued /\ WonCode(e, c)'
  BY DEF Takes, ExchangeStart
<1>2. ~Won(c)
  BY <1>1 DEF Won, CodeOnce
<1>3. CodeStatus(c) = "live" /\ CodeStatus(c)' = "spent"
  BY <1>1, <1>2 DEF CodeStatus, Won
<1>4. ASSUME NEW d \in Exchanges, NEW b \in Codes, d # e \/ b # c
      PROVE  WonCode(d, b)' <=> WonCode(d, b)
  <2>1. CASE d # e
    <3>1. handler'[d] = handler[d]
      BY <2>1 DEF Takes, ExchangeStart, CallNewRefreshToken, Refused, Calls
    <3>. QED BY <3>1 DEF WonCode
  <2>2. CASE d = e /\ b # c
    <3>1. handler[e].given = Nil /\ handler'[e].given = c
      BY <1>1 DEF Takes, ExchangeStart, CodeOnce, WonCode
    <3>. QED BY <2>2, <3>1, TokenNilAssumption DEF WonCode
  <2>. QED BY <1>4, <2>1, <2>2
<1>5. ASSUME NEW b \in Codes, b # c
      PROVE  CodeStatus(b)' = CodeStatus(b)
  <2>1. code'[b] = code[b]
    BY <1>1, <1>5 DEF WithoutCode
  <2>2. (\E d \in Exchanges : WonCode(d, b))' <=> \E d \in Exchanges : WonCode(d, b)
    BY <1>4, <1>5
  <2>. QED BY <1>1, <2>1, <2>2 DEF CodeStatus
<1>6. [b \in Codes |-> CodeStatus(b)]' = [[b \in Codes |-> CodeStatus(b)] EXCEPT ![c] = "spent"]
  BY <1>3, <1>5
<1>7. {d \in Exchanges : WonCode(d, c)}' = {e}
  <2>1. \A d \in Exchanges : WonCode(d, c)' <=> d = e
    BY <1>1, <1>2, <1>4 DEF Won
  <2>. QED BY <2>1
<1>8. [b \in Codes |-> {d \in Exchanges : WonCode(d, b)}]'
        = [[b \in Codes |-> {d \in Exchanges : WonCode(d, b)}] EXCEPT ![c] = {e}]
  <2>1. \A b \in Codes : b # c => {d \in Exchanges : WonCode(d, b)}'
                                  = {d \in Exchanges : WonCode(d, b)}
    BY <1>4
  <2>. QED BY <1>7, <2>1
<1>. QED BY <1>3, <1>6, <1>8 DEF CodeTickets!Redeem

\* Without a taker, the holders of all tickets are what they were.
LEMMA HoldersKept ==
    ASSUME Typed, CodeOnce, [Next]_vars, \A e \in Exchanges, c \in Codes : ~Takes(e, c)
    PROVE  /\ \A c \in Codes : Won(c)' <=> Won(c)
           /\ [c \in Codes |-> {e \in Exchanges : WonCode(e, c)}]'
                = [c \in Codes |-> {e \in Exchanges : WonCode(e, c)}]
<1>1. \A e \in Exchanges, c \in Codes : WonCode(e, c)' <=> WonCode(e, c)
  BY TakersStep
<1>. QED BY <1>1 DEF Won

\* Then a ticket keeps its status or becomes useless, unless it is being issued.
LEMMA StatusKeptOrVoid ==
    ASSUME Typed, CodeOnce, [Next]_vars, NEW c \in Codes,
           \A e \in Exchanges, b \in Codes : ~Takes(e, b), ~IssueCode(c)
    PROVE  \/ CodeStatus(c)' = CodeStatus(c)
           \/ CodeStatus(c) \in {"unissued", "live"} /\ CodeStatus(c)' = "void"
<1>1. Won(c)' <=> Won(c)
  BY HoldersKept
<1>2. (code'[c] = code[c] \/ code'[c] = Nil) /\ issued'[c] = issued[c]
  BY CodeWrites
<1>3. code[c] # Nil => issued[c] # "no"
  BY DEF CodeOnce
<1>. QED BY <1>1, <1>2, <1>3 DEF CodeStatus, Won

\* IssueCode issues its ticket.
LEMMA IssueIssues ==
    ASSUME Typed, CodeOnce, [Next]_vars, NEW c \in Codes, IssueCode(c)
    PROVE  CodeTickets!Issue(c, {})
<1>. USE DEF Typed, TypeOK
<1>1. \A e \in Exchanges, b \in Codes : ~Takes(e, b)
  BY DEF IssueCode, Takes, WonCode
<1>2. issued[c] = "no" /\ issued'[c] # "no" /\ code'[c] # Nil
  BY IssueEffect
<1>3. ~Won(c) /\ ~Won(c)' /\ code[c] = Nil
  BY <1>1, <1>2, HoldersKept DEF Won, CodeOnce
<1>4. CodeStatus(c) = "unissued" /\ CodeStatus(c)' = "live"
  BY <1>2, <1>3 DEF CodeStatus, Won
<1>5. ASSUME NEW b \in Codes, b # c
      PROVE  CodeStatus(b)' = CodeStatus(b)
  <2>1. code'[b] = code[b] /\ issued'[b] = issued[b]
    BY <1>5 DEF IssueCode
  <2>2. Won(b)' <=> Won(b)
    BY <1>1, HoldersKept
  <2>. QED BY <2>1, <2>2 DEF CodeStatus, Won
<1>6. [b \in Codes |-> CodeStatus(b)]'
        = [b \in Codes |-> CASE b = c -> "live"
                             [] b \in {} \ {c} -> "void"
                             [] OTHER -> [d \in Codes |-> CodeStatus(d)][b]]
  BY <1>4, <1>5
<1>. QED BY <1>1, <1>4, <1>6, HoldersKept DEF CodeTickets!Issue

\* The steps that neither issue nor take a code at most throw tickets away.
LEMMA OthersDiscard ==
    ASSUME Typed, CodeOnce, [Next]_vars,
           \A e \in Exchanges, c \in Codes : ~Takes(e, c), \A c \in Codes : ~IssueCode(c)
    PROVE  \E D \in SUBSET CodeTickets!Disposable : CodeTickets!Discard(D)
<1>. DEFINE D == {c \in Codes : CodeStatus(c)' # CodeStatus(c)}
<1>1. \A c \in D : CodeStatus(c) \in {"unissued", "live"} /\ CodeStatus(c)' = "void"
  BY StatusKeptOrVoid
<1>2. D \in SUBSET CodeTickets!Disposable
  BY <1>1 DEF CodeTickets!Disposable
<1>3. [c \in Codes |-> CodeStatus(c)]'
        = [c \in Codes |-> IF c \in D THEN "void" ELSE [b \in Codes |-> CodeStatus(b)][c]]
  BY <1>1
<1>. QED BY <1>2, <1>3, HoldersKept DEF CodeTickets!Discard

\* Every step maps to a step of OneTimeTicket.
LEMMA CodeSimulation ==
    Typed /\ CodeOnce /\ [Next]_vars => [CodeTickets!Next]_(CodeTickets!vars)
<1>. SUFFICES ASSUME Typed, CodeOnce, [Next]_vars
              PROVE  CodeTickets!Next
  OBVIOUS
<1>1. CASE \E e \in Exchanges, c \in Codes : Takes(e, c)
  BY <1>1, TakeRedeems DEF CodeTickets!Next
<1>2. CASE \E c \in Codes : IssueCode(c)
  <2>1. {} \in SUBSET CodeTickets!Disposable
    OBVIOUS
  <2>. QED BY <1>2, <2>1, IssueIssues DEF CodeTickets!Next
<1>3. CASE /\ \A e \in Exchanges, c \in Codes : ~Takes(e, c)
           /\ \A c \in Codes : ~IssueCode(c)
  BY <1>3, OthersDiscard DEF CodeTickets!Next
<1>. QED BY <1>1, <1>2, <1>3

\* The initial states map to its initial state.
LEMMA CodeStarts == Init => CodeOnce /\ CodeTickets!Init
<1>. SUFFICES ASSUME Init PROVE CodeOnce /\ CodeTickets!Init
  OBVIOUS
<1>1. \A c \in Codes : code[c] = Nil /\ issued[c] = "no"
  BY DEF Init
<1>2. \A e \in Exchanges : handler[e].given = Nil
  BY DEF Init, Calls
<1>3. \A e \in Exchanges, c \in Codes : ~WonCode(e, c)
  BY <1>2, TokenNilAssumption DEF WonCode
<1>4. \A c \in Codes : CodeStatus(c) = "unissued"
  BY <1>1, <1>3 DEF CodeStatus
<1>. QED BY <1>1, <1>2, <1>3, <1>4 DEF CodeOnce, CodeTickets!Init

\* The authorization code is a one-time ticket: however many exchanges present it at
\* once, one at most gets as far as NewRefreshToken, and none once it expired or came
\* with another redirect URI.
THEOREM AuthorizationCodeOneTime == Spec => AuthorizationCodeIsOneTime
BY TypedInit, TypedStep, CodeStarts, CodeOnceStep, CodeSimulation, PTL
   DEF Spec, AuthorizationCodeIsOneTime, CodeTickets!Spec
=============================================================================
