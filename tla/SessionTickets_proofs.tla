------------------------ MODULE SessionTickets_proofs ------------------------
(***************************************************************************)
(* The MFA challenge and the activation code implement OneTimeTicket.      *)
(***************************************************************************)
EXTENDS SessionLifecycle_proofs

-----------------------------------------------------------------------------
(* The challenge.                                                          *)

Issued(l) == login[l].pc \in {"store", "done", "failed"}

\* A stored challenge is stored once, by a sign-in that has stored it, and nobody
\* has won it; it was won by one activation at most.
ChallengeOnce ==
    /\ \A k \in Keys : clg[k] # Nil =>
          Issued(clg[k].of) /\ k = KeyOf(login[clg[k].of].req)
    /\ \A a \in Activations, l \in Logins : WonChallenge(a, l) =>
          Issued(l) /\ ~ChallengeStored(l)
    /\ \A a, b \in Activations, l \in Logins :
          WonChallenge(a, l) /\ WonChallenge(b, l) => a = b

\* The activation that wins a challenge in this step.
Wins(a, l) ==
    /\ ActivateStart(a)
    /\ ~WonChallenge(a, l) /\ WonChallenge(a, l)'
    /\ \E k \in Keys : clg[k] # Nil /\ clg[k].of = l /\ clg' = WithoutChallenge(k)

\* A challenge is won in no other way, and never lost again.
LEMMA WinnersStep ==
    ASSUME Typed, [Next]_vars, NEW a \in Activations, NEW l \in Logins
    PROVE  Wins(a, l) \/ (WonChallenge(a, l)' <=> WonChallenge(a, l))
<1>. USE DEF Typed, TypeOK, ActivationState
<1>1. CASE activation[a].pc \in {"read", "call", "done", "failed"}
  BY <1>1, AcceptedStaysAccepted DEF WonChallenge
<1>2. CASE activation[a].pc \in {"idle", "refused"}
  <2>1. CASE ActivateStart(a)
    <3>. SUFFICES ASSUME WonChallenge(a, l)'
                  PROVE  Wins(a, l)
      BY <1>2 DEF WonChallenge
    <3>1. PICK req \in ActivateRequest :
            /\ clg' = WithoutChallenge(KeyOf(req))
            /\ activation' = [activation EXCEPT ![a].req = req,
                 ![a].pc = IF Matches(KeyOf(req), req) THEN "read" ELSE "refused"]
      BY <2>1 DEF ActivateStart, WonChallenge
    <3>2. Matches(KeyOf(req), req) /\ req.challenge = l
      BY <3>1 DEF WonChallenge
    <3>3. KeyOf(req) \in Keys
      BY DEF KeyOf, Keys, ActivateRequest
    <3>. QED BY <1>2, <2>1, <3>1, <3>2, <3>3 DEF Wins, Matches, WonChallenge
  <2>2. CASE activation'[a] = activation[a]
    BY <2>2 DEF WonChallenge
  <2>3. CASE ActivateStep(a)
    BY <1>2, <2>3 DEF ActivateStep, ActivateRead, ActivateStore, ActivateFails
  <2>4. CASE ActivateSession(a) \/ ActivateSessionLost(a)
    BY <1>2, <2>4 DEF ActivateSession, ActivateSessionLost, WonChallenge
  <2>. QED BY <2>1, <2>2, <2>3, <2>4, ActivationMoves
<1>. QED BY <1>1, <1>2

\* A sign-in keeps its session and account, and what it issued stays issued; a
\* challenge is issued by storing it.
LEMMA IssuedStep ==
    ASSUME Typed, [Next]_vars, NEW l \in Logins
    PROVE  /\ Issued(l) => Issued(l)' /\ login'[l].req = login[l].req
           /\ LoginChallenge(l) => Issued(l)' /\ login'[l].req = login[l].req
<1>. USE DEF Typed, TypeOK, LoginState
<1>1. CASE LoginStart(l)
  BY <1>1 DEF LoginStart, Issued, LoginChallenge
<1>2. CASE SignIn(l)
  <2>1. \/ login' = [login EXCEPT ![l].call = "ok"]
        \/ login' = [login EXCEPT ![l].call = "error"]
    BY <1>2 DEF SignIn
  <2>2. login'[l].pc = login[l].pc /\ login'[l].req = login[l].req
    BY <2>1
  <2>. QED BY <2>2 DEF Issued, LoginChallenge
<1>3. CASE SignInDenied(l)
  BY <1>3 DEF SignInDenied, Issued, LoginChallenge
<1>4. CASE LoginRead(l)
  BY <1>4 DEF LoginRead, Issued, LoginChallenge
<1>5. CASE LoginChallenge(l)
  BY <1>5 DEF LoginChallenge, Issued
<1>6. CASE LoginStore(l)
  BY <1>6 DEF LoginStore, LoginChallenge, Issued
<1>7. CASE LoginCallFails(l) \/ LoginFails(l)
  BY <1>7 DEF LoginCallFails, LoginFails, LoginChallenge, Issued
<1>8. CASE login'[l] = login[l]
  BY <1>8 DEF LoginChallenge, Issued
<1>. QED BY <1>1, <1>2, <1>3, <1>4, <1>5, <1>6, <1>7, <1>8, LoginMoves DEF LoginStep

\* ChallengeOnce is inductive.
LEMMA ChallengeOnceStep ==
    ASSUME Typed, ChallengeOnce, [Next]_vars
    PROVE  ChallengeOnce'
<1>. USE DEF Typed, TypeOK
<1>1. ASSUME NEW k \in Keys, clg'[k] # Nil
      PROVE  Issued(clg[k].of)' /\ k = KeyOf(login[clg[k].of].req)'
  <2>1. CASE clg'[k] = clg[k]
    <3>1. clg[k].of \in Logins /\ Issued(clg[k].of) /\ k = KeyOf(login[clg[k].of].req)
      BY <1>1, <2>1 DEF ChallengeOnce, Challenge
    <3>2. Issued(clg[k].of) => /\ login'[clg[k].of].pc \in {"store", "done", "failed"}
                               /\ login'[clg[k].of].req = login[clg[k].of].req
      BY <3>1, IssuedStep DEF Issued
    <3>. QED BY <2>1, <3>1, <3>2 DEF Issued, KeyOf
  <2>2. ASSUME NEW l \in Logins, LoginChallenge(l), k = KeyOf(login[l].req),
               clg'[k] = NewChallenge(l)
        PROVE  Issued(clg[k].of)' /\ k = KeyOf(login[clg[k].of].req)'
    <3>1. clg'[k].of = l
      BY <2>2 DEF NewChallenge
    <3>. QED BY <2>2, <3>1, IssuedStep DEF Issued, KeyOf
  <2>. QED BY <1>1, <2>1, <2>2, ChallengeWrites
<1>2. ASSUME NEW a \in Activations, NEW l \in Logins, WonChallenge(a, l)'
      PROVE  Issued(l)' /\ ~ChallengeStored(l)'
  <2>1. CASE WonChallenge(a, l)
    <3>1. Issued(l) /\ ~ChallengeStored(l)
      BY <2>1 DEF ChallengeOnce
    <3>2. ASSUME NEW k \in Keys, clg'[k] # Nil, clg'[k].of = l
          PROVE  FALSE
      <4>1. clg'[k] # clg[k]
        BY <3>1, <3>2 DEF ChallengeStored
      <4>2. PICK m \in Logins : LoginChallenge(m) /\ clg'[k] = NewChallenge(m)
        BY <3>2, <4>1, ChallengeWrites
      <4>3. m = l
        BY <3>2, <4>2 DEF NewChallenge
      <4>. QED BY <3>1, <4>2, <4>3 DEF LoginChallenge, Issued
    <3>. QED BY <3>1, <3>2, IssuedStep DEF ChallengeStored
  <2>2. CASE Wins(a, l)
    <3>1. PICK k \in Keys : clg[k] # Nil /\ clg[k].of = l /\ clg' = WithoutChallenge(k)
      BY <2>2 DEF Wins
    <3>2. \A j \in Keys : clg[j] # Nil /\ clg[j].of = l => j = k
      BY <3>1 DEF ChallengeOnce
    <3>3. \A j \in Keys : clg'[j] # Nil => j # k /\ clg'[j] = clg[j]
      BY <3>1 DEF WithoutChallenge
    <3>4. Issued(l)
      BY <3>1 DEF ChallengeOnce
    <3>. QED BY <3>2, <3>3, <3>4, IssuedStep DEF ChallengeStored
  <2>. QED BY <1>2, <2>1, <2>2, WinnersStep
<1>3. ASSUME NEW a \in Activations, NEW b \in Activations, NEW l \in Logins,
             WonChallenge(a, l)', WonChallenge(b, l)', a # b
      PROVE  FALSE
  <2>1. ASSUME NEW x \in Activations, NEW y \in Activations, x # y,
               Wins(x, l), WonChallenge(y, l)'
        PROVE  FALSE
    <3>1. ~WonChallenge(y, l)
      BY <2>1 DEF Wins, ChallengeOnce, ChallengeStored
    <3>2. activation'[y] = activation[y]
      BY <2>1 DEF Wins, ActivateStart
    <3>. QED BY <2>1, <3>1, <3>2 DEF WonChallenge
  <2>2. WonChallenge(a, l) /\ WonChallenge(b, l)
    BY <1>3, <2>1, WinnersStep
  <2>. QED BY <1>3, <2>2 DEF ChallengeOnce
<1>. QED BY <1>1, <1>2, <1>3 DEF ChallengeOnce

\* Some activation has won the challenge of l.
Won(l) == \E a \in Activations : WonChallenge(a, l)

\* The step in which a wins the challenge of l redeems that ticket, and only that.
LEMMA WinRedeems ==
    ASSUME Typed, ChallengeOnce, [Next]_vars,
           NEW a \in Activations, NEW l \in Logins, Wins(a, l)
    PROVE  ChallengeTickets!Redeem(l, a)
<1>1. PICK k \in Keys : clg[k] # Nil /\ clg[k].of = l /\ clg' = WithoutChallenge(k)
  BY DEF Wins
<1>2. ~Won(l) /\ ChallengeStored(l)
  BY <1>1 DEF ChallengeOnce, Won, ChallengeStored
<1>3. ChallengeStatus(l) = "live"
  BY <1>2 DEF ChallengeStatus, Won
<1>4. ChallengeStatus(l)' = "spent"
  BY DEF ChallengeStatus, Wins
<1>5. ASSUME NEW b \in Activations, NEW m \in Logins, b # a \/ m # l
      PROVE  WonChallenge(b, m)' <=> WonChallenge(b, m)
  <2>1. CASE b # a
    <3>1. activation'[b] = activation[b]
      BY <2>1 DEF Wins, ActivateStart, Typed, TypeOK
    <3>. QED BY <3>1 DEF WonChallenge
  <2>2. CASE b = a /\ m # l
    <3>1. activation'[a].req.challenge = l
      BY DEF Wins, WonChallenge
    <3>2. ~WonChallenge(a, m)
      BY DEF Wins, ActivateStart, WonChallenge
    <3>. QED BY <2>2, <3>1, <3>2 DEF WonChallenge
  <2>. QED BY <1>5, <2>1, <2>2
<1>6. ASSUME NEW m \in Logins, m # l
      PROVE  ChallengeStatus(m)' = ChallengeStatus(m)
  <2>1. Won(m)' <=> Won(m)
    BY <1>5, <1>6 DEF Won
  <2>2. ChallengeStored(m)' <=> ChallengeStored(m)
    BY <1>1, <1>6 DEF ChallengeStored, WithoutChallenge, Typed, TypeOK
  <2>3. login' = login
    BY DEF Wins, ActivateStart
  <2>. QED BY <2>1, <2>2, <2>3 DEF ChallengeStatus, Won
<1>7. [m \in Logins |-> ChallengeStatus(m)]'
        = [[m \in Logins |-> ChallengeStatus(m)] EXCEPT ![l] = "spent"]
  BY <1>4, <1>6
<1>8. {b \in Activations : WonChallenge(b, l)}' = {a}
  <2>1. \A b \in Activations : WonChallenge(b, l)' <=> b = a
    BY <1>2, <1>5 DEF Won, Wins
  <2>. QED BY <2>1
<1>9. [m \in Logins |-> {b \in Activations : WonChallenge(b, m)}]'
        = [[m \in Logins |-> {b \in Activations : WonChallenge(b, m)}] EXCEPT ![l] = {a}]
  <2>1. \A m \in Logins : m # l => {b \in Activations : WonChallenge(b, m)}'
                                    = {b \in Activations : WonChallenge(b, m)}
    BY <1>5
  <2>. QED BY <1>8, <2>1
<1>. QED BY <1>3, <1>7, <1>9 DEF ChallengeTickets!Redeem

\* Without a winner, the holders of all tickets are what they were.
LEMMA HoldersKept ==
    ASSUME Typed, [Next]_vars, \A a \in Activations, l \in Logins : ~Wins(a, l)
    PROVE  /\ \A l \in Logins : Won(l)' <=> Won(l)
           /\ [l \in Logins |-> {a \in Activations : WonChallenge(a, l)}]'
                = [l \in Logins |-> {a \in Activations : WonChallenge(a, l)}]
<1>1. \A a \in Activations, l \in Logins : WonChallenge(a, l)' <=> WonChallenge(a, l)
  BY WinnersStep
<1>. QED BY <1>1 DEF Won

\* Then a ticket either keeps its status or becomes useless, unless its challenge
\* is being stored.
LEMMA StatusKeptOrVoid ==
    ASSUME Typed, ChallengeOnce, [Next]_vars, NEW l \in Logins,
           \A a \in Activations, m \in Logins : ~Wins(a, m), ~LoginChallenge(l)
    PROVE  \/ ChallengeStatus(l)' = ChallengeStatus(l)
           \/ ChallengeStatus(l) \in {"unissued", "live"} /\ ChallengeStatus(l)' = "void"
<1>1. Won(l)' <=> Won(l)
  BY HoldersKept
<1>2. ChallengeStored(l)' => ChallengeStored(l)
  <2>. SUFFICES ASSUME NEW k \in Keys, clg'[k] # Nil, clg'[k].of = l
                PROVE  clg[k] # Nil /\ clg[k].of = l
    BY DEF ChallengeStored
  <2>1. CASE clg'[k] = clg[k]
    BY <2>1
  <2>2. ASSUME NEW m \in Logins, LoginChallenge(m), clg'[k] = NewChallenge(m)
        PROVE  FALSE
    BY <2>2 DEF NewChallenge
  <2>. QED BY <2>1, <2>2, ChallengeWrites
<1>3. ChallengeStored(l) => Issued(l)
  BY DEF ChallengeStored, ChallengeOnce
<1>4. Issued(l) => Issued(l)'
  BY IssuedStep
<1>5. Issued(l) <=> login[l].pc \notin {"idle", "signin", "challenge"}
  BY DEF Issued, Typed, TypeOK, LoginState
<1>6. Issued(l)' <=> login'[l].pc \notin {"idle", "signin", "challenge"}
  BY TypedStep DEF Issued, Typed, TypeOK, LoginState
<1>. QED BY <1>1, <1>2, <1>3, <1>4, <1>5, <1>6 DEF ChallengeStatus, Won

\* Storing a challenge issues its ticket; what it overwrites is void.
LEMMA StoreIssues ==
    ASSUME Typed, ChallengeOnce, [Next]_vars, NEW l \in Logins, LoginChallenge(l)
    PROVE  \E D \in SUBSET ChallengeTickets!Disposable : ChallengeTickets!Issue(l, D)
<1>. DEFINE D == {m \in Logins \ {l} : ChallengeStatus(m)' # ChallengeStatus(m)}
<1>1. \A a \in Activations, m \in Logins : ~Wins(a, m)
  BY DEF LoginChallenge, Wins, ActivateStart, WonChallenge
<1>2. \A m \in Logins : m # l => ~LoginChallenge(m)
  BY DEF LoginChallenge, Typed, TypeOK, LoginState
<1>3. \A m \in D : ChallengeStatus(m) \in {"unissued", "live"} /\ ChallengeStatus(m)' = "void"
  BY <1>1, <1>2, StatusKeptOrVoid
<1>4. ChallengeStatus(l) = "unissued" /\ ChallengeStatus(l)' = "live"
  <2>1. login[l].pc = "challenge" /\ ~Issued(l)
    BY DEF LoginChallenge, Issued
  <2>2. ~Won(l) /\ ~ChallengeStored(l)
    BY <2>1 DEF ChallengeOnce, Won, ChallengeStored
  <2>3. ~Won(l)'
    BY <1>1, <2>2, HoldersKept
  <2>4. login[l].req \in LoginRequest
    BY <2>1 DEF Typed, RequestsKnown
  <2>5. KeyOf(login[l].req) \in Keys
    BY <2>4 DEF KeyOf, Keys, LoginRequest
  <2>6. clg'[KeyOf(login[l].req)] = NewChallenge(l)
    BY <2>5 DEF LoginChallenge, Typed, TypeOK
  <2>7. NewChallenge(l).of = l
    BY DEF NewChallenge
  <2>8. NewChallenge(l) # Nil
    <3>1. Deadline(MFASessionDuration) \in Nat
      BY DeadlineType, DurationAssumption DEF Typed, TypeOK
    <3>2. NewChallenge(l) \in Challenge
      BY <2>4, <3>1 DEF NewChallenge, Challenge, LoginRequest
    <3>. QED BY <3>2, NilRecordAssumption
  <2>9. ChallengeStored(l)'
    BY <2>5, <2>6, <2>7, <2>8 DEF ChallengeStored
  <2>. QED BY <2>1, <2>2, <2>3, <2>9 DEF ChallengeStatus, Won
<1>5. D \in SUBSET ChallengeTickets!Disposable
  BY <1>3 DEF ChallengeTickets!Disposable
<1>6. [m \in Logins |-> ChallengeStatus(m)]'
        = [m \in Logins |-> CASE m = l -> "live"
                              [] m \in D \ {l} -> "void"
                              [] OTHER -> [n \in Logins |-> ChallengeStatus(n)][m]]
  BY <1>3, <1>4
<1>. QED BY <1>1, <1>4, <1>5, <1>6, HoldersKept DEF ChallengeTickets!Issue

\* The steps that neither store nor win a challenge at most throw tickets away.
LEMMA OthersDiscard ==
    ASSUME Typed, ChallengeOnce, [Next]_vars,
           \A a \in Activations, l \in Logins : ~Wins(a, l),
           \A l \in Logins : ~LoginChallenge(l)
    PROVE  \E D \in SUBSET ChallengeTickets!Disposable : ChallengeTickets!Discard(D)
<1>. DEFINE D == {m \in Logins : ChallengeStatus(m)' # ChallengeStatus(m)}
<1>1. \A m \in D : ChallengeStatus(m) \in {"unissued", "live"} /\ ChallengeStatus(m)' = "void"
  BY StatusKeptOrVoid
<1>2. D \in SUBSET ChallengeTickets!Disposable
  BY <1>1 DEF ChallengeTickets!Disposable
<1>3. [m \in Logins |-> ChallengeStatus(m)]'
        = [m \in Logins |-> IF m \in D THEN "void"
                            ELSE [n \in Logins |-> ChallengeStatus(n)][m]]
  BY <1>1
<1>. QED BY <1>2, <1>3, HoldersKept DEF ChallengeTickets!Discard

\* Every step maps to a step of OneTimeTicket.
LEMMA ChallengeSimulation ==
    Typed /\ ChallengeOnce /\ [Next]_vars => [ChallengeTickets!Next]_(ChallengeTickets!vars)
<1>. SUFFICES ASSUME Typed, ChallengeOnce, [Next]_vars
              PROVE  ChallengeTickets!Next
  OBVIOUS
<1>1. CASE \E a \in Activations, l \in Logins : Wins(a, l)
  BY <1>1, WinRedeems DEF ChallengeTickets!Next
<1>2. CASE \E l \in Logins : LoginChallenge(l)
  BY <1>2, StoreIssues DEF ChallengeTickets!Next
<1>3. CASE /\ \A a \in Activations, l \in Logins : ~Wins(a, l)
           /\ \A l \in Logins : ~LoginChallenge(l)
  BY <1>3, OthersDiscard DEF ChallengeTickets!Next
<1>. QED BY <1>1, <1>2, <1>3

\* The initial states map to its initial state.
LEMMA ChallengeStarts == Init => ChallengeOnce /\ ChallengeTickets!Init
<1>. SUFFICES ASSUME Init PROVE ChallengeOnce /\ ChallengeTickets!Init
  OBVIOUS
<1>1. \A k \in Keys : clg[k] = Nil
  BY DEF Init
<1>2. \A a \in Activations, l \in Logins : ~WonChallenge(a, l)
  BY DEF Init, WonChallenge
<1>3. \A l \in Logins : ChallengeStatus(l) = "unissued"
  BY <1>1, <1>2 DEF Init, ChallengeStatus, ChallengeStored
<1>. QED BY <1>1, <1>2, <1>3 DEF ChallengeOnce, ChallengeTickets!Init

\* The challenge is a one-time ticket: however the requests interleave, fail or
\* overtake each other, at most one activation gets past ActivateStart with it,
\* and none once it expired, was replaced, purged or missed.
THEOREM ChallengeOneTime == Spec => ChallengeIsOneTime
BY TypedInit, TypedStep, ChallengeStarts, ChallengeOnceStep, ChallengeSimulation, PTL
   DEF Spec, ChallengeIsOneTime, ChallengeTickets!Spec

-----------------------------------------------------------------------------
(* The activation code.                                                    *)

Announced(l) == login[l].call \in {"ok", "error"}

\* A code is stored once, for a sign-in whose password was checked, and nobody
\* has won it; it was won by one activation at most.
CodeOnce ==
    /\ \A c \in CodeKeys : act[c] # Nil => Announced(act[c].of)
    /\ \A c, d \in CodeKeys : act[c] # Nil /\ act[d] # Nil /\ act[c].of = act[d].of => c = d
    /\ \A a \in Activations, l \in Logins : WonCode(a, l) =>
          activation[a].call = "ok" /\ Announced(l) /\ ~CodeStoredFor(l)
    /\ \A a, b \in Activations, l \in Logins : WonCode(a, l) /\ WonCode(b, l) => a = b

\* SignIn stores a code.
Announces(l) == SignIn(l) /\ SendsCode(login[l].req.sub)

\* The activation that wins a code in this step.
WinsCode(a, l) ==
    /\ ActivateSession(a)
    /\ ~WonCode(a, l) /\ WonCode(a, l)'
    /\ \E c \in CodeKeys : act[c] # Nil /\ act[c].of = l /\ act' = WithoutCode(c)

\* The answer of SSO Service to a sign-in is final.
LEMMA AnswerStep ==
    ASSUME Typed, [Next]_vars, NEW l \in Logins, login[l].call \notin {"none", "sent"}
    PROVE  login'[l].call = login[l].call
<1>1. login[l].pc # "idle"
  BY DEF Typed, RequestsKnown
<1>. USE DEF Typed, TypeOK, LoginState
<1>2. CASE LoginStart(l) \/ SignIn(l) \/ SignInDenied(l)
  BY <1>1, <1>2 DEF LoginStart, SignIn, SignInDenied
<1>3. CASE LoginRead(l)
  BY <1>3 DEF LoginRead
<1>4. CASE LoginChallenge(l) \/ LoginStore(l)
  BY <1>4 DEF LoginChallenge, LoginStore
<1>5. CASE LoginCallFails(l) \/ LoginFails(l)
  BY <1>5 DEF LoginCallFails, LoginFails
<1>. QED BY <1>2, <1>3, <1>4, <1>5, LoginMoves DEF LoginStep

\* What is announced stays so.
LEMMA AnnouncedStep ==
    ASSUME Typed, [Next]_vars, NEW l \in Logins, Announced(l)
    PROVE  Announced(l)'
BY AnswerStep DEF Announced

\* A code that was not there before is the one that SignIn has just stored.
LEMMA NewCode ==
    ASSUME Typed, [Next]_vars, NEW c \in CodeKeys, act'[c] # Nil, act'[c] # act[c]
    PROVE  \E l \in Logins : /\ Announces(l) /\ ~Announced(l) /\ Announced(l)'
                             /\ act'[c].of = l
<1>1. PICK l \in Logins : SignIn(l) /\ CodeStored(l, c)
  BY CodeWrites
<1>2. act'[c].of = l
  BY <1>1 DEF CodeStored, NewActivationCode
<1>. QED BY <1>1, <1>2 DEF CodeStored, Announces, Announced

\* A code is won in no other way, and never lost again.
LEMMA CodeWinnersStep ==
    ASSUME Typed, CodeOnce, [Next]_vars, NEW a \in Activations, NEW l \in Logins
    PROVE  WinsCode(a, l) \/ (WonCode(a, l)' <=> WonCode(a, l))
<1>. USE DEF Typed, TypeOK, ActivationState
<1>1. CASE ActivateSession(a)
  <2>1. ~WonCode(a, l)
    BY <1>1 DEF ActivateSession, CodeOnce
  <2>. SUFFICES ASSUME WonCode(a, l)'
                PROVE  WinsCode(a, l)
    BY <2>1
  <2>. DEFINE c == CodeKeyOf(activation[a].req)
  <2>2. c \in CodeKeys
    BY <1>1 DEF ActivateSession, RequestsKnown, ActivateRequest, CodeKeyOf, CodeKeys
  <2>3. ValidCode(c, activation[a].req.sub) /\ act[c].of = l
    BY <1>1, <2>1 DEF ActivateSession, WonCode
  <2>4. act' = WithoutCode(c)
    BY <1>1 DEF ActivateSession
  <2>. QED BY <1>1, <2>1, <2>2, <2>3, <2>4 DEF WinsCode, ValidCode
<1>2. CASE activation'[a] = activation[a]
  BY <1>2 DEF WonCode
<1>3. CASE ActivateStart(a)
  <2>1. PICK req, pc : activation' = [activation EXCEPT ![a].req = req, ![a].pc = pc]
    BY <1>3 DEF ActivateStart
  <2>. QED BY <2>1 DEF WonCode
<1>4. CASE ActivateSessionLost(a)
  BY <1>4 DEF ActivateSessionLost, WonCode
<1>5. CASE ActivateStep(a)
  BY <1>5 DEF ActivateStep, ActivateRead, ActivateStore, ActivateFails, WonCode
<1>. QED BY <1>1, <1>2, <1>3, <1>4, <1>5, ActivationMoves

\* CodeOnce is inductive.
LEMMA CodeOnceStep ==
    ASSUME Typed, AcceptedFounded, CodeOnce, [Next]_vars
    PROVE  CodeOnce'
<1>. USE DEF Typed, TypeOK
<1>1. ASSUME NEW c \in CodeKeys, act'[c] # Nil
      PROVE  Announced(act[c].of)'
  <2>1. CASE act'[c] = act[c]
    <3>1. act[c].of \in Logins /\ Announced(act[c].of)
      BY <1>1, <2>1 DEF CodeOnce, ActivationCode
    <3>2. Announced(act[c].of) => login'[act[c].of].call \in {"ok", "error"}
      BY <3>1, AnnouncedStep DEF Announced
    <3>. QED BY <2>1, <3>1, <3>2 DEF Announced
  <2>2. CASE act'[c] # act[c]
    BY <1>1, <2>2, NewCode DEF Announced
  <2>. QED BY <2>1, <2>2
<1>2. ASSUME NEW c \in CodeKeys, NEW d \in CodeKeys, act'[c] # Nil, act'[d] # Nil,
             act'[c].of = act'[d].of
      PROVE  c = d
  <2>1. CASE act'[c] = act[c] /\ act'[d] = act[d]
    BY <1>2, <2>1 DEF CodeOnce
  <2>2. ASSUME NEW x \in CodeKeys, NEW y \in CodeKeys, act'[x] # Nil, act'[y] # Nil,
               act'[x].of = act'[y].of, act'[x] # act[x]
        PROVE  x = y
    <3>1. PICK l \in Logins : Announces(l) /\ ~Announced(l) /\ act'[x].of = l
      BY <2>2, NewCode
    <3>2. PICK k : act' = [act EXCEPT ![k] = NewActivationCode(l)]
      BY <3>1 DEF Announces, SignIn
    <3>3. act'[y] # act[y]
      BY <2>2, <3>1 DEF CodeOnce
    <3>. QED BY <2>2, <3>2, <3>3
  <2>. QED BY <1>2, <2>1, <2>2
<1>3. ASSUME NEW a \in Activations, NEW l \in Logins, WonCode(a, l)'
      PROVE  activation'[a].call = "ok" /\ Announced(l)' /\ ~CodeStoredFor(l)'
  <2>1. CASE WonCode(a, l)
    <3>1. activation[a].call = "ok" /\ Announced(l) /\ ~CodeStoredFor(l)
      BY <2>1 DEF CodeOnce
    <3>2. activation'[a].call = "ok"
      BY <3>1, AcceptedStaysAccepted DEF AcceptedFounded, Accepted
    <3>3. \A c \in CodeKeys : act'[c] # Nil => act'[c].of # l
      BY <3>1, NewCode DEF CodeStoredFor
    <3>. QED BY <3>1, <3>2, <3>3, AnnouncedStep DEF CodeStoredFor
  <2>2. CASE WinsCode(a, l)
    <3>1. PICK c \in CodeKeys : act[c] # Nil /\ act[c].of = l /\ act' = WithoutCode(c)
      BY <2>2 DEF WinsCode
    <3>2. \A d \in CodeKeys : act[d] # Nil /\ act[d].of = l => d = c
      BY <3>1 DEF CodeOnce
    <3>3. \A d \in CodeKeys : act'[d] # Nil => d # c /\ act'[d] = act[d]
      BY <3>1 DEF WithoutCode
    <3>4. Announced(l)'
      BY <3>1, AnnouncedStep DEF CodeOnce
    <3>5. activation'[a].call = "ok"
      BY <2>2 DEF WinsCode, WonCode, ActivateSession, ActivationState
    <3>. QED BY <3>2, <3>3, <3>4, <3>5 DEF CodeStoredFor
  <2>. QED BY <1>3, <2>1, <2>2, CodeWinnersStep
<1>4. ASSUME NEW a \in Activations, NEW b \in Activations, NEW l \in Logins,
             WonCode(a, l)', WonCode(b, l)', a # b
      PROVE  FALSE
  <2>1. ASSUME NEW x \in Activations, NEW y \in Activations, x # y,
               WinsCode(x, l), WonCode(y, l)'
        PROVE  FALSE
    <3>1. ~WonCode(y, l)
      BY <2>1 DEF WinsCode, CodeOnce, CodeStoredFor
    <3>2. activation'[y] = activation[y]
      BY <2>1 DEF WinsCode, ActivateSession
    <3>. QED BY <2>1, <3>1, <3>2 DEF WonCode
  <2>2. WonCode(a, l) /\ WonCode(b, l)
    BY <1>4, <2>1, CodeWinnersStep
  <2>. QED BY <1>4, <2>2 DEF CodeOnce
<1>. QED BY <1>1, <1>2, <1>3, <1>4 DEF CodeOnce

\* The step in which a wins the code of l redeems that ticket, and only that.
LEMMA CodeWinRedeems ==
    ASSUME Typed, CodeOnce, [Next]_vars,
           NEW a \in Activations, NEW l \in Logins, WinsCode(a, l)
    PROVE  CodeTickets!Redeem(l, a)
<1>1. PICK c \in CodeKeys : act[c] # Nil /\ act[c].of = l /\ act' = WithoutCode(c)
  BY DEF WinsCode
<1>2. (\A b \in Activations : ~WonCode(b, l)) /\ CodeStoredFor(l)
  BY <1>1 DEF CodeOnce, CodeStoredFor
<1>3. CodeStatus(l) = "live"
  BY <1>2 DEF CodeStatus
<1>4. CodeStatus(l)' = "spent"
  BY DEF CodeStatus, WinsCode
<1>5. ASSUME NEW b \in Activations, NEW m \in Logins, b # a \/ m # l
      PROVE  WonCode(b, m)' <=> WonCode(b, m)
  <2>1. CASE b # a
    <3>1. activation'[b] = activation[b]
      BY <2>1 DEF WinsCode, ActivateSession, Typed, TypeOK
    <3>. QED BY <3>1 DEF WonCode
  <2>2. CASE b = a /\ m # l
    <3>1. activation'[a].codeOf = l
      BY DEF WinsCode, WonCode
    <3>2. ~WonCode(a, m)
      BY DEF WinsCode, ActivateSession, CodeOnce
    <3>. QED BY <2>2, <3>1, <3>2 DEF WonCode
  <2>. QED BY <1>5, <2>1, <2>2
<1>6. ASSUME NEW m \in Logins, m # l
      PROVE  CodeStatus(m)' = CodeStatus(m)
  <2>1. (\E b \in Activations : WonCode(b, m)') <=> (\E b \in Activations : WonCode(b, m))
    BY <1>5, <1>6
  <2>2. CodeStoredFor(m)' <=> CodeStoredFor(m)
    BY <1>1, <1>6 DEF CodeStoredFor, WithoutCode, Typed, TypeOK
  <2>3. login' = login
    BY DEF WinsCode, ActivateSession
  <2>. QED BY <2>1, <2>2, <2>3 DEF CodeStatus
<1>7. [m \in Logins |-> CodeStatus(m)]'
        = [[m \in Logins |-> CodeStatus(m)] EXCEPT ![l] = "spent"]
  BY <1>4, <1>6
<1>8. {b \in Activations : WonCode(b, l)}' = {a}
  <2>1. \A b \in Activations : WonCode(b, l)' <=> b = a
    BY <1>2, <1>5 DEF WinsCode
  <2>. QED BY <2>1
<1>9. [m \in Logins |-> {b \in Activations : WonCode(b, m)}]'
        = [[m \in Logins |-> {b \in Activations : WonCode(b, m)}] EXCEPT ![l] = {a}]
  <2>1. \A m \in Logins : m # l => {b \in Activations : WonCode(b, m)}'
                                    = {b \in Activations : WonCode(b, m)}
    BY <1>5
  <2>. QED BY <1>8, <2>1
<1>. QED BY <1>3, <1>7, <1>9 DEF CodeTickets!Redeem

\* Without a winner, the holders of all tickets are what they were.
LEMMA CodeHoldersKept ==
    ASSUME Typed, CodeOnce, [Next]_vars, \A a \in Activations, l \in Logins : ~WinsCode(a, l)
    PROVE  /\ \A l \in Logins : (\E a \in Activations : WonCode(a, l)')
                                  <=> (\E a \in Activations : WonCode(a, l))
           /\ [l \in Logins |-> {a \in Activations : WonCode(a, l)}]'
                = [l \in Logins |-> {a \in Activations : WonCode(a, l)}]
<1>1. \A a \in Activations, l \in Logins : WonCode(a, l)' <=> WonCode(a, l)
  BY CodeWinnersStep
<1>. QED BY <1>1

\* Then a ticket either keeps its status or becomes useless, unless its code is
\* being stored.
LEMMA CodeKeptOrVoid ==
    ASSUME Typed, CodeOnce, [Next]_vars, NEW l \in Logins,
           \A a \in Activations, m \in Logins : ~WinsCode(a, m), ~Announces(l)
    PROVE  \/ CodeStatus(l)' = CodeStatus(l)
           \/ CodeStatus(l) \in {"unissued", "live"} /\ CodeStatus(l)' = "void"
<1>1. (\E a \in Activations : WonCode(a, l)') <=> (\E a \in Activations : WonCode(a, l))
  BY CodeHoldersKept
<1>2. CodeStoredFor(l)' => CodeStoredFor(l)
  BY NewCode DEF CodeStoredFor
<1>3. CodeStoredFor(l) => login[l].call \notin {"none", "sent"}
  BY DEF CodeStoredFor, CodeOnce, Announced
<1>4. login[l].call \notin {"none", "sent"} => login'[l].call \notin {"none", "sent"}
  BY AnswerStep
<1>. QED BY <1>1, <1>2, <1>3, <1>4 DEF CodeStatus

\* Storing a code issues its ticket; what it overwrites is void.
LEMMA SignInIssues ==
    ASSUME Typed, CodeOnce, [Next]_vars, NEW l \in Logins, Announces(l)
    PROVE  \E D \in SUBSET CodeTickets!Disposable : CodeTickets!Issue(l, D)
<1>. DEFINE D == {m \in Logins \ {l} : CodeStatus(m)' # CodeStatus(m)}
<1>1. \A a \in Activations, m \in Logins : ~WinsCode(a, m)
  BY DEF Announces, SignIn, WinsCode, ActivateSession, WonCode
<1>2. login[l].call = "sent" /\ ~Announced(l) /\ login[l].req \in LoginRequest
  BY DEF Announces, SignIn, Announced, Typed, RequestsKnown
<1>3. PICK code \in Codes, reply \in {"ok", "error"} :
        /\ act' = [act EXCEPT ![<<login[l].req.sid, code, login[l].req.agent>>] =
                                 NewActivationCode(l)]
        /\ login' = [login EXCEPT ![l].call = reply]
  BY DEF Announces, SignIn
<1>4. \A m \in Logins : m # l => ~Announces(m)
  <2>. SUFFICES ASSUME NEW m \in Logins, m # l, SignIn(m)
                PROVE  FALSE
    BY DEF Announces
  <2>1. login'[m] = login[m]
    BY <1>3 DEF Typed, TypeOK
  <2>2. login[m].call = "sent" /\ login'[m].call # "sent"
    BY DEF SignIn, Typed, TypeOK, LoginState
  <2>. QED BY <2>1, <2>2
<1>5. \A m \in D : CodeStatus(m) \in {"unissued", "live"} /\ CodeStatus(m)' = "void"
  BY <1>1, <1>4, CodeKeptOrVoid
<1>6. CodeStatus(l) = "unissued" /\ CodeStatus(l)' = "live"
  <2>1. (\A a \in Activations : ~WonCode(a, l)) /\ ~CodeStoredFor(l)
    BY <1>2 DEF CodeOnce, CodeStoredFor
  <2>2. \A a \in Activations : ~WonCode(a, l)'
    BY <1>1, <2>1, CodeHoldersKept
  <2>. DEFINE c == <<login[l].req.sid, code, login[l].req.agent>>
  <2>3. c \in CodeKeys
    BY <1>2 DEF CodeKeys, LoginRequest
  <2>4. act'[c] = NewActivationCode(l)
    BY <1>3, <2>3 DEF Typed, TypeOK
  <2>5. NewActivationCode(l) \in ActivationCode
    <3>1. Deadline(MFASessionDuration) \in Nat
      BY DeadlineType, DurationAssumption DEF Typed, TypeOK
    <3>. QED BY <1>2, <3>1 DEF NewActivationCode, ActivationCode, LoginRequest
  <2>6. NewActivationCode(l).of = l
    BY DEF NewActivationCode
  <2>7. CodeStoredFor(l)'
    BY <2>3, <2>4, <2>5, <2>6, NilRecordAssumption DEF CodeStoredFor
  <2>. QED BY <1>2, <2>1, <2>2, <2>7 DEF CodeStatus
<1>7. D \in SUBSET CodeTickets!Disposable
  BY <1>5 DEF CodeTickets!Disposable
<1>8. [m \in Logins |-> CodeStatus(m)]'
        = [m \in Logins |-> CASE m = l -> "live"
                              [] m \in D \ {l} -> "void"
                              [] OTHER -> [n \in Logins |-> CodeStatus(n)][m]]
  BY <1>5, <1>6
<1>. QED BY <1>1, <1>6, <1>7, <1>8, CodeHoldersKept DEF CodeTickets!Issue

\* The steps that neither store nor win a code at most throw tickets away.
LEMMA CodeOthersDiscard ==
    ASSUME Typed, CodeOnce, [Next]_vars,
           \A a \in Activations, l \in Logins : ~WinsCode(a, l),
           \A l \in Logins : ~Announces(l)
    PROVE  \E D \in SUBSET CodeTickets!Disposable : CodeTickets!Discard(D)
<1>. DEFINE D == {m \in Logins : CodeStatus(m)' # CodeStatus(m)}
<1>1. \A m \in D : CodeStatus(m) \in {"unissued", "live"} /\ CodeStatus(m)' = "void"
  BY CodeKeptOrVoid
<1>2. D \in SUBSET CodeTickets!Disposable
  BY <1>1 DEF CodeTickets!Disposable
<1>3. [m \in Logins |-> CodeStatus(m)]'
        = [m \in Logins |-> IF m \in D THEN "void"
                            ELSE [n \in Logins |-> CodeStatus(n)][m]]
  BY <1>1
<1>. QED BY <1>2, <1>3, CodeHoldersKept DEF CodeTickets!Discard

\* Every step maps to a step of OneTimeTicket.
LEMMA CodeSimulation ==
    Typed /\ CodeOnce /\ [Next]_vars => [CodeTickets!Next]_(CodeTickets!vars)
<1>. SUFFICES ASSUME Typed, CodeOnce, [Next]_vars
              PROVE  CodeTickets!Next
  OBVIOUS
<1>1. CASE \E a \in Activations, l \in Logins : WinsCode(a, l)
  BY <1>1, CodeWinRedeems DEF CodeTickets!Next
<1>2. CASE \E l \in Logins : Announces(l)
  BY <1>2, SignInIssues DEF CodeTickets!Next
<1>3. CASE /\ \A a \in Activations, l \in Logins : ~WinsCode(a, l)
           /\ \A l \in Logins : ~Announces(l)
  BY <1>3, CodeOthersDiscard DEF CodeTickets!Next
<1>. QED BY <1>1, <1>2, <1>3

\* The initial states map to its initial state.
LEMMA CodeStarts == Init => CodeOnce /\ CodeTickets!Init
<1>. SUFFICES ASSUME Init PROVE CodeOnce /\ CodeTickets!Init
  OBVIOUS
<1>1. \A c \in CodeKeys : act[c] = Nil
  BY DEF Init
<1>2. \A a \in Activations, l \in Logins : ~WonCode(a, l)
  BY NilAssumption DEF Init, WonCode
<1>3. \A l \in Logins : CodeStatus(l) = "unissued"
  BY <1>1, <1>2 DEF Init, CodeStatus, CodeStoredFor
<1>. QED BY <1>1, <1>2, <1>3 DEF CodeOnce, CodeTickets!Init

\* The activation code is a one-time ticket: however many sign-ins of a session
\* have a code each, and whether or not two of them drew the same digits, a code
\* activates once, for the sign-in it was sent for, or never.
THEOREM CodeOneTime == Spec => CodeIsOneTime
<1>1. Init => IInv /\ CodeOnce /\ CodeTickets!Init
  BY IInvInit, CodeStarts
<1>2. IInv /\ CodeOnce /\ [Next]_vars => IInv' /\ CodeOnce'
  BY IInvStep, CodeOnceStep DEF IInv
<1>3. IInv /\ CodeOnce /\ [Next]_vars => [CodeTickets!Next]_(CodeTickets!vars)
  BY CodeSimulation DEF IInv
<1>. QED BY <1>1, <1>2, <1>3, PTL DEF Spec, CodeIsOneTime, CodeTickets!Spec
=============================================================================
