-------------------------- MODULE AccessTokens_proofs --------------------------
(***************************************************************************)
(* Proofs about keys, tokens and sessions, for all values of the           *)
(* constants.                                                              *)
(***************************************************************************)
EXTENDS AccessProperties, WellFoundedInduction, TLAPS

-----------------------------------------------------------------------------
(* The loop over the groups of scopes.                                     *)

\* The flag after the loop is set if there are groups and no group is satisfied.  There is a
\* function as the recursion asks for, and the least index shows that it is the only one.
LEMMA LackingMeans ==
    ASSUME NEW groups \in Seq(SUBSET Scopes), NEW scopes
    PROVE  Lacking(groups, scopes) <=>
             groups # <<>> /\ \A i \in DOMAIN groups : ~(groups[i] \subseteq scopes)
<1>. DEFINE n == Len(groups)
            lacks(i) == ~(groups[i] \subseteq scopes)
            Step(f) == [i \in 0..n |-> IF i = 0 THEN FALSE
                                       ELSE IF i > 1 /\ ~f[i - 1] THEN FALSE
                                       ELSE lacks(i)]
            invalid == CHOOSE f : f = Step(f)
            none == [i \in 0..n |-> i > 0 /\ \A j \in 1..i : lacks(j)]
<1>1. Lacking(groups, scopes) <=> invalid[n]
  BY DEF Lacking
<1>2. n \in Nat /\ DOMAIN groups = 1..n /\ (groups = <<>> <=> n = 0)
  OBVIOUS
<1>. HIDE DEF n, lacks
<1>3. none = Step(none)
  <2>1. ASSUME NEW i \in 0..n
        PROVE  none[i] <=> IF i = 0 THEN FALSE
                           ELSE IF i > 1 /\ ~none[i - 1] THEN FALSE ELSE lacks(i)
    <3>0. \A k \in 0..n : none[k] <=> k > 0 /\ \A j \in 1..k : lacks(j)
      BY Zenon
    <3>. HIDE DEF none
    <3>1. CASE i = 0
      BY <3>0, <3>1
    <3>2. CASE i = 1
      BY <3>0, <3>2
    <3>3. CASE i > 1
      <4>1. i - 1 \in 0..n /\ i - 1 > 0 /\ 1..i = (1..(i - 1)) \cup {i}
        BY <3>3, <1>2
      <4>. QED BY <4>1, <3>3, <3>0
    <3>. QED BY <3>1, <3>2, <3>3, <1>2
  <2>2. none = [i \in 0..n |-> none[i]]
    BY Zenon
  <2>3. \A i \in 0..n : none[i] \in BOOLEAN
    BY Zenon
  <2>. HIDE DEF none
  <2>4. ASSUME NEW i \in 0..n
        PROVE  none[i] = IF i = 0 THEN FALSE
                         ELSE IF i > 1 /\ ~none[i - 1] THEN FALSE ELSE lacks(i)
    BY <2>1, <2>3 DEF lacks
  <2>. QED BY <2>2, <2>4, Zenon
<1>4. invalid = Step(invalid)
  <2>. HIDE DEF Step, none
  <2>. QED BY <1>3
<1>5. \A i \in 0..n : invalid[i] = none[i]
  <2>. HIDE DEF invalid, none
  <2>1. SUFFICES ASSUME NEW k \in 0..n, invalid[k] # none[k]
                 PROVE  FALSE
    OBVIOUS
  <2>. DEFINE T == {i \in 0..n : invalid[i] # none[i]}
  <2>2. PICK i \in T : \A j \in T : <<j, i>> \notin OpToRel(<, Nat)
    <3>1. T \subseteq Nat /\ T # {}
      BY <2>1, <1>2
    <3>. HIDE DEF T
    <3>. QED BY <3>1, NatLessThanWellFounded, WFMin
  <2>3. \A j \in 0..n : j < i => invalid[j] = none[j]
    <3>1. ASSUME NEW j \in T, j < i
          PROVE  <<j, i>> \in OpToRel(<, Nat)
      BY <3>1, <2>2, <1>2 DEF OpToRel
    <3>. QED BY <3>1, <2>2
  <2>4. invalid[i] = none[i]
    <3>1. invalid[i] = Step(invalid)[i] /\ none[i] = Step(none)[i]
      BY <1>3, <1>4
    <3>2. i \in 0..n
      BY <2>2
    <3>3. i > 1 => i - 1 \in 0..n /\ i - 1 < i
      BY <3>2, <1>2
    <3>. QED BY <3>1, <3>2, <3>3, <2>3, <1>2
  <2>. QED BY <2>2, <2>4
<1>6. none[n] <=> n > 0 /\ \A j \in 1..n : lacks(j)
  <2>1. n \in 0..n
    BY <1>2
  <2>. QED BY <2>1, Zenon
<1>. HIDE DEF invalid, none
<1>7. invalid[n] = none[n]
  BY <1>5, <1>2
<1>. QED BY <1>1, <1>2, <1>6, <1>7 DEF lacks

-----------------------------------------------------------------------------
(* The inductive invariant.                                                *)

\* A key of a process, or of a token: with a key file there is no other than the file's.
MayHold(key) == key \in Keys /\ (keyFile => key = FileKey)

KeysHeld ==
    /\ \A p \in Providers : provider[p] # Nil => MayHold(provider[p])
    /\ \A m \in Managers : manager[m] # Nil => MayHold(manager[m])

TokensSigned == \A token \in issued : token.tenant = TenantOf[token.by] /\ MayHold(token.kid)

\* A call carries a token that was signed, and its slug is that of the moment when it
\* was validated.
CallKnown(x) ==
    /\ call[x].token # Nil => call[x].token \in issued
    /\ call[x].pc # "idle" => call[x].op \in Operations
    /\ call[x].pc # "done" => call[x].slug = Nil
    /\ call[x].pc = "done" =>
         /\ MayHold(call[x].loaded)
         /\ (call[x].slug = "OK") <=>
              /\ call[x].token # Nil /\ call[x].token.kid = call[x].loaded
              /\ Entitled(call[x].op, call[x].token) /\ Timely(x)

\* A refresh presents a token that was signed, and is invalid by the key that its
\* provider had.
RefreshKnown(x) ==
    refresh[x].pc # "idle" =>
        /\ refresh[x].token \in issued /\ refresh[x].by \in Providers
        /\ MayHold(refresh[x].key)
        /\ (refresh[x].pc = "invalid") =>
              \/ refresh[x].client # refresh[x].token.client
              \/ TenantOf[refresh[x].by] # refresh[x].token.tenant
              \/ refresh[x].key # refresh[x].token.kid

IInv ==
    /\ TypeOK /\ KeysHeld /\ TokensSigned
    /\ \A x \in Calls : CallKnown(x)
    /\ \A x \in Refreshes : RefreshKnown(x)

\* The initial state satisfies the invariant.
LEMMA Initially == Init => IInv
BY AccessTokenAssumption, AccessNilAssumption
   DEF Init, IInv, TypeOK, KeysHeld, TokensSigned, CallKnown, RefreshKnown, CallState,
       RefreshState

\* The fingerprint and the signer replace what the claims had there.
LEMMA SignedFields ==
    ASSUME NEW p, NEW kind, NEW kid, NEW by, NEW tenant, NEW client, NEW scopes, NEW exp
    PROVE  Signed(p, [kind |-> kind, kid |-> kid, by |-> by, tenant |-> tenant,
                      client |-> client, scopes |-> scopes, exp |-> exp])
             = [kind |-> kind, kid |-> provider[p], by |-> p, tenant |-> tenant,
                client |-> client, scopes |-> scopes, exp |-> exp]
<1>. DEFINE claims == [kind |-> kind, kid |-> kid, by |-> by, tenant |-> tenant,
                       client |-> client, scopes |-> scopes, exp |-> exp]
            mid == [claims EXCEPT !.kid = provider[p]]
            new == [claims EXCEPT !.kid = provider[p], !.by = p]
<1>1. mid = [kind |-> kind, kid |-> provider[p], by |-> by, tenant |-> tenant,
             client |-> client, scopes |-> scopes, exp |-> exp]
  OBVIOUS
<1>2. new = [mid EXCEPT !.by = p] /\ Signed(p, claims) = new
  BY DEF Signed
<1>. HIDE DEF mid, new
<1>. QED BY <1>1, <1>2

\* What is signed is a token of the signer's key, for the tenant of the claims.
LEMMA SignedToken ==
    ASSUME NEW p \in Providers, provider[p] \in Keys, NEW kind \in {"access", "refresh"},
           NEW tenant \in Tenants, NEW client \in Clients, NEW scopes \in SUBSET Scopes,
           NEW exp \in Nat,
           NEW token, token = Signed(p, Claims(kind, tenant, client, scopes, exp))
    PROVE  token \in Token /\ token.by = p /\ token.kid = provider[p] /\ token.tenant = tenant
<1>1. token = [kind |-> kind, kid |-> provider[p], by |-> p, tenant |-> tenant,
               client |-> client, scopes |-> scopes, exp |-> exp]
  BY SignedFields DEF Claims
<1>. QED BY <1>1 DEF Token

\* The claims that a refresh copies are signed as new ones would be.
LEMMA CopiedClaims ==
    ASSUME NEW p, NEW old \in Token, NEW exp
    PROVE  Signed(p, [old EXCEPT !.kind = "access", !.exp = exp])
             = Signed(p, Claims("access", old.tenant, old.client, old.scopes, exp))
<1>1. old = [kind |-> old.kind, kid |-> old.kid, by |-> old.by, tenant |-> old.tenant,
             client |-> old.client, scopes |-> old.scopes, exp |-> old.exp]
  BY DEF Token
<1>. DEFINE mid == [old EXCEPT !.kind = "access"]
            copy == [old EXCEPT !.kind = "access", !.exp = exp]
<1>2. mid = [kind |-> "access", kid |-> old.kid, by |-> old.by, tenant |-> old.tenant,
             client |-> old.client, scopes |-> old.scopes, exp |-> old.exp]
  BY <1>1
<1>3. copy = [mid EXCEPT !.exp = exp]
  OBVIOUS
<1>. HIDE DEF mid, copy
<1>4. copy = [kind |-> "access", kid |-> old.kid, by |-> old.by, tenant |-> old.tenant,
              client |-> old.client, scopes |-> old.scopes, exp |-> exp]
  BY <1>2, <1>3
<1>. DEFINE new == [kind |-> "access", kid |-> provider[p], by |-> p, tenant |-> old.tenant,
                    client |-> old.client, scopes |-> old.scopes, exp |-> exp]
<1>5. Signed(p, copy) = new
  BY <1>4, SignedFields
<1>6. Signed(p, Claims("access", old.tenant, old.client, old.scopes, exp)) = new
  BY SignedFields DEF Claims
<1>. QED BY <1>5, <1>6 DEF copy

\* The record of a call has its type if its fields have theirs.
LEMMA CallFields ==
    ASSUME NEW pc \in {"idle", "sent", "done"}, NEW op \in Operations \cup {Nil},
           NEW token \in Token \cup {Nil}, NEW timestamp \in Nat,
           NEW loaded \in Keys \cup {Nil}, NEW time \in Nat,
           NEW slug \in SessionSlugs \cup {"internal server error", Nil}
    PROVE  [pc |-> pc, op |-> op, token |-> token, timestamp |-> timestamp,
            loaded |-> loaded, time |-> time, slug |-> slug] \in CallState
BY DEF CallState

\* The slug is OK if and only if the call is entitled, in time and signed with the key.
LEMMA SlugMeans ==
    ASSUME IInv, NEW x \in Calls, NEW key \in Keys, call[x].pc = "sent"
    PROVE  /\ SessionSlug(x, key) \in SessionSlugs \cup {"internal server error"}
           /\ (SessionSlug(x, key) = "OK") <=>
                /\ call[x].token # Nil /\ InTime(x) /\ call[x].token.kid = key
                /\ Entitled(call[x].op, call[x].token)
<1>. DEFINE groups == RequiredScopes[call[x].op]
            scopes == call[x].token.scopes
<1>1. groups \in Seq(SUBSET Scopes)
  BY AccessTokenAssumption DEF IInv, CallKnown
<1>2. Lacking(groups, scopes) <=>
        groups # <<>> /\ \A i \in DOMAIN groups : ~(groups[i] \subseteq scopes)
  BY <1>1, LackingMeans
<1>3. Entitled(call[x].op, call[x].token) <=>
        /\ call[x].token.tenant \in AllowedTenants /\ call[x].token.client = Audience
        /\ ~Lacking(groups, scopes)
  BY <1>2 DEF Entitled
<1>. QED BY <1>3 DEF SessionSlug, SessionSlugs, Decodes

-----------------------------------------------------------------------------
(* Every step keeps the invariant.                                         *)

\* Calls and refreshes stay known while tokens are added and time goes on.
LEMMA RequestsKept ==
    ASSUME IInv, keyFile' = keyFile, issued \subseteq issued'
    PROVE  /\ \A x \in Calls : call'[x] = call[x] => CallKnown(x)'
           /\ \A x \in Refreshes : refresh'[x] = refresh[x] => RefreshKnown(x)'
BY DEF IInv, CallKnown, RefreshKnown, MayHold, Entitled, Timely

\* The state of processes and tokens is unchanged.
Quiet == UNCHANGED <<keyFile, starts, provider, manager, issued>>

LEMMA QuietKept ==
    ASSUME IInv, Quiet
    PROVE  (KeysHeld /\ TokensSigned)'
BY DEF IInv, Quiet, KeysHeld, TokensSigned, MayHold

LEMMA ProviderStarts ==
    ASSUME IInv, NEW p \in Providers, StartProvider(p) \/ StopProvider(p)
    PROVE  (TypeOK /\ KeysHeld /\ TokensSigned)'
<1>. USE AccessTokenAssumption, AccessNilAssumption
     DEF IInv, TypeOK, KeysHeld, TokensSigned, MayHold
<1>1. CASE StartProvider(p)
  <2>1. SigningKey \in Keys /\ (keyFile => SigningKey = FileKey)
    BY <1>1 DEF StartProvider, SigningKey, FileKey, Keys
  <2>. QED BY <1>1, <2>1 DEF StartProvider
<1>2. CASE StopProvider(p)
  BY <1>2 DEF StopProvider
<1>. QED BY <1>1, <1>2

\* A manager loads a key that a provider has published.
LEMMA ManagerStarts ==
    ASSUME IInv, NEW m \in Managers, StartManager(m) \/ StopManager(m)
    PROVE  (TypeOK /\ KeysHeld /\ TokensSigned)'
<1>. USE AccessTokenAssumption, AccessNilAssumption
     DEF IInv, TypeOK, KeysHeld, TokensSigned, MayHold
<1>1. CASE StartManager(m)
  BY <1>1 DEF StartManager, Published
<1>2. CASE StopManager(m)
  BY <1>2 DEF StopManager
<1>. QED BY <1>1, <1>2

\* New tokens are well typed and signed for the tenant of their provider: those of an
\* exchange by its provider's configuration, those of a refresh because the old token is
\* of the provider's own tenant.
LEMMA TokensGrow ==
    ASSUME IInv, NEW p \in Providers,
           Exchange(p) \/ \E x \in Refreshes : Refresh(x, p)
    PROVE  (TokensSigned /\ KeysHeld)' /\ issued' \subseteq Token /\ issued \subseteq issued'
<1>. USE AccessTokenAssumption
<1>1. provider[p] \in Keys /\ MayHold(provider[p]) /\ TenantOf[p] \in Tenants
  BY DEF IInv, TypeOK, KeysHeld, Exchange, Refresh
<1>2. UNCHANGED processes
  BY DEF Exchange, Refresh
<1>3. KeysHeld'
  BY <1>2 DEF IInv, KeysHeld, MayHold, processes
<1>4. ASSUME NEW token \in issued'
      PROVE  /\ token \in Token
             /\ token \in issued \/ (token.tenant = TenantOf[token.by] /\ MayHold(token.kid))
  <2>1. CASE token \in issued
    BY <2>1 DEF IInv, TypeOK
  <2>2. CASE Exchange(p) /\ token \notin issued
    <3>1. PICK client \in Clients, scopes \in SUBSET Scopes :
            \/ token = Signed(p, Claims("refresh", TenantOf[p], client, scopes, now + RefreshTokenDuration))
            \/ token = Signed(p, Claims("access", TenantOf[p], client, scopes, now + AccessTokenDuration))
      BY <2>2 DEF Exchange
    <3>2. now + RefreshTokenDuration \in Nat /\ now + AccessTokenDuration \in Nat
      BY DEF IInv, TypeOK
    <3>3. token \in Token /\ token.by = p /\ token.kid = provider[p] /\ token.tenant = TenantOf[p]
      BY <1>1, <3>1, <3>2, SignedToken
    <3>. QED BY <1>1, <3>3
  <2>3. CASE (\E x \in Refreshes : Refresh(x, p)) /\ token \notin issued
    <3>1. PICK old \in issued, client \in Clients :
            /\ Own(p, client, old)
            /\ token = Signed(p, [old EXCEPT !.kind = "access", !.exp = now + AccessTokenDuration])
      BY <2>3 DEF Refresh
    <3>2. now + AccessTokenDuration \in Nat /\ old \in Token
      BY DEF IInv, TypeOK
    <3>3. /\ old.tenant \in Tenants /\ old.client \in Clients /\ old.scopes \in SUBSET Scopes
      BY <3>2 DEF Token
    <3>4. token = Signed(p, Claims("access", old.tenant, old.client, old.scopes,
                                   now + AccessTokenDuration))
      BY <3>1, <3>2, CopiedClaims
    <3>5. token \in Token /\ token.by = p /\ token.kid = provider[p] /\ token.tenant = old.tenant
      BY <1>1, <3>2, <3>3, <3>4, SignedToken
    <3>. QED BY <1>1, <3>1, <3>5 DEF Own
  <2>. QED BY <2>1, <2>2, <2>3
<1>5. issued \subseteq issued'
  BY DEF Exchange, Refresh
<1>6. TokensSigned'
  BY <1>2, <1>4 DEF IInv, TokensSigned, MayHold, processes
<1>. QED BY <1>3, <1>4, <1>5, <1>6

LEMMA ExchangeStep ==
    ASSUME IInv, NEW p \in Providers, Exchange(p)
    PROVE  IInv'
<1>1. (TokensSigned /\ KeysHeld)' /\ issued' \subseteq Token /\ issued \subseteq issued'
  BY TokensGrow
<1>2. UNCHANGED <<now, keyFile, starts, provider, manager, call, refresh>>
  BY DEF Exchange, processes
<1>3. TypeOK'
  BY <1>1, <1>2 DEF IInv, TypeOK
<1>. QED BY <1>1, <1>2, <1>3, RequestsKept DEF IInv

LEMMA RefreshStep ==
    ASSUME IInv, NEW x \in Refreshes, NEW p \in Providers, Refresh(x, p)
    PROVE  IInv'
<1>1. (TokensSigned /\ KeysHeld)' /\ issued' \subseteq Token /\ issued \subseteq issued'
  BY TokensGrow
<1>2. UNCHANGED <<now, keyFile, starts, provider, manager, call>>
  BY DEF Refresh, processes
<1>3. provider[p] \in Keys /\ MayHold(provider[p])
  BY DEF IInv, TypeOK, KeysHeld, Refresh
<1>4. PICK token \in issued, client \in Clients, pc \in {"done", "forbidden", "invalid"} :
        /\ (pc = "invalid") <=> ~Own(p, client, token)
        /\ refresh' = [refresh EXCEPT ![x] =
              [pc |-> pc, token |-> token, by |-> p, key |-> provider[p], client |-> client]]
  BY DEF Refresh
<1>5. refresh'[x] = [pc |-> pc, token |-> token, by |-> p, key |-> provider[p], client |-> client]
  BY <1>4 DEF IInv, TypeOK
<1>6. TypeOK'
  BY <1>1, <1>2, <1>3, <1>4 DEF IInv, TypeOK, RefreshState
<1>7. RefreshKnown(x)'
  BY <1>1, <1>2, <1>3, <1>4, <1>5 DEF RefreshKnown, MayHold, Own, Decodes
<1>8. \A y \in Refreshes : y # x => refresh'[y] = refresh[y]
  BY <1>4 DEF IInv, TypeOK
<1>. QED BY <1>1, <1>2, <1>6, <1>7, <1>8, RequestsKept DEF IInv

LEMMA SendStep ==
    ASSUME IInv, NEW x \in Calls, Send(x)
    PROVE  IInv'
<1>. USE AccessTokenAssumption
<1>1. PICK op \in Operations, token \in issued \cup {Nil}, timestamp \in 0..MaxTime :
        call' = [call EXCEPT ![x] = [@ EXCEPT !.pc = "sent", !.op = op, !.token = token,
                                              !.timestamp = timestamp]]
  BY DEF Send
<1>2. UNCHANGED <<now, keyFile, starts, provider, manager, issued, refresh>> /\ call[x].pc = "idle"
  BY DEF Send, processes
<1>3. call[x] \in CallState /\ token \in Token \cup {Nil}
  BY DEF IInv, TypeOK
<1>4. call'[x] = [pc |-> "sent", op |-> op, token |-> token, timestamp |-> timestamp,
                  loaded |-> call[x].loaded, time |-> call[x].time, slug |-> call[x].slug]
  BY <1>1, <1>3 DEF IInv, TypeOK, CallState
<1>5. call'[x] \in CallState
  <2>1. /\ op \in Operations \cup {Nil} /\ call[x].time \in Nat
        /\ call[x].loaded \in Keys \cup {Nil}
        /\ call[x].slug \in SessionSlugs \cup {"internal server error", Nil}
    BY <1>3 DEF CallState
  <2>2. timestamp \in Nat
    OBVIOUS
  <2>3. [pc |-> "sent", op |-> op, token |-> token, timestamp |-> timestamp,
         loaded |-> call[x].loaded, time |-> call[x].time, slug |-> call[x].slug]
          \in CallState
    BY <1>3, <2>1, <2>2, CallFields
  <2>. QED BY <1>4, <2>3
<1>6. \A y \in Calls : y # x => call'[y] = call[y]
  BY <1>1 DEF IInv, TypeOK
<1>7. TypeOK'
  BY <1>1, <1>2, <1>5, <1>6 DEF IInv, TypeOK
<1>8. CallKnown(x)'
  BY <1>2, <1>4 DEF IInv, CallKnown
<1>. QED BY <1>2, <1>6, <1>7, <1>8, RequestsKept, QuietKept DEF IInv, Quiet

LEMMA ValidateStep ==
    ASSUME IInv, NEW x \in Calls, NEW m \in Managers, Validate(x, m)
    PROVE  IInv'
<1>. DEFINE key == manager[m]
<1>1. key \in Keys /\ MayHold(key) /\ call[x].pc = "sent"
  BY DEF IInv, TypeOK, KeysHeld, Validate
<1>2. UNCHANGED <<now, keyFile, starts, provider, manager, issued, refresh>>
  BY DEF Validate, processes
<1>3. call[x] \in CallState
  BY DEF IInv, TypeOK
<1>4. call'[x] = [pc |-> "done", op |-> call[x].op, token |-> call[x].token,
                  timestamp |-> call[x].timestamp, loaded |-> key, time |-> now,
                  slug |-> SessionSlug(x, key)]
  BY <1>3 DEF IInv, TypeOK, CallState, Validate
<1>. HIDE DEF key
<1>5. call'[x] \in CallState
  <2>1. /\ call[x].op \in Operations \cup {Nil} /\ call[x].token \in Token \cup {Nil}
        /\ call[x].timestamp \in Nat /\ now \in Nat /\ key \in Keys \cup {Nil}
    BY <1>1, <1>3 DEF IInv, TypeOK, CallState
  <2>2. SessionSlug(x, key) \in SessionSlugs \cup {"internal server error", Nil}
    BY <1>1, SlugMeans
  <2>3. [pc |-> "done", op |-> call[x].op, token |-> call[x].token,
         timestamp |-> call[x].timestamp, loaded |-> key, time |-> now,
         slug |-> SessionSlug(x, key)] \in CallState
    BY <2>1, <2>2, CallFields
  <2>. QED BY <1>4, <2>3
<1>6. \A y \in Calls : y # x => call'[y] = call[y]
  BY DEF IInv, TypeOK, Validate
<1>7. TypeOK'
  BY <1>2, <1>5, <1>6 DEF IInv, TypeOK, Validate
<1>8. CallKnown(x)'
  <2>0. /\ call'[x].timestamp = call[x].timestamp /\ call'[x].time = now
        /\ call'[x].token = call[x].token /\ call'[x].op = call[x].op
        /\ call'[x].loaded = key /\ call'[x].slug = SessionSlug(x, key)
        /\ call'[x].pc = "done"
    BY <1>4
  <2>1. Timely(x)' <=> InTime(x)
    <3>1. call[x].timestamp \in Nat /\ now \in Nat /\ TimestampPastToleration \in Int
      BY <1>3, AccessTokenAssumption DEF IInv, TypeOK, CallState
    <3>. QED BY <2>0, <3>1 DEF Timely, InTime
  <2>2. Entitled(call[x].op, call[x].token)' <=> Entitled(call[x].op, call[x].token)
    BY <2>0 DEF Entitled
  <2>3. (call'[x].slug = "OK") <=>
          /\ call'[x].token # Nil /\ Timely(x)' /\ call'[x].token.kid = call'[x].loaded
          /\ Entitled(call[x].op, call[x].token)'
    BY <1>1, <2>0, <2>1, <2>2, SlugMeans
  <2>4. MayHold(call[x].loaded)'
    BY <1>1, <1>2, <2>0 DEF MayHold
  <2>5. /\ call'[x].token # Nil => call'[x].token \in issued'
        /\ call'[x].op \in Operations
    BY <1>1, <1>2, <2>0 DEF IInv, CallKnown
  <2>. QED BY <2>0, <2>3, <2>4, <2>5 DEF CallKnown
<1>. QED BY <1>2, <1>6, <1>7, <1>8, RequestsKept, QuietKept DEF IInv, Quiet

\* Every step keeps the invariant.
LEMMA Preserved == IInv /\ [Next]_vars => IInv'
<1>. SUFFICES ASSUME IInv, [Next]_vars
              PROVE  IInv'
  OBVIOUS
<1>1. CASE Tick
  <2>1. UNCHANGED <<keyFile, starts, provider, manager, issued, call, refresh>>
    BY <1>1 DEF Tick, processes
  <2>2. TypeOK'
    BY <1>1, <2>1 DEF IInv, TypeOK, Tick
  <2>. QED BY <2>1, <2>2, RequestsKept, QuietKept DEF IInv, Quiet
<1>2. ASSUME NEW p \in Providers, StartProvider(p) \/ StopProvider(p)
      PROVE  IInv'
  <2>1. UNCHANGED <<keyFile, issued, call, refresh>>
    BY <1>2 DEF StartProvider, StopProvider
  <2>2. (TypeOK /\ KeysHeld /\ TokensSigned)'
    BY <1>2, ProviderStarts
  <2>. QED BY <2>1, <2>2, RequestsKept DEF IInv
<1>3. ASSUME NEW m \in Managers, StartManager(m) \/ StopManager(m)
      PROVE  IInv'
  <2>1. UNCHANGED <<keyFile, issued, call, refresh>>
    BY <1>3 DEF StartManager, StopManager
  <2>2. (TypeOK /\ KeysHeld /\ TokensSigned)'
    BY <1>3, ManagerStarts
  <2>. QED BY <2>1, <2>2, RequestsKept DEF IInv
<1>4. CASE UNCHANGED vars
  <2>1. UNCHANGED <<now, keyFile, starts, provider, manager, issued, call, refresh>>
    BY <1>4 DEF vars
  <2>2. TypeOK'
    BY <2>1 DEF IInv, TypeOK
  <2>. QED BY <2>1, <2>2, RequestsKept, QuietKept DEF IInv, Quiet
<1>. QED BY <1>1, <1>2, <1>3, <1>4, ExchangeStep, RefreshStep, SendStep, ValidateStep
         DEF Next, Terminating

LEMMA Invariance == Spec => []IInv
BY Initially, Preserved, PTL DEF Spec

-----------------------------------------------------------------------------
(* The theorems.                                                           *)

\* The state always has its type: in particular every process and every token has a key
\* that was made at some start, and every answer of a manager is one of its slugs.
THEOREM TypeCorrect == Spec => []TypeOK
<1>1. IInv => TypeOK
  BY DEF IInv
<1>. QED BY <1>1, Invariance, PTL

\* A call that a manager lets in has a token that a provider has signed with the key the
\* manager has loaded, for this application and an administrating tenant, with the scopes
\* of some group, and it came in time, for any groups, clocks and restarts.
THEOREM OnlyTheEntitled == Spec => []AcceptedIsEntitled
<1>1. IInv => AcceptedIsEntitled
  <2>. SUFFICES ASSUME IInv, NEW x \in Calls, call[x].slug = "OK"
                PROVE  /\ call[x].token \in issued /\ call[x].token.kid = call[x].loaded
                       /\ Entitled(call[x].op, call[x].token) /\ Timely(x)
    BY DEF AcceptedIsEntitled
  <2>1. CallKnown(x)
    BY DEF IInv
  <2>2. call[x].pc = "done"
    BY <2>1, AccessNilAssumption DEF CallKnown
  <2>. QED BY <2>1, <2>2 DEF CallKnown
<1>. QED BY <1>1, Invariance, PTL

\* With a key file no entitled call that comes in time is ever refused, whoever restarts;
\* without one, only when its token was signed with another key than the manager's.
THEOREM RefusalsAreExplained == Spec => []RefusalHasReason
<1>1. IInv => RefusalHasReason
  <2>. SUFFICES ASSUME IInv, NEW x \in Calls, call[x].pc = "done", call[x].slug # "OK",
                       call[x].token # Nil, Timely(x), Entitled(call[x].op, call[x].token)
                PROVE  ~keyFile /\ call[x].token.kid # call[x].loaded
    BY DEF RefusalHasReason
  <2>1. CallKnown(x) /\ TokensSigned
    BY DEF IInv
  <2>. QED BY <2>1 DEF CallKnown, TokensSigned, MayHold
<1>. QED BY <1>1, Invariance, PTL

\* No sequence of exchanges, refreshes and restarts makes a token for another tenant than
\* that of the provider that signed it.
THEOREM TenantsNeverMix == Spec => []TenantsStayApart
<1>1. IInv => TenantsStayApart
  BY DEF IInv, TokensSigned, TenantsStayApart
<1>. QED BY <1>1, Invariance, PTL

\* With a key file every provider of the tenant accepts a refresh token from its client.
THEOREM RefreshesSurviveRestarts == Spec => []InvalidRefreshHasReason
<1>1. IInv => InvalidRefreshHasReason
  <2>. SUFFICES ASSUME IInv, NEW x \in Refreshes, refresh[x].pc = "invalid",
                       refresh[x].client = refresh[x].token.client,
                       TenantOf[refresh[x].by] = refresh[x].token.tenant
                PROVE  ~keyFile /\ refresh[x].key # refresh[x].token.kid
    BY DEF InvalidRefreshHasReason
  <2>1. RefreshKnown(x) /\ TokensSigned
    BY DEF IInv
  <2>. QED BY <2>1 DEF RefreshKnown, TokensSigned, MayHold
<1>. QED BY <1>1, Invariance, PTL
=============================================================================
