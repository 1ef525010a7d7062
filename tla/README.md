# Mono SSO: a verification project in TLA+

Mono SSO is a single sign-on server with OAuth2: an HTTP front end (SSO Provider),
a gRPC back end (SSO Service) and an administration service (SSO Manager), over
Redis and PostgreSQL. The modules here model its sessions, its consents, its
authorization codes and its tokens with their keys, the writes of the SSO Manager, its
registration of the administrator, and how the servers start and stop; they state what
must hold of them whatever the order of the requests, TLC checks that on small
instances, and TLAPS proves the safety of all of it for every instance, and that requests,
set-ups and shutdowns end if whoever has something to do can take a step.

Paths are relative to `src/`; `authentication.go`, `authorization.go` and `token.go`
are those of `pkg/handlers` unless a directory is given.

## 1. The system

| Component | State | Operations | Sources |
|---|---|---|---|
| SSO Provider | the key it signs with; everything else is in Redis | `AuthenticateHandler`, `ActivateSessionHandler`, `AuthorizationHandler`, `GrantScopesHandler`, `ExchangeHandler`, `RefreshTokenHandler` | `pkg/handlers`, `cmd/sso-provider` |
| SSO Service | activation codes (Redis); accounts, scopes, grants, tokens (PostgreSQL) | `SignIn`, `ActivateSession`, `AuthorizeClient`, `GrantScopes`, `NewRefreshToken`, `RevokeToken`, `RevokeScopes`, `PurgeAccountCache`, `PurgeClientCache`, `RegisterEvent` | `cmd/sso-service`, `pkg/cache`, `pkg/datastore/account.go` |
| SSO Manager | the key it has loaded; clients, scopes, tenants (PostgreSQL) | `UpsertClient`, `UpsertScope`, `UpsertTenant`, self registration of the administrator, `ValidateSession` of its callers | `cmd/sso-manager`, `pkg/datastore`, `pkg/session` |
| Redis | `:sess:<sid>:<sub>` (session), the same with `:clg` (MFA challenge) or with a nonce (consent), `:act:<sid>:<hash>` (activation code), `:authc:...` (authorization code), `:tkn:<client>:<sub>:<hash>` (implicit token) | GET, SET, DEL, EXISTS, KEYS, MULTI/EXEC | external |
| PostgreSQL | `sso.account`, `tenant`, `client`, `scope`, `grant`, `token` | statements and transactions at READ COMMITTED | external; schema in `deployments` |

**How they interact.** A browser talks HTTP to SSO Provider. Each handler makes a few
Redis commands and at most a few gRPC calls, each call under `RequestDeadline`;
handlers of different requests run concurrently and share nothing but Redis and
PostgreSQL. There is no lock anywhere: the only atomic units are a Redis command, a
Redis MULTI/EXEC, an SQL statement, and what row locks give a transaction. SSO Manager
is called over gRPC with a session (timestamp and access token) in each request; it
verifies the token with a key it fetched from an SSO Provider when it started, and
uses the timestamp as the version of what it writes.

**What is hard.**

- A session is one JSON document that handlers read, change and write back, with a
  gRPC call in between. Two handlers of one browser session may interleave anywhere.
- A secret that must work once (MFA challenge, activation code, consent nonce,
  authorization code) is a Redis key that several requests may present at once, while
  it expires, while it is replaced, or while a purge deletes it.
- Purges list keys and delete them in two commands, for one kind of key after another.
- A loop over the rows of a query ends at an error as at the last row, where nobody asks
  `result.Err()`: a part of the scopes passes for all of them.
- A Redis command may fail after it took effect. A call may time out although SSO
  Service goes on and finishes. SSO Service ends its own process on some Redis errors
  (`mfa.go:95`), and then answers nobody; so does SSO Provider (`authorization.go:105`).
- Refresh tokens are rotated by a transaction of two statements without a lock or a
  uniqueness constraint.
- Access tokens of the implicit flow are made from a cached answer without asking who
  granted what.
- The manager compares versions in one statement and writes in another; requests wait
  for row locks while they hold a connection of a bounded pool.
- The registration spans a sequence, which no rollback takes back, and two transactions;
  several managers may start at once and each may crash anywhere.
- A process without a key file signs with another key after each start, while managers
  go on with the key they loaded.
- A signal may come before the server it is to stop exists.

**What makes each component correct.**

- Sessions: no session of an account with a second factor counts as activated
  without both secrets; one that waits for activation is short-lived; the challenge
  the user got is of use; a purge leaves nothing old behind; every request ends.
- One-time secrets: accepted once at most, never after they were consumed, replaced,
  expired or purged.
- Authorization: nothing is handed out that was not granted; nothing is granted that a
  consent page did not show and a consent did not confirm; the page does not ask again
  for what was granted; a consent is refused for a reason; a purge deletes the kinds of
  keys it is for.
- Refresh tokens: one live token per account and client as far as the transactions are
  ordered; no stale answer; a revocation is final; a refusal has a reason.
- Manager: no update of a client, a scope or a tenant is lost to an older one; what it
  answers is true; a scope and its texts agree; every request is answered.
- Registration: the administrator is registered once, and completely or not at all.
- Keys and sessions of callers: who is let in is entitled, who is refused is not, across
  restarts; tenants that share a key file stay apart.
- Servers: what was taken is finished before its clients are closed, and a process that
  got a signal ends.

`PROJECT.json` lists all components (`components`), the hazards with the line where
each bites and the properties aimed at it (`hazards`), and the lines every definition
translates (`map`).

## 2. The modules

| Module | What it is |
|---|---|
| `OneTimeTicket` | Abstract: a ticket is issued once, then redeemed by one holder or thrown away, and never usable again. |
| `SessionLifecycle` | Sign-in, activation and purge of sessions: `AuthenticateHandler`, `ActivateSessionHandler`, `SignIn`, `ActivateSession`, `generateActivationCode`, `validateActivationCode`, `PurgeAccountCache`. |
| `SessionProperties` | Its properties; two refinement mappings to `OneTimeTicket`. |
| `SessionLifecycle_proofs`, `SessionTickets_proofs` | Theorems about it; the refinements. |
| `Authorization` | `AuthorizationHandler`, `AuthorizeClient`, `GrantScopesHandler`, `GrantScopes`, `PurgeAccountCache`, `PurgeClientCache`, `RevokeScopes`, `UpsertScope` of a new scope. |
| `AuthorizationProperties` | Its properties; the consent nonce as a `OneTimeTicket`. |
| `Authorization_proofs` | Theorems about it; the refinement. |
| `RefreshTokens` | `ExchangeHandler`, `RefreshTokenHandler`, `NewRefreshToken`, `RevokeToken`; the step of `AuthorizationHandler` that stores a code. |
| `TokenProperties` | Its properties; the authorization code as a `OneTimeTicket`. |
| `RefreshTokens_proofs` | Theorems about it; the refinement. |
| `VersionedStore` | Abstract: items with a version; a call takes effect at one instant or not at all, and overwrites nothing newer but what was written after it looked. |
| `ManagerUpserts` | `UpsertClient`, `UpsertTenant`, `UpsertScope` as SQL transactions on a pool of connections, and the slugs of their errors. |
| `UpsertProperties` | Its properties; the refinement mapping to `VersionedStore`. |
| `ManagerUpserts_proofs` | Theorems about it; the refinement. |
| `SelfRegistration` | `setup` and `registerSSOManagerApp`: starts, sequence, client, administrator's transaction, errors and crashes. |
| `RegistrationProperties`, `SelfRegistration_proofs` | Its properties; theorems about it. |
| `AccessTokens` | Which key signs, is published and is loaded; the tokens of `ExchangeHandler` and `RefreshTokenHandler`; `ValidateSession` and `ParseSessionErrorToStatus`. |
| `AccessProperties`, `AccessTokens_proofs` | Its properties; theorems about it. |
| `ServerLifecycle` | Start, signal and end of SSO Service and SSO Provider, and what becomes of their requests. |
| `LifecycleProperties`, `ServerLifecycle_proofs` | Its properties; theorems about it. |
| `MCSession`, `MCAuthorization`, `MCTokens`, `MCUpserts`, `MCRegistration`, `MCAccess`, `MCLifecycle` | The modules TLC runs on, with symmetry sets and constant functions where a cfg needs them. |

Definitions marked `(mutant)` are faulty variants of the definition that follows them;
no specification uses them. Each shows, put in the place of that definition, that one
property notices the fault (`mutants` in `PROJECT.json`).

### Conventions

*Requests.* A request (a login, an activation, a page, a consent, an exchange, a
refresh, a purge, a revocation) is used once, so its record keeps its whole history:
`pc` is where its handler is, `req` the input, `doc`, `seen`, `found`, ... what it has
read and holds in local variables. Since every request is a constant, a cfg bounds how
many there are and nothing else bounds an execution but the clock.

*Atomicity.* One action is one round trip: one Redis command, one MULTI/EXEC, one SQL
statement, or one gRPC message. What a handler computes between two round trips
belongs to the action of the first. Where the state tells the two apart, the caller
and the service are separate (`login[l].call`, `activation[a].call`, the pair
`handler`/`call` in `RefreshTokens`): a caller may give up while the service goes on.

*Failures.* Each Redis command may fail without effect (the `...Fails` actions) or
with its effect (the `\E pc \in {..., "failed"}` of the action itself). `HandlerFails`
and `LoginCallFails` are also the missed `RequestDeadline` and the crash of a
process: no handler has state that would survive or be lost, so a crash is the end of
its requests. `SelfRegistration` and `AccessTokens`, where a restart matters, have
actions for it; `SelfRegistration` counts errors and crashes with a bound.

*Time.* In `SessionLifecycle` and `RefreshTokens` the clock is `now`, in units that
stand for seconds; a key has a deadline `dl`, and `Tick` drops what has reached it.
`Deadline(0)` and `Deadline` of a negative number are `NoExpiry`: go-redis sends SET
without EX or PX then. `Authorization` counts no lifetimes: `Expire` may take any key
at any moment, which includes every real timing.

*Fields named `by`, `saw`, `before`, `after`, `dead`, `had`, `codeOf`, `ever`, `issued`,
`committed`, `rows`, `short`, `fatal`* are history: no guard of the code's reads them, except that `had` is what
KEYS found of a session, and that only a token that was issued can be presented.

### SessionLifecycle

State: Redis as `sess`, `clg` (keyed by session id and subject) and `act` (keyed by
session id, code and user agent); `login`, `activation`, `purge` for the requests.
Hashes are kept as the record of what went into them: a challenge is `[of, agent]`,
equal only if both parts are; an activation code's key carries code and agent.

| Code | Action |
|---|---|
| `AuthenticateHandler` up to the call | `LoginStart` |
| `SignIn`, `generateActivationCode` in SSO Service | `SignIn`, `SignInDenied` |
| the session read, 135-205 | `LoginRead` |
| the challenge stored, 207-214 | `LoginChallenge` |
| lifetime and write, 216-233 | `LoginStore` |
| `ActivateSessionHandler`: GET and DEL of the challenge, 265-284 | `ActivateStart` |
| the session read, 286-309 | `ActivateRead` |
| `ActivateSession`, `validateActivationCode` | `ActivateSession`, `ActivateSessionLost` (Fatalf) |
| write with `ActivatedAt`, 329-340 | `ActivateStore` |
| `PurgeAccountCache` | `PurgeListSessions`, `PurgeDeleteSessions`, `PurgeListCodes`, `PurgeDeleteCodes` |

The password check and the random draw of a code are nondeterministic choices.
A session id is any id: a cookie may be replayed, lost or shared by two tabs.

### Authorization

State: which sessions, nonces and authorization codes are stored; `tkn`, the implicit
flow's keys; `known` and `granted`, the tables `sso.scope` and `sso.grant`.

- `AuthorizeClient` makes four queries. Scopes are only ever added, and so are grants
  (`RevokeScopes` never succeeds, section 4), so each query's answer only grows and
  the whole is one step at the time of the last query.
- A scope set stands for one spelling of the `scopes` parameter. The code hashes the
  parameter as sent; two spellings of one set have two keys there, and less is shared.
- What `AuthorizeClient` refuses for other reasons (tenant, client, redirect URI,
  response type, SQL errors) is one nondeterministic refusal.
- `GrantScopes` counts only a consent none of whose scopes is granted yet
  (`GrantCheck`), as the code does.
- An SQL error before the first row comes back from `Query`, as lib/pq has it. A later
  one ends the loops of `getUnauthorizedScopes` and `GrantScopes` as the last row does:
  what a loop gets is any part of the rows, empty only if they are (`ReadRows`). The
  consent records what it inserted (`rows`) and whether a loop broke off (`short`).
- `SessionStored` stands for module `SessionLifecycle`: here a session only has to be
  there.

### RefreshTokens

State: `code`, the authorization codes in Redis; `token`, the rows of `sso.token` as
committed; `call`, the gRPC call with its transaction; `handler`, the HTTP request.
PostgreSQL's READ COMMITTED is modelled by two steps of an UPDATE: `BeginUpdate` takes
the rows the statement's snapshot shows (`seen`), `UpdateTokens` waits until no open
transaction has updated one of them (`Unlocked`). COMMIT writes all at once, and its
success may go unnoticed (`CommitToken` may deny). `RevokeToken` is one UPDATE outside
a transaction with the same two steps. An owner is an account and a client, the pair
all statements select by.

### ManagerUpserts

State: `row`, the committed rows of `sso.client`, `sso.tenant` and `sso.scope` with their
`updated_at`; `text`, the rows of `sso.scope_i18n`; `lock`, which transaction has written
a row and not ended; `req`, the requests; `committed`.

| Code | Action |
|---|---|
| the request with its session | `ReceiveClient`, `ReceiveTenant`, `ReceiveScope` |
| `BeginTx`, which waits for a connection | `BeginTx` |
| SELECT `updated_at` and the comparison | `SelectRow`, `SelectScope` (`Outdated`) |
| `ClientExistsByID` in the transaction | `ClientExistsByID` (`Connected`) |
| the validator | `Invalid` |
| UPDATE, or INSERT ... ON CONFLICT | `WriteRow`, `WriteScope`, `WriteText` (`TextWritten`) |
| COMMIT, the answer | `Commit` (`CommitFails`), `Finish` (`Slug`) |
| any SQL error, the end of the context | `Fails` |

- READ COMMITTED: a SELECT sees committed rows, a write waits for the row's lock. What a
  transaction has written shows when it commits.
- The timestamp of a request is any number: it is the caller's clock.
- A request without an id makes one of its own; ids do not collide. `UNIQUE (scope,
  client_id)` and an ON CONFLICT clause about the id only: two first upserts of a scope
  end in one error, which is `INTERNAL_ERROR`.
- `MaxRequests` bounds how many of the requests are received: a cfg names requests of all
  kinds, and any few of them come. With all of them the models and proofs are the same.
- `VersionedStore` is what callers may count on. A call looks at one instant and takes
  effect at another, or not at all; it may overwrite something newer only if that was
  written by a call it could not know of when it looked. Of calls that do not overlap
  each is applied exactly if it is newer.
- Names, redirect URIs, secrets and descriptions are data no property tells apart.

### SelfRegistration

State: `seq`, the sequence `sso.setup_admin` (at most 2, left at 1 by the migration);
`clients`, `admin`, the committed rows; `manager`, the processes.

`Start` (setup up to the registration), `NextVal` and `NextValFails` (lines 15-28),
`RegisterClient` (32-46), `BeginTx`, `InsertRow` for each of the six INSERTs in the order
of the code and with the foreign keys of the schema (`References`), `Commit`,
`RegistrationFails` (Fatalf), `Crash`. Every error leads where the code leads: nextval
and `UpsertClient` are logged and the manager serves, an INSERT ends the process, the
result of COMMIT is dropped.

### AccessTokens

State: the keys of the running processes (`provider`, `manager`), `issued` tokens, the
requests `call` and `refresh`, the clock `now`; and `keyFile`, a configuration that is
chosen in `Init` and never changes, so that one run has both of them.

A key is a number: 0 for the key file, another for each start without one. Signing puts
the key's fingerprint into the token (`Signed`), decoding compares it (`Decodes`); that a
signature cannot be made without the key is assumed. A manager takes the first key of
whoever answers at `SSO_JWKS_URL` (`StartManager`), and keeps it. `Validate` is
`ValidateSession` as a whole, since it touches nothing but its request, the key and the
clock; `Lacking` is the loop over the groups of scopes, as the code has it, and
`Entitled` in the properties says without a loop what the configuration asks for.
`Refresh` takes of SSO Service that it matches only refresh tokens that are in its table
(module `RefreshTokens`), and there at most until they expire.

### ServerLifecycle

State: `service` and `provider`, the processes with the goroutine that stops them
(`main`), the server, the clients of PostgreSQL and Redis; `rpc` and `request`.

| Code | Action |
|---|---|
| `setup` | `ServiceUp`, `ProviderUp` |
| `signal.Notify` | `ServiceNotify`, `ProviderNotify` |
| `startGrpcServer` in its goroutine | `NewServer`, `Serve` |
| SIGINT, SIGTERM | `ServiceSignal`, `ProviderSignal` |
| `stopGrpcServer`, `GracefulStop` | `StopGrpcServer`, `StopDataStore` (`Drained`) |
| `StopCacheClient`, the end of main | `ServiceEnds`, `ProviderClosesRedis`, `ProviderEnds` |
| `ListenAndServe`, `Shutdown` with its timeout | `Listen`, `StopServer`, `ShutdownTimeout` (`MayClose`) |
| `log.Fatalf` in a handler (`mfa.go:95`, `authorization.go:39, 105, 184`), or when `ListenAndServe` fails while it serves (`http-server.go:50-59`) | `ServiceFatal`, `ProviderFatal` |

A handler is three steps: Redis, an RPC under `RequestDeadline`, Redis again. Which client
of Redis a process uses does not depend on its configuration (`RedisClient`, section 4).

## 3. The runs

| Run | Question | Result |
|---|---|---|
| `SessionRace` | Two sign-ins race with two activations in one browser session, for an account with a second factor and one whose factor is not implemented. Can any order activate a session unearned, keep a pending one long, leave a challenge without its session, or accept a secret twice? Is an activation lost to a sign-in that had not read the session before it? | no |
| `SessionPurge` | A purge races with a sign-in and an activation over two sessions, remember-me on, accounts with and without a second factor; SSO Service may never answer. Does something settled come back? Can every request go on by itself, and does it end? | no / yes |
| `SessionDuration` | Does an activated session last at most as long as `README.md:57-58` says? | **no**, finding 1 |
| `SessionReset` | Does signing in again keep an activation, as `authentication.go:216` says? | **no**, finding 2 |
| `AuthConsent` | Three pages and two consents of one account and client, scopes together and one by one, code and token flows, loops over rows that break off. Is anything handed out ungranted, granted unconsented, asked for again once it was inserted, refused with all rows read and nothing inserted by another consent, consented to twice? | no |
| `AuthPurge` | A purge of the account, one of the client and a revocation race with pages and a consent. Does a purge delete the kinds of keys it is for, of all that was settled before it? | yes |
| `TokenRace` | Two exchanges, a refresh and a revocation of the same or different owners. Stale answers? Un-revoked tokens? A code exchanged twice? Two live tokens, or an unjustified refusal, without a race? | no |
| `UpsertRace` | Any three of six upserts, of clients, a tenant and a scope, with and without an id, statement by statement on two connections. Do they implement `VersionedStore`, failures included? Does a version go back without a race, an answer lie, a scope part from its texts, everyone wait for everyone? | yes / no |
| `Registration` | Three managers, three starts each, four errors and crashes. Can the administrator be registered twice or in part? Where nothing fails, does nobody wait for another one, is it registered, and do all serve? | no / yes |
| `RegistrationError` | Does a manager that was to register the administrator serve only if it did? | **no**, finding 3 |
| `Access` | Two providers of different tenants, with one key file or a key per start; processes restart, a call and a refresh arrive late. Is a call let in only if it is timely and its token entitles to the operation, and refused only for a reason? Do tenants stay apart, and valid refresh tokens valid? | yes |
| `Shutdown` | Signals, and `log.Fatalf`, at any time of the start and the work of both servers, two requests and three RPCs. Is something taken and then left without its clients, or cut off early? Does a process that got a signal end, and no RPC and no request hang, whatever the other process does? | no / yes |

### Bounds

Every cfg says which requests exist. Why they are enough:

- *Two logins and two activations.* A read-modify-write race needs two writers of one
  key, a double acceptance needs two presenters of one secret, and a mixed-up secret
  needs two issuers. `SessionRace` has all of them at once, on one key.
- *One activation code* in the pool makes every two sign-ins of a session collide on
  it: drawing the same digits, rare in reality, is the normal case of the run.
- *One user agent.* With one agent no request is refused for a foreign agent, which
  only removes refusals. A challenge stored without the agent is a mutant, found.
- *`MaxTime` 3 with lifetimes of 1 to 3*: every key can expire before, between and
  after any two steps of a request; sessions and challenges in either order.
- *Three pages, two consents*: two pages for different or overlapping scope sets and a
  third that comes after both; consents for both, or twice for the same.
- *Two exchanges* (`TokenRace`): two can overlap, or one can come after the other has
  committed, expired or been revoked; the revocation waits for the row locks of the
  exchange that comes second. Longer chains of exchanges, each retiring what came before
  while another waits, are covered by the theorems, which hold for any number.
- *Any three of six upserts* (`UpsertRace`): one that has committed, one that has read
  before that, one that waits for the other's lock; or three of one scope in two
  languages; or two of a client and one of its scope. Two timestamps give older, equal
  and newer requests. Three requests share two connections, so that one waits for a
  connection while another, with a connection, waits for a row.
- *Three managers, three starts, four faults*: the one that draws 2, one beside it, one
  after it; each kind of error, and a crash, before and after each commit.
- *Two starts of providers, three tokens, a clock up to 3, a call and a refresh*: both
  providers, or one of them twice; a token can be of an earlier, the same and a later key
  than the manager's; a call early, timely, late and after the token's end; and with a
  token that was exchanged or renewed. Operations ask for either of two scopes, for both,
  or for none (`MCAccess`).
- *Two HTTP requests and one direct RPC*: one that runs when the signal comes and one
  that arrives after it.
- *Symmetry* permutes requests, codes and agents in runs of safety properties only (the
  refinements among them).
  Requests with different roles are separate sets, never permuted into each other.
  Runs that check liveness use none.
- Deadlock is checked in every run. `Terminating` allows the system to rest only where
  every request has come to an end; in `AccessTokens`, where processes can always stop
  and start, at the bounds of clock and starts, and in `ServerLifecycle`, when both
  processes have ended.

`ChallengeUsable` is checked where its assumptions hold (an ephemeral session lasts at
least as long as the MFA window, no remember-me, no purge): otherwise a session may
legitimately end before its challenge.

### Fairness

Three properties need any.

- `RequestsTerminate`: `FairSpec` of `SessionLifecycle` assumes weak fairness of the
  steps of a request that has begun (`LoginStep`, `ActivateStep`, `PurgeStep`): its
  goroutine runs, its gRPC calls end by `RequestDeadline` at the latest
  (`authentication.go:102, 311`), and its Redis commands by the client's timeouts. Each
  of these ends can be a failure. Nothing is assumed of SSO Service, which may never
  answer, of the clock, or of users. Without the deadline
  `HandlersNeverWait` fails, and with a handler that tries again instead of giving up
  (mutant `ActivateFails_Retries`) an activation need not end.
- `ManagersGetReady`: somebody starts each manager, and its setup goes on. It is stated of
  behaviours without errors and crashes (`faults = 0`).
- `EverythingEnds`: the goroutines of a process go on, and a handler that has begun comes
  to its end, by `RequestDeadline` if need be. Nobody has to send a signal or a request,
  `log.Fatalf` may or may not come, and the other process may be gone.

Each of the three has the invariant its proof rests on (section 5) as its first conjunct,
so that TLC checks it: `HandlersNeverWait`, `ManagersNeverWait`, `OnlyTheDrainWaits`. They
say with ENABLED who can take a step without anybody else. Weak fairness alone gives
nothing to a handler that waits.

`NobodyWaitsInACircle` is no liveness property but an invariant: as long as a request is
under way, some request has a step of its own to take, without a timeout, a failure or a
new request. It says so of what a request waits for (`SomebodyMayProceed`), and that there
is nothing else it waits for (`MayProceed` is `ENABLED Proceeds`). TLC's deadlock check
would not notice a circle, since a request that waits may always fail. If the check for the client took a second connection
(mutant `Connected_Another`), requests would wait for each other.

## 4. Findings

1. **Activated sessions do not end** (`authentication.go:332`). `README.md:57-58` give
   the duration of a session. After an activation the expiration handed to SET is zero
   (no remember-me) or `time.Since(ExpiresAt)`, negative while `ExpiresAt` lies ahead,
   and the key loses its time to live. What holds instead is in `PendingIsShortLived`: a
   session that a sign-in has stored keeps to these durations, and only an activation
   takes its end away.
2. **An activation can be overwritten** (`authentication.go:222`). "Only resets the
   session cache if it's the first authentication" (216), but the session was read
   before; a sign-in that began earlier writes back its copy without `ActivatedAt`. What
   holds instead is `ActivationLostOnlyInRace`: that sign-in had read the session before
   the one it overwrites was stored, so one that begins after an activation keeps it.
3. **The administrator may be missing for good**
   (`cmd/sso-manager/self-register.go:157`). Errors of the registration are to end the
   process (`setup.go:156-159`); the one of COMMIT is dropped and the one of
   `UpsertClient` logged, the manager serves, and the sequence is used up. Without an error
   or a crash it is there: `ManagersGetReady`.

Beside these, for which runs show a behaviour, the models contain what the code does where
a reader of its docs and names may expect something else. Each is visible in a definition
and in how a property had to be stated.

- *Two live refresh tokens* (`cmd/sso-service/authorization-server.go:285`). Two exchanges
  that overlap both find no token and both commit one; the UPDATE that is to invalidate
  the previous ones sees none. `OneLiveUnlessRaced` and `RefusalJustified` say that this
  needs a race.
- *A lost update* (`pkg/datastore/client.go:72`). The version is read without FOR UPDATE
  and the UPDATE selects by id only: of two requests that both passed the check the older
  may commit last, and the newer one, answered with OK, is gone. `GoesBackOnlyInRace` and
  `VersionedStore` (`Overtaken`) say that this needs a race.
- *A part of a consent is granted and answered with OK*
  (`cmd/sso-service/authorization-server.go:149-163`). If the connection fails within the
  rows of the ids, those that were read are inserted. The page reloads "so server can
  generate authorization code/tokens" (`web/index.html:55`), and asks again. What holds is
  `NotAskedAgain`: it does not ask for what consents have inserted, in however many parts.
- *A consent is refused with nothing granted*
  (`cmd/sso-service/authorization.go:43-51`). If the rows of the ungranted scopes break
  off, they are fewer than the scopes wanted, which passes for scopes granted before.
  `RefusedByAnother` is about consents whose rows were all read.
- *A consent is refused for good* (`cmd/sso-service/authorization-server.go:116`). Once one
  of its scopes is granted, by another consent or by one broken off, no consent to the
  whole counts any more, while the page goes on asking for it. `RefusedByAnother` says only
  that something must have been granted first.
- *A client purge may leave token keys* (`pkg/cache/purge.go:26`). It returns once it has
  deleted authorization codes, before its pass over tokens.
- *An account purge leaves authorization codes* (`pkg/cache/purge.go:57-111`). It has
  patterns for sessions, nonces and token keys; the code of a page answered before
  (`authorization.go:210-235`) can be exchanged after. `PurgeDeletesItsKeys` says
  what each purge is for, and nothing of the rest.
- *Scopes are never revoked* (`pkg/datastore/account.go:62`). The SELECT names a column
  that does not exist; the event "subject revoked scopes" is registered all the same.
- *Expired access tokens are let in* (`pkg/session/session.go:64`). Nobody compares the
  token's end with the clock: `Validate` does not, and `RefusalHasReason` knows no such
  reason.
- *A message instead of a slug* (`pkg/session/session.go:112`). A token that does not
  verify is answered with "internal server error", where the slug is `INTERNAL_ERROR`
  (`SessionSlug`).
- *Sentinel is never used* (`pkg/cache/cache.go:67`). The failover client is made, and
  then replaced by the client of the single node (`RedisClient`).

## 5. What is proved

For all sets of accounts, clients, sessions, codes, keys, rows, processes and requests, any
number of them, and all durations: every safety invariant the passing runs check, but for
one conjunct with ENABLED (section 6), the action properties of the upserts and of the
sessions, the four refinements of `OneTimeTicket` and the one of `VersionedStore`; and the
three liveness properties, from an invariant with ENABLED that only TLC checks.

| Theorem | States | Module |
|---|---|---|
| `TypeCorrect` | `Spec => []TypeOK` | `SessionLifecycle_proofs` |
| `Invariance` | `Spec => []IInv`, the inductive invariant | |
| `ActivationIsEarned` | `Spec => []ActivationEarned` | |
| `PendingSessionsAreShortLived` | `Spec => []PendingIsShortLived` | |
| `PurgesAreFinal` | `Spec => []PurgedStaysPurged` | |
| `ChallengesAreUsable` | `Spec => []ChallengeUsable`, under its three assumptions | |
| `ActivationsLostOnlyInRace` | `Spec => ActivationLostOnlyInRace` | |
| `EveryRequestEnds` | `FairSpec /\ []HandlersNeverWait => RequestsTerminate` | |
| `ChallengeOneTime` | `Spec => ChallengeIsOneTime`: it implements `OneTimeTicket` | `SessionTickets_proofs` |
| `CodeOneTime` | `Spec => CodeIsOneTime`, the same for activation codes | |
| `TypeCorrect` | `Spec => []TypeOK` | `RefreshTokens_proofs` |
| `OneLiveTokenUnlessRaced` | `Spec => []OneLiveUnlessRaced` | |
| `RevocationIsFinal` | `Spec => []RevokedStaysRevoked` | |
| `AnswersAreFresh` | `Spec => []NoStaleAnswer` | |
| `RefusalsAreJustified` | `Spec => []RefusalJustified` | |
| `AuthorizationCodeOneTime` | `Spec => AuthorizationCodeIsOneTime` | |
| `TypeCorrect` | `Spec => []TypeOK` | `Authorization_proofs` |
| `HandedOutIsGranted` | `Spec => []CoveredByConsent` | |
| `GrantsAreConsentedTo` | `Spec => []GrantedByConsent` | |
| `ConsentIsRemembered` | `Spec => []NotAskedAgain` | |
| `PurgeIsFinal` | `Spec => []PurgeDeletesItsKeys` | |
| `RefusalsAreExplained` | `Spec => []RefusedByAnother` | |
| `ConsentOneTime` | `Spec => ConsentIsOneTime` | |
| `TypeCorrect` | `Spec => []TypeOK` | `ManagerUpserts_proofs` |
| `AnswersTrue` | `Spec => []AnswersAreTrue` | |
| `ScopesWhole` | `Spec => []ScopeAndTextAgree` | |
| `VersionsGoBackOnlyInRace` | `Spec => GoesBackOnlyInRace` | |
| `NoCircles` | `Spec => []SomebodyMayProceed`, of `NobodyWaitsInACircle` | |
| `UpsertsImplementStore` | `Spec => UpsertsAreAtomic`: it implements `VersionedStore` | |
| `TypeCorrect` | `Spec => []TypeOK` | `SelfRegistration_proofs` |
| `RegisteredOnce` | `Spec => []OneRegistration` | |
| `EveryManagerGetsReady` | `Spec /\ []Fairness /\ []ManagersNeverWait => ManagersGetReady`, with at least one manager | |
| `TypeCorrect` | `Spec => []TypeOK` | `AccessTokens_proofs` |
| `OnlyTheEntitled` | `Spec => []AcceptedIsEntitled` | |
| `RefusalsAreExplained` | `Spec => []RefusalHasReason` | |
| `TenantsNeverMix` | `Spec => []TenantsStayApart` | |
| `RefreshesSurviveRestarts` | `Spec => []InvalidRefreshHasReason` | |
| `TypeCorrect` | `Spec => []TypeOK` | `ServerLifecycle_proofs` |
| `TakenRpcsAlwaysServed` | `Spec => []TakenRpcsAreServed` | |
| `HandlersAlwaysHaveTime` | `Spec => []HandlersHaveTime` | |
| `EverythingEndsAtLast` | `FairSpec /\ []OnlyTheDrainWaits /\ ServiceDrains => EverythingEnds` | |

*Assumptions*: those of the modules, named where the constants are declared: durations
are positive (remember-me may be 0, which is off), `Method` is one of the methods of
the account table, requests of different kinds are different, an account is not a
client, an id that a request generates is new and the ids of clients, tenants and scopes
do not overlap, and `Nil` is none of the values it stands in for nor the name of a state
or an answer. TLC evaluates them in every run.

### Liveness

The three liveness theorems have one form. Weak fairness of an action gives a step only to
who can take one, which is ENABLED, and to the prover ENABLED is an unknown predicate. So
each theorem has a hypothesis that says where the action is enabled; it is an invariant
that TLC checks, as a conjunct of the property. From it, and from the safety invariant,
the proofs go stage by stage: from no stage is there a step back (`LoginSteps`,
`ServiceStages`, `ManagerSteps`), a fair step leaves the stage (`ManagerGetsOn`), and
temporal logic joins the stages.

- `EveryRequestEnds`: a request has three stages at most, and at each its handler can give
  up. The proof is of one request at a time, so it does not matter how many there are.
- `EveryManagerGetsReady`: the stages of a manager are its start, the sequence, the client,
  BEGIN and the six INSERTs. That the transaction gets to its end is the order of the
  INSERTs: with the first n done, all that the next one's foreign keys lead to is written
  (`NextInOrder`), the client of the scope by this very start (`OneRegistrar`). `Calm` says
  that while nothing fails, once 2 is drawn somebody is registering or the administrator is
  there. Who it is may not be known in advance, so fairness is used at a later time than
  the first: it is given as `[]Fairness`, which says the same as `Fairness`, though the
  provers cannot move the quantifier.
- `EverythingEndsAtLast`: the shutdown of SSO Provider has `ShutdownTimeout` as its way
  out, a handler `RequestDeadline`. `GracefulStop` has none: SSO Service waits for its RPCs.
  Each of these ends (`RpcSettles`, proved), none is taken any more (`ServiceSteps`), but that
  finitely many of them are over some day is an induction over their number, which is out of
  reach. It is the hypothesis `ServiceDrains`, also a conjunct of what TLC checks.

### SessionLifecycle

*Why an invariant is needed.* `ActivationEarned` speaks of what Redis holds, but the
document Redis will hold next is in the local variables of handlers: a login that has
read an activated session and is about to write it back, or an activation between its
gRPC call and its SET. `IInv` says of those copies what the property says of Redis:

- `Typed`: `TypeOK`, and that a request past "idle" has its input (`req # Nil`);
- `SecretsFounded`: a stored challenge or code was issued by a sign-in of the same key
  whose password was checked;
- `AcceptedFounded`: so was what an activation was accepted with;
- `DocumentsFounded`: a document with `act # 0`, in Redis or in a handler, belongs to
  an account without a second factor or to a key that some activation earned;
- `WritersOver`: who has written a stored session is over, so that its request no longer
  changes and its lifetime can be told from it;
- `PendingIsShortLived`, which is inductive beside the others.

The proof has a lemma per group of actions and fact: which request may move where
(`LoginMoves`, `ActivationMoves`), who may write a session, a challenge or a code
(`SessionWrites`, `ChallengeWrites`, `CodeWrites`), and that what was earned stays
earned (`PasswordStaysChecked`, `AcceptedStaysAccepted`, `ActivatedStaysActivated`);
from these each conjunct is preserved.

`Purging`, beside it, gives `PurgesAreFinal`: requests that were settled when the keys
were listed write nothing any more (`SettledWriteNothing`), so that what they have left
is among the keys found until these are deleted, and nothing afterwards.

`Usable`, also beside it, gives `ChallengesAreUsable`. Without remember-me no document
has a cookie date, in Redis or in a handler's hands, so that every write to a session
gives it at least `MFASessionDuration` from now on, or no end at all (`LongEnough`).
A challenge ends within that window; once its sign-in is answered the session was written
after it, and no later write makes it end sooner. The assumptions are needed: a purge
deletes, and with a shorter ephemeral session or a remembered one the session may end first.

`ReadsStand`, beside it, gives `ActivationsLostOnlyInRace`: as long as the session that a
sign-in has read is the stored one, the document it is about to write is as activated.
Nobody writes the session under the same name again, since its writer is over
(`ReadKept`): any other write is by somebody else, and so a race.

*The refinements* rest on one invariant each. `ChallengeOnce`: a challenge is stored
under one key, its own; nobody has won a stored one; two activations have not won the
same one. `CodeOnce`: the same for activation codes. Given the invariant, a winning
`ActivateStart` (`ActivateSession`) is `Redeem`, a storing `LoginChallenge` (`SignIn`)
is `Issue` with what it overwrites as `D`, and every other step changes no holder and
moves tickets to "void" only, which is `Discard`, or nothing.

### RefreshTokens

Nothing in the tables says what a transaction saw, so the invariant does.

- `Typed`: `TypeOK`; a call that runs has an owner and a request that began; the rows a
  statement saw exist.
- `Retired`: once a token is written, the call that wrote it is over, and every token
  that was in its statement's snapshot is deleted. So of two live tokens neither was in
  the other's snapshot: that is `Raced`, and `OneLiveUnlessRaced` follows. Before the
  commit, what the UPDATE saw is what the call has noted as `before`.
- `Answers`: an answer names a token of the call's owner that was not dead when the
  request began, and a refresh token that is refused is dead or raced with the answer.

Rows stay and a deleted row stays deleted (`RowsStay`), whatever UPDATE waits for whose
lock; `RevokedStaysRevoked` rests on that and on what a revocation saw. The ticket's
invariant `CodeOnce`: a stored code was issued, a taken one is gone, and nobody else
took it.

### Authorization

- `Typed`: `TypeOK`; a page that began has a request; a consent that took a nonce knows
  a page that was answered with a consent page, and which therefore does not change
  any more (`ConsentedStays`).
- `Covered`: what a page may answer for, and what a key stands for, is granted. A page
  gets there through `AuthorizeClient` (`AnswerIsGranted`) or through a key, and grants
  only grow (`ScopesGrow`): why a remembered answer is not stale.
- `GrantedByConsent` is inductive beside `Typed`, as only `GrantInsert` grants (`Grants`).
- `ConsentWritten`: the scopes of a consent about to be inserted are registered, so that
  the insert leaves none out unless the loop breaks off; what a consent has inserted is
  granted (`Written`); and the consents a page began after were all answered with OK. Then
  `AuthorizeClient` cannot ask for what they have inserted (`AskIsForMore`), since a loop
  that breaks off has read a row at least.
- `Purging`: at each stage of a purge, what is left of the pages settled before it is
  among what KEYS found, or nothing is: of an account's nonces (`NoncesOf`), of a client's
  codes (`CodesOf`), of the token keys of either (`TokensOf`). Settled pages write nothing
  (`SettledStays`), so what is left only shrinks (`LeftShrinks`).
- `Refusals`: what a consent page shows is registered, what is granted was inserted by a
  consent that is over. So a consent that read all rows, and fewer than the scopes it
  wants, has another one to blame.
- `NonceOnce` is the ticket's invariant: a stored nonce's page has asked, and a nonce
  taken is gone and taken by one consent.

The rules that `HandedOutIsGranted` and `ConsentIsRemembered` rest on, that scopes and
grants are never taken away, hold because `RevokeScopes` never succeeds (section 4). A
repaired `RevokeScopes` would need both models and proofs looked at again: the keys of
the implicit flow would then outlive the grants they stand for unless it purged them.

### ManagerUpserts

`IInv` adds to `TypeOK` and `ScopeAndTextAgree` what transactions know and hold:

- `Known`: a request past "idle" has its target, and a scope's request an id that it made
  itself or that another request for the same scope has made;
- `Checked`: as long as a request that passed the check has not committed, a row it saw
  is older than it, so that a newer or equal one was written after it looked; and a
  scope about to be written keeps the id of its row;
- `Answered`: what a committed request may be answered with;
- `Rows`: a row was there from the start, or is what a committed request has written;
- `Locks`: who has written a row and not ended holds it alone.

`VersionsGoBackOnlyInRace` follows from `Checked` of the request that commits. That a
scope and its text agree after a COMMIT rests on `Locks`: nobody wrote the row between
the INSERT of the scope and the COMMIT.

*Nobody waits in a circle* (`NoCircles`). A request that is past its connection and not
about to write waits for nothing. One that is about to write a row waits at most for a
request that holds the row, which by `Locks` is at its text or its COMMIT, so waits for
nothing either. If no request has a connection, all connections are free.

*The refinement* (`UpsertsImplementStore`) has a lemma per kind of step. A request that is
received is `Call`. The SELECT that finds its version newer is `Accept`, at that instant
(`AcceptSeen`), and one that finds it not newer is `Refuse` (`RefuseSeen`). A COMMIT that
succeeds is `Apply`, whatever the caller hears of it (`CommitSeen`): that a newer row it
overwrites was written after it looked is `Checked`, and that the maker of that row is a
committed request is `Rows`. Any other end is `Drop` (`FailSeen`), and a step that neither
ends nor looks is a stutter (`Unseen`). `Looks` is needed beside `IInv`: a request for a
new row never comes to the SELECT, so that it is never accepted before its COMMIT.

### SelfRegistration

`OneRegistrar`: nobody registers before 2 is drawn, and then one process at most; until
it has inserted the administrator there is no administrator, and its client is the only
one. With `Tables` staged as a whole at the COMMIT (`NextListed`), the administrator has all
its rows. `Started` ties a process to the start that its rows are named after. Each error
either leaves the rows alone (`Bystander`) or ends the registration for good.

### AccessTokens

- `KeysHeld`: with a key file, what a process holds is the file's key and no other
  (`MayHold`).
- `TokensSigned`: the same of the key that signed a token, and the tenant of a token is
  that of its signer.
- `CallKnown`, `RefreshKnown`: what a request that was sent or answered still says of
  the tokens, the key and the clock at the time it was looked at.

`SlugMeans` says when the cascade of `ValidateSession` ends in OK: exactly if the call is in
time, its token is signed with the loaded key and entitles. It rests on `LackingMeans`: the
loop over the groups of scopes, which may stop early, denies exactly if there are groups
and none of them is satisfied. The loop is a recursive function over the number of groups
seen, and the prover has no induction over an operator; so the lemma names a function that
satisfies the recursion, and shows that there is no other one from the least index at which
two would differ (`WFMin` of the well-founded order of the numbers).

`TenantsNeverMix` is a conjunct of `TokensSigned`. A refresh copies the claims of a token
that any provider with the same key file may have signed (`CopiedClaims`); what keeps the
tenants apart is that `RefreshTokenHandler` compares the tenant of the token with its own.

### ServerLifecycle

- `ServiceInOrder`: the global `gRPCServer` is set exactly if there is a server; it serves
  only between `setup` and the end of `GracefulStop`; the clients are open until then.
- `RpcsInOrder`: an RPC that runs finds them open, and one was taken only if there was a
  server: a signal before that makes `stopGrpcServer` panic, with nothing taken.
- `ProviderInOrder`, `RequestsInOrder`: Redis is closed, or the process ended, while a
  handler runs only after `ShutdownTimeout`, before `signal.Notify`, or by `log.Fatalf`.

## 6. What is only model-checked

- `HandlersNeverWait`, `ManagersNeverWait`, `OnlyTheDrainWaits`: ENABLED is out of the
  prover's reach. The liveness theorems have them as hypotheses.
- `ServiceDrains`, one part of `EverythingEnds`: it needs an induction over the number of
  RPCs under a temporal operator.
- The second conjunct of `NobodyWaitsInACircle`: that a request can take a step of its own
  exactly if `MayProceed` says so, since this needs ENABLED. The first conjunct,
  `SomebodyMayProceed`, is proved.
- The three runs with findings: a counterexample is a behaviour, found by TLC.

No module uses RECURSIVE operators.

## 7. What is not modelled

- Signing and hashing by their bits, passwords and random numbers: a key is a number, a
  hash the tuple of its inputs.
- Configuration, routes, CORS, TLS and log settings: wiring. What the models take from it
  is named where they use it.
- Calls to SSO Manager with session validation switched off, which bring requests without
  a session to the datastore.
- `ManagementServer` is registered with no gRPC server (`cmd/sso-manager/grpc.go`
  registers `ClientServer` only): `UpsertTenant` is modelled as if it were.
- The connection pool of SSO Service. That of SSO Manager is `MaxConnections`.
- Event log, templates, static files, generated gRPC code and the API collection: no
  state.
- Redis and PostgreSQL failures that lose data they had acknowledged.

## 8. Plan

1. **Composition**: sessions, pages and exchanges in one module, to state end to end that
   an access token goes back to an activation and a consent; `AccessTokens` with
   `ManagerUpserts`, whose versions are the timestamps of the sessions let in.
2. **Redirect URIs**: the checks of `AuthorizeClient` that the key of the implicit flow
   leaves out, against upserts that change them.
3. **Proofs**: the invariants of the composed modules, from those of their parts.
