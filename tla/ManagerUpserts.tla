--------------------------- MODULE ManagerUpserts ---------------------------
(***************************************************************************)
(* The writes of the SSO Manager: UpsertClient, UpsertTenant, UpsertScope. *)
(*                                                                         *)
(* A request carries the timestamp of its session, which becomes the       *)
(* updated_at of the row it writes: the version that later requests are    *)
(* compared with.  Each call is one PostgreSQL transaction at READ         *)
(* COMMITTED on a connection of a pool.  One step is one SQL statement; a  *)
(* statement sees the rows committed when it runs, a write waits for the   *)
(* transaction that holds the row, and the rows a transaction has written  *)
(* are seen at COMMIT.  PostgreSQL and the pool of database/sql are        *)
(* external.                                                               *)
(***************************************************************************)
EXTENDS Integers, FiniteSets

CONSTANTS
    Clients, Tenants,   \* rows that are there from the start
    ScopeNames, Locales,
    ClientUpserts, TenantUpserts, ScopeUpserts,   \* requests; also the ids they generate
    MaxConnections,     \* SSO_POSTGRES_MAX_CONN
    MaxStamp,           \* bound: the largest timestamp of a request
    MaxRequests,        \* bound: how many of the requests are received
    Nil

ASSUME UpsertAssumption ==
    /\ MaxConnections \in Nat \ {0}
    /\ MaxStamp \in Nat \ {0}
    /\ MaxRequests \in Nat

Upserts == ClientUpserts \cup TenantUpserts \cup ScopeUpserts
ClientIds == Clients \cup ClientUpserts
TenantIds == Tenants \cup TenantUpserts
Keys == ClientIds \X ScopeNames          \* UNIQUE (scope, client_id)
Targets == ClientIds \cup TenantIds \cup Keys
Texts == ScopeUpserts \X Locales         \* UNIQUE (scope_id, locale)

\* A row with its updated_at and the request that wrote it (Nil: it was there from the
\* start).  `id' tells the scopes of one key apart.
Row == [id : Targets \cup ScopeUpserts, stamp : Nat, by : Upserts \cup {Nil}]
Text == [stamp : Nat, by : ScopeUpserts]

ASSUME UpsertNilAssumption ==
    /\ Nil \notin Upserts \cup Targets \cup Row \cup Text \cup Locales
    /\ ClientIds \cap TenantIds = {} /\ ScopeUpserts \cap Targets = {}
    /\ Keys \cap (ClientIds \cup TenantIds) = {}
    /\ Clients \cap ClientUpserts = {} /\ Tenants \cap TenantUpserts = {}

VARIABLES
    row,         \* [Targets -> the committed row or Nil]
    text,        \* [Texts -> the committed row of sso.scope_i18n or Nil]
    lock,        \* [Targets -> the transaction that has written the row, or Nil]
    req,         \* [Upserts -> the request]
    committed    \* history: the requests whose transaction has committed

vars == <<row, text, lock, req, committed>>
database == <<row, text, committed>>

Existing(t) == IF t \in Clients \cup Tenants THEN [id |-> t, stamp |-> 0, by |-> Nil] ELSE Nil

Init ==
    /\ row = [t \in Targets |-> Existing(t)]
    /\ text = [k \in Texts |-> Nil]
    /\ lock = [t \in Targets |-> Nil]
    /\ req = [u \in Upserts |-> [pc |-> "idle", target |-> Nil, id |-> Nil, locale |-> Nil,
                                 stamp |-> 0, before |-> {}, slug |-> Nil]]
    /\ committed = {}

-----------------------------------------------------------------------------
(* Requests and transactions.                                              *)

\* (mutant) There is no default for errors that are not told apart.
Slug_NoDefault == [notFound |-> "NOT_FOUND", versionMismatch |-> "VERSION_MISMATCH",
                   validation |-> "INVALID_REQUEST", other |-> "", none |-> "OK"]

\* The slug of each error of the datastore.
Slug == [notFound |-> "NOT_FOUND", versionMismatch |-> "VERSION_MISMATCH",
         validation |-> "INVALID_REQUEST", other |-> "INTERNAL_ERROR", none |-> "OK"]

\* ROLLBACK, deferred, or COMMIT: the row locks of u are released.
Unlocked(u) == [t \in Targets |-> IF lock[t] = u THEN Nil ELSE lock[t]]

\* The transaction ends and the handler answers with the slug of err.
Finish(u, err) ==
    /\ req' = [req EXCEPT ![u].pc = "done", ![u].slug = Slug[err]]
    /\ lock' = Unlocked(u)

Goto(u, pc) == req' = [req EXCEPT ![u].pc = pc] /\ UNCHANGED lock

\* Somebody calls u, with an id (or the key of a scope), or without: u makes an id.
Receive(u, target, id, locale) ==
    /\ req[u].pc = "idle"
    /\ Cardinality({v \in Upserts : req[v].pc # "idle"}) < MaxRequests
    /\ \E stamp \in 1..MaxStamp :
         req' = [req EXCEPT ![u] = [@ EXCEPT !.pc = "begin", !.target = target, !.id = id,
                                             !.locale = locale, !.stamp = stamp]]
    /\ UNCHANGED <<database, lock>>

ReceiveClient(u) == \E c \in ClientIds : Receive(u, c, c, Nil)
ReceiveTenant(u) == \E t \in TenantIds : Receive(u, t, t, Nil)
ReceiveScope(u) == \E k \in Keys, locale \in Locales : Receive(u, k, Nil, locale)

\* Without an id in the request there is nothing to compare with.
Creates(u) == req[u].target = u

\* The transactions that hold a connection of the pool.
Open == {u \in Upserts : req[u].pc \in {"select", "exists", "write", "text", "commit"}}

\* BeginTx waits for a free connection.
BeginTx(u) ==
    /\ req[u].pc = "begin"
    /\ Cardinality(Open) < MaxConnections
    /\ Goto(u, IF Creates(u) THEN "write" ELSE "select")
    /\ UNCHANGED database

\* An SQL error, the end of the caller's context, or a lost connection: ROLLBACK.
Fails(u) ==
    /\ u \in Open \/ req[u].pc = "begin"
    /\ Finish(u, "other")
    /\ UNCHANGED database

\* The validator refuses the name, the redirect URIs, the description ...
Invalid(u) ==
    /\ req[u].pc = "write"
    /\ Finish(u, "validation")
    /\ UNCHANGED database

\* (mutant) A request with the timestamp of the row passes.
Outdated_Equal(u) == row[req[u].target].stamp > req[u].stamp

\* The row is as new as the request, or newer.
Outdated(u) == row[req[u].target].stamp >= req[u].stamp

-----------------------------------------------------------------------------
(* UpsertClient and UpsertTenant: SELECT updated_at, then UPDATE, or just  *)
(* INSERT with a new id.                                                   *)

SelectRow(u) ==
    /\ req[u].pc = "select" /\ u \notin ScopeUpserts
    /\ IF row[req[u].target] = Nil THEN Finish(u, "notFound")
       ELSE IF Outdated(u) THEN Finish(u, "versionMismatch")
       ELSE req' = [req EXCEPT ![u].pc = "write", ![u].before = committed] /\ UNCHANGED lock
    /\ UNCHANGED database

\* UPDATE waits for the transaction that has written the row; an INSERT is alone.
WriteRow(u) ==
    /\ req[u].pc = "write" /\ u \notin ScopeUpserts
    /\ lock[req[u].target] = Nil
    /\ lock' = [lock EXCEPT ![req[u].target] = u]
    /\ req' = [req EXCEPT ![u].pc = "commit"]
    /\ UNCHANGED database

-----------------------------------------------------------------------------
(* UpsertScope: SELECT the scope of the key, look for the client, and two  *)
(* INSERT ... ON CONFLICT DO UPDATE.                                       *)

SelectScope(u) ==
    /\ req[u].pc = "select" /\ u \in ScopeUpserts
    /\ LET found == row[req[u].target] IN
       IF found # Nil /\ Outdated(u) THEN Finish(u, "versionMismatch")
       ELSE /\ req' = [req EXCEPT ![u].pc = "exists", ![u].before = committed,
                                  ![u].id = IF found = Nil THEN u ELSE found.id]
            /\ UNCHANGED lock
    /\ UNCHANGED database

\* (mutant) ClientExistsByID without the transaction: it takes another connection.
Connected_Another(u) == Cardinality(Open) < MaxConnections

\* ClientExistsByID runs in the transaction.
Connected(u) == u \in Open

ClientExistsByID(u) ==
    /\ req[u].pc = "exists"
    /\ Connected(u)
    /\ IF row[req[u].target[1]] = Nil THEN Finish(u, "notFound") ELSE Goto(u, "write")
    /\ UNCHANGED database

\* The INSERT waits for the transaction that has written the key.  The conflict
\* clause is about the id: a row of that key with another id is an error.
WriteScope(u) ==
    /\ req[u].pc = "write" /\ u \in ScopeUpserts
    /\ lock[req[u].target] = Nil
    /\ LET found == row[req[u].target] IN
       IF found # Nil /\ found.id # req[u].id THEN Finish(u, "other")
       ELSE /\ lock' = [lock EXCEPT ![req[u].target] = u]
            /\ req' = [req EXCEPT ![u].pc = "text"]
    /\ UNCHANGED database

WriteText(u) ==
    /\ req[u].pc = "text"
    /\ Goto(u, "commit")
    /\ UNCHANGED database

\* (mutant) ON CONFLICT DO NOTHING for the text.
TextWritten_Once(u) ==
    LET k == <<req[u].id, req[u].locale>> IN
    IF text[k] # Nil THEN text ELSE [text EXCEPT ![k] = [stamp |-> req[u].stamp, by |-> u]]

\* ON CONFLICT DO UPDATE: the text of the locale is replaced.
TextWritten(u) ==
    [text EXCEPT ![<<req[u].id, req[u].locale>>] = [stamp |-> req[u].stamp, by |-> u]]

-----------------------------------------------------------------------------

\* (mutant) The error of COMMIT is not looked at.
CommitFails_Ignored(u) == Finish(u, "none")

\* COMMIT fails and nothing is written.
CommitFails(u) == Finish(u, "other")

\* COMMIT; its success may go unnoticed.
Commit(u) ==
    /\ req[u].pc = "commit"
    /\ \/ /\ row' = [row EXCEPT ![req[u].target] =
                       [id |-> req[u].id, stamp |-> req[u].stamp, by |-> u]]
          /\ text' = IF u \in ScopeUpserts THEN TextWritten(u) ELSE text
          /\ committed' = committed \cup {u}
          /\ Finish(u, "none") \/ Finish(u, "other")
       \/ CommitFails(u) /\ UNCHANGED database

UpsertClient(u) ==
    ReceiveClient(u) \/ BeginTx(u) \/ SelectRow(u) \/ Invalid(u) \/ WriteRow(u) \/ Commit(u) \/ Fails(u)

UpsertTenant(u) ==
    ReceiveTenant(u) \/ BeginTx(u) \/ SelectRow(u) \/ Invalid(u) \/ WriteRow(u) \/ Commit(u) \/ Fails(u)

UpsertScope(u) ==
    \/ ReceiveScope(u) \/ BeginTx(u) \/ SelectScope(u) \/ ClientExistsByID(u) \/ Invalid(u)
    \/ WriteScope(u) \/ WriteText(u) \/ Commit(u) \/ Fails(u)

\* No request is under way.
Terminating == (\A u \in Upserts : req[u].pc \in {"idle", "done"}) /\ UNCHANGED vars

Next == \/ \E u \in ClientUpserts : UpsertClient(u)
        \/ \E u \in TenantUpserts : UpsertTenant(u)
        \/ \E u \in ScopeUpserts : UpsertScope(u)
        \/ Terminating

Spec == Init /\ [][Next]_vars
=============================================================================
