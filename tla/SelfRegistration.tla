-------------------------- MODULE SelfRegistration --------------------------
(***************************************************************************)
(* How the first SSO Manager that starts registers its client and the      *)
(* administrator's account.                                                *)
(*                                                                         *)
(* setup() draws from the sequence sso.setup_admin, of which the migration *)
(* has left the last number, 2.  Who gets it commits a client with         *)
(* UpsertClient, then writes the administrator's rows in a transaction of  *)
(* its own.  Managers start, crash and are started again; PostgreSQL is    *)
(* external, and a sequence is never rolled back.                          *)
(***************************************************************************)
EXTENDS Integers, Sequences

CONSTANTS
    Managers,     \* processes of the SSO Manager
    MaxStarts,    \* bound: how often each of them starts
    MaxFaults,    \* bound: how many errors and crashes there are
    Nil

ASSUME RegistrationAssumption ==
    /\ MaxStarts \in Nat \ {0}
    /\ MaxFaults \in Nat
    /\ Nil \notin Managers

MaxSeq == 2       \* CREATE SEQUENCE ... MAXVALUE 2

\* (mutant) The account is related to the tenant before it is written.
AdminTables_Swapped == <<"tenant", "account_tenant", "account", "account_identifier",
                         "scope", "scope_i18n">>

\* The tables of the transaction, in the order of its INSERTs.
AdminTables == <<"tenant", "account", "account_identifier", "account_tenant",
                 "scope", "scope_i18n">>
Tables == {"tenant", "account", "account_identifier", "account_tenant", "scope", "scope_i18n"}

\* The tables a foreign key of the table leads to.
References(table) ==
    CASE table \in {"tenant", "account"} -> {}
      [] table = "account_identifier" -> {"account"}
      [] table = "account_tenant" -> {"account", "tenant"}
      [] table = "scope" -> {"client"}
      [] table = "scope_i18n" -> {"scope"}

\* One start of one process; each client row is named after the start that wrote it.
Starts == Managers \X (1..MaxStarts)

VARIABLES
    seq,        \* last value of the sequence
    clients,    \* the starts whose client is committed
    admin,      \* the committed administrator's rows: pairs of a start and a table
    manager,    \* [Managers -> the process]
    faults      \* bound: errors and crashes so far

vars == <<seq, clients, admin, manager, faults>>
database == <<seq, clients, admin>>

Init ==
    /\ seq = 1
    /\ clients = {} /\ admin = {}
    /\ manager = [m \in Managers |-> [pc |-> "down", starts |-> 0, drew |-> 0, staged |-> {}]]
    /\ faults = 0

Me(m) == <<m, manager[m].starts>>
Goto(m, pc) == manager' = [manager EXCEPT ![m].pc = pc]

Fault == faults < MaxFaults /\ faults' = faults + 1

\* log.Fatalf, or a crash: an open transaction is rolled back.
Exit(m) == manager' = [manager EXCEPT ![m].pc = "down", ![m].drew = 0, ![m].staged = {}]

-----------------------------------------------------------------------------

\* setup() up to the registration.  The JSON Web Key cannot be loaded, or the
\* configuration not be read: the process ends.
Start(m) ==
    /\ manager[m].pc = "down" /\ manager[m].starts < MaxStarts
    /\ \/ /\ manager' = [manager EXCEPT ![m].pc = "sequence", ![m].starts = @ + 1]
          /\ UNCHANGED faults
       \/ Fault /\ manager' = [manager EXCEPT ![m].starts = @ + 1]
    /\ UNCHANGED database

\* (mutant) The sequence is advanced twice, by the driver's retry.
Advanced_Twice(n) == n + 1

\* nextval advances the sequence at once.
Advanced(n) == n

\* (mutant) The error is logged and the registration goes on.
WithoutNumber_Registers == "client"

\* Without a number: the error is logged, "maybe it can be ignored", and the manager serves.
WithoutNumber == "serving"

\* nextval has an answer: it is an error once the sequence is used up.
NextVal(m) ==
    /\ manager[m].pc = "sequence"
    /\ IF seq < MaxSeq
       THEN /\ seq' = Advanced(seq + 1)
            /\ manager' = [manager EXCEPT
                 ![m].pc = IF seq + 1 = 2 THEN "client" ELSE "serving",
                 ![m].drew = seq + 1]
       ELSE Goto(m, WithoutNumber) /\ UNCHANGED seq
    /\ UNCHANGED <<clients, admin, faults>>

\* nextval fails, before or after it has advanced.
NextValFails(m) ==
    /\ manager[m].pc = "sequence"
    /\ Fault
    /\ seq' \in {seq} \cup {n \in {seq + 1} : n <= MaxSeq}
    /\ Goto(m, WithoutNumber)
    /\ UNCHANGED <<clients, admin>>

\* UpsertClient without an id, a transaction of its own.  Its error, which may come
\* after the COMMIT, is logged; registerSSOManagerApp returns nil.
RegisterClient(m) ==
    /\ manager[m].pc = "client"
    /\ \/ clients' = clients \cup {Me(m)} /\ Goto(m, "begin") /\ UNCHANGED faults
       \/ clients' \in {clients, clients \cup {Me(m)}} /\ Goto(m, "serving") /\ Fault
    /\ UNCHANGED <<seq, admin>>

BeginTx(m) ==
    /\ manager[m].pc = "begin"
    /\ Goto(m, "insert")
    /\ UNCHANGED <<database, faults>>

\* What this transaction sees: the rows it has written and the client.
Visible(m) == manager[m].staged \cup (IF Me(m) \in clients THEN {"client"} ELSE {})

\* (mutant) The rows are written with the pool instead of the transaction.
Insert_AutoCommit(m, table) ==
    /\ manager' = [manager EXCEPT ![m].staged = @ \cup {table}]
    /\ admin' = admin \cup {<<Me(m), table>>}

\* tx.Exec: the row is there when the transaction commits.
Insert(m, table) ==
    /\ manager' = [manager EXCEPT ![m].staged = @ \cup {table}]
    /\ UNCHANGED admin

\* The table of the next INSERT.
Pending(m) == {i \in DOMAIN AdminTables : AdminTables[i] \notin manager[m].staged}
NextTable(m) == AdminTables[CHOOSE i \in Pending(m) : \A j \in Pending(m) : i <= j]

\* One INSERT after the other; one that violates a foreign key is an error, and the
\* process ends.
InsertRow(m) ==
    /\ manager[m].pc = "insert" /\ Pending(m) # {}
    /\ IF References(NextTable(m)) \subseteq Visible(m)
       THEN Insert(m, NextTable(m))
       ELSE Exit(m) /\ UNCHANGED admin
    /\ UNCHANGED <<seq, clients, faults>>

\* COMMIT.  Its error is not looked at, nor is the end of setupTimeout, which has
\* rolled back the transaction by then.
Commit(m) ==
    /\ manager[m].pc = "insert" /\ Pending(m) = {}
    /\ \/ /\ admin' = admin \cup ({Me(m)} \X manager[m].staged)
          /\ UNCHANGED faults
       \/ Fault /\ UNCHANGED admin
    /\ manager' = [manager EXCEPT ![m].pc = "serving", ![m].staged = {}]
    /\ UNCHANGED <<seq, clients>>

\* BEGIN or an INSERT fails, setupTimeout is over: log.Fatalf.
RegistrationFails(m) ==
    /\ manager[m].pc \in {"begin", "insert"}
    /\ Fault
    /\ Exit(m)
    /\ UNCHANGED database

\* The process is killed, at whatever it is.
Crash(m) ==
    /\ manager[m].pc # "down"
    /\ Fault
    /\ Exit(m)
    /\ UNCHANGED database

Registers(m) == \/ NextVal(m) \/ NextValFails(m) \/ RegisterClient(m) \/ BeginTx(m)
                \/ InsertRow(m) \/ Commit(m) \/ RegistrationFails(m)

\* All serve, or may not start again.
Terminating ==
    /\ \A m \in Managers : \/ manager[m].pc = "serving"
                           \/ manager[m].pc = "down" /\ manager[m].starts = MaxStarts
    /\ UNCHANGED vars

Next == \/ \E m \in Managers : Start(m) \/ Registers(m) \/ Crash(m)
        \/ Terminating

Spec == Init /\ [][Next]_vars

\* Somebody starts the managers, and each of them goes on with its setup.
GoesOn(m) == WF_vars(Start(m)) /\ WF_vars(Registers(m))
Fairness == \A m \in Managers : GoesOn(m)

FairSpec == Spec /\ Fairness
=============================================================================
