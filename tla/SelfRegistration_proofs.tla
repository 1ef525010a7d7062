------------------------ MODULE SelfRegistration_proofs ------------------------
(***************************************************************************)
(* Proofs about the registration of the administrator, for any number of   *)
(* managers, starts and faults.                                            *)
(***************************************************************************)
EXTENDS RegistrationProperties, TLAPS

-----------------------------------------------------------------------------
(* The list of tables.                                                     *)

\* The list names tables, and every one of them.
LEMMA TablesListed ==
    /\ DOMAIN AdminTables = 1..6
    /\ \A i \in 1..6 : AdminTables[i] \in Tables
    /\ \A t \in Tables : \E i \in 1..6 : AdminTables[i] = t
<1>1. DOMAIN AdminTables = 1..6
  BY DEF AdminTables
<1>2. \A i \in 1..6 : AdminTables[i] \in Tables
  BY DEF AdminTables, Tables
<1>3. /\ AdminTables[1] = "tenant" /\ AdminTables[2] = "account"
      /\ AdminTables[3] = "account_identifier" /\ AdminTables[4] = "account_tenant"
      /\ AdminTables[5] = "scope" /\ AdminTables[6] = "scope_i18n"
  BY DEF AdminTables
<1>4. \A t \in Tables : \E i \in 1..6 : AdminTables[i] = t
  BY <1>3 DEF Tables
<1>. QED BY <1>1, <1>2, <1>4

\* While an INSERT is left, the next one is of a table; when none is, all tables are
\* written.
LEMMA NextListed ==
    ASSUME NEW m \in Managers
    PROVE  /\ Pending(m) # {} => NextTable(m) \in Tables
           /\ Pending(m) = {} => Tables \subseteq manager[m].staged
<1>1. Pending(m) \subseteq 1..6
  BY TablesListed DEF Pending
<1>2. ASSUME Pending(m) # {}
      PROVE  \E i \in Pending(m) : \A j \in Pending(m) : i <= j
  <2>1. CASE 1 \in Pending(m)
    BY <1>1, <2>1
  <2>2. CASE 1 \notin Pending(m) /\ 2 \in Pending(m)
    BY <1>1, <2>2
  <2>3. CASE 1 \notin Pending(m) /\ 2 \notin Pending(m) /\ 3 \in Pending(m)
    BY <1>1, <2>3
  <2>4. CASE Pending(m) \subseteq 4..6 /\ 4 \in Pending(m)
    BY <2>4
  <2>5. CASE Pending(m) \subseteq 5..6 /\ 5 \in Pending(m)
    BY <2>5
  <2>6. CASE Pending(m) \subseteq {6}
    BY <1>2, <2>6
  <2>. QED BY <1>1, <2>1, <2>2, <2>3, <2>4, <2>5, <2>6
<1>3. Pending(m) # {} => NextTable(m) \in Tables
  <2>. DEFINE i == CHOOSE k \in Pending(m) : \A j \in Pending(m) : k <= j
  <2>1. Pending(m) # {} => i \in Pending(m)
    BY <1>2
  <2>. QED BY <1>1, <2>1, TablesListed DEF NextTable
<1>4. Pending(m) = {} => Tables \subseteq manager[m].staged
  BY TablesListed DEF Pending
<1>. QED BY <1>3, <1>4

-----------------------------------------------------------------------------
(* The inductive invariant.                                                *)

\* A start is counted.
LEMMA SetStarts ==
    ASSUME NEW s \in ManagerState, NEW n \in 0..MaxStarts
    PROVE  LET new == [s EXCEPT !.starts = n]
           IN  new \in ManagerState /\ new.pc = s.pc /\ new.starts = n
BY DEF ManagerState

\* Rows are written in the transaction, or rolled back.
LEMMA SetStaged ==
    ASSUME NEW s \in ManagerState, NEW tables \in SUBSET Tables
    PROVE  LET new == [s EXCEPT !.staged = tables]
           IN  new \in ManagerState /\ new.pc = s.pc /\ new.starts = s.starts
BY DEF ManagerState

Registering == {"client", "begin", "insert"}

\* A process that runs has started.
Started == \A m \in Managers : manager[m].pc # "down" => manager[m].starts \in 1..MaxStarts

\* Nobody registers, and nothing is registered, before the number 2 is drawn; one
\* process at most registers; its client is the only one from the moment it is
\* committed, and the administrator's rows come last.
OneRegistrar ==
    /\ clients # {} \/ (\E m \in Managers : manager[m].pc \in Registering) => seq = MaxSeq
    /\ \A m, o \in Managers :
         manager[m].pc \in Registering /\ manager[o].pc \in Registering => m = o
    /\ \A m \in Managers :
         /\ manager[m].pc \in Registering => admin = {}
         /\ manager[m].pc = "client" => clients = {}
         /\ manager[m].pc \in {"begin", "insert"} => clients = {Me(m)}

IInv == TypeOK /\ Started /\ OneRegistrar /\ OneRegistration

\* The initial state satisfies the invariant.
LEMMA Initially == Init => IInv
BY RegistrationAssumption DEF Init, IInv, TypeOK, Started, OneRegistrar, OneRegistration, ManagerState, Registering, MaxSeq, Tables

\* A step of one process that leaves the rows alone and does not get it to register.
LEMMA Bystander ==
    ASSUME IInv, NEW m \in Managers, NEW new \in ManagerState,
           manager' = [manager EXCEPT ![m] = new],
           new.pc # "down" => new.starts \in 1..MaxStarts,
           \/ new.pc \notin Registering
           \/ new.pc \in {"begin", "insert"} /\ manager[m].pc \in {"begin", "insert"}
              /\ new.starts = manager[m].starts,
           seq' \in seq..MaxSeq, faults' \in 0..MaxFaults,
           UNCHANGED <<clients, admin>>
    PROVE  IInv'
<1>. USE DEF IInv, TypeOK, Started, OneRegistrar, OneRegistration
<1>1. \A o \in Managers : manager'[o] = IF o = m THEN new ELSE manager[o]
  OBVIOUS
<1>2. TypeOK'
  BY DEF MaxSeq
<1>3. Started'
  BY <1>1
<1>4. \A o \in Managers : manager'[o].pc \in Registering =>
        /\ manager[o].pc \in Registering
        /\ manager'[o].pc = "client" => manager[o].pc = "client"
        /\ manager'[o].pc # "client" => manager[o].pc # "client" /\ Me(o)' = Me(o)
  BY <1>1 DEF Registering, Me
<1>5. seq = MaxSeq => seq' = MaxSeq
  BY DEF MaxSeq
<1>6. OneRegistrar'
  BY <1>4, <1>5 DEF Registering
<1>7. OneRegistration'
  OBVIOUS
<1>. QED BY <1>2, <1>3, <1>6, <1>7

\* Every fault is counted.
LEMMA FaultsCounted ==
    ASSUME IInv, \/ Fault \/ UNCHANGED faults
    PROVE  faults' \in 0..MaxFaults
BY RegistrationAssumption DEF IInv, TypeOK, Fault

\* Every step of the processes preserves the invariant.
LEMMA Preserved ==
    ASSUME IInv, [Next]_vars
    PROVE  IInv'
<1>. USE RegistrationAssumption DEF MaxSeq
<1>1. CASE UNCHANGED vars
  BY <1>1 DEF vars, IInv, TypeOK, Started, OneRegistrar, OneRegistration, Me
<1>2. ASSUME NEW m \in Managers, Start(m) \/ Registers(m) \/ Crash(m)
      PROVE  IInv'
  <2>. DEFINE s == manager[m]
  <2>1. s \in ManagerState /\ manager \in [Managers -> ManagerState] /\ seq \in 1..2
        /\ (s.pc # "down" => s.starts \in 1..MaxStarts)
    BY DEF IInv, TypeOK, Started
  <2>2. ASSUME Exit(m), UNCHANGED database, Fault \/ UNCHANGED faults
        PROVE  IInv'
    <3>. DEFINE new == [s EXCEPT !.pc = "down", !.drew = 0, !.staged = {}]
    <3>1. new \in ManagerState /\ new.pc = "down"
      <4>. DEFINE t == [s EXCEPT !.pc = "down"]
                  u == [t EXCEPT !.drew = 0]
      <4>1. t \in ManagerState /\ t.pc = "down"
        BY <2>1 DEF ManagerState
      <4>2. u = [t EXCEPT !.drew = 0] /\ new = [u EXCEPT !.staged = {}]
        OBVIOUS
      <4>. HIDE DEF t, u, new
      <4>3. u \in ManagerState /\ u.pc = "down"
        BY <4>1, <4>2 DEF ManagerState
      <4>. QED BY <4>2, <4>3, SetStaged
    <3>2. manager' = [manager EXCEPT ![m] = new]
      BY <2>1, <2>2 DEF Exit
    <3>3. seq' \in seq..2 /\ UNCHANGED <<clients, admin>>
      BY <2>1, <2>2 DEF database
    <3>4. faults' \in 0..MaxFaults
      BY <2>2, FaultsCounted
    <3>. HIDE DEF new
    <3>. QED BY <3>1, <3>2, <3>3, <3>4, Bystander DEF Registering
  <2>3. ASSUME NEW pc \in {"serving", "insert"}, Goto(m, pc), s.pc # "down",
               pc = "insert" => s.pc = "begin",
               seq' \in seq..MaxSeq, UNCHANGED <<clients, admin>>,
               Fault \/ UNCHANGED faults
        PROVE  IInv'
    <3>. DEFINE new == [s EXCEPT !.pc = pc]
    <3>1. new \in ManagerState /\ new.pc = pc /\ new.starts = s.starts
      BY <2>1 DEF ManagerState
    <3>2. manager' = [manager EXCEPT ![m] = new]
      BY <2>1, <2>3 DEF Goto
    <3>. HIDE DEF new
    <3>. QED BY <2>1, <2>3, <3>1, <3>2, Bystander, FaultsCounted DEF Registering
  <2>4. CASE Start(m)
    <3>1. ASSUME NEW pc \in {"down", "sequence"},
                 manager' = [manager EXCEPT ![m] = [s EXCEPT !.pc = pc, !.starts = @ + 1]]
          PROVE  IInv'
      <4>. DEFINE new == [s EXCEPT !.pc = pc, !.starts = @ + 1]
      <4>1. new \in ManagerState /\ new.pc = pc /\ new.starts \in 1..MaxStarts
        <5>. DEFINE t == [s EXCEPT !.pc = pc]
        <5>1. t \in ManagerState /\ t.pc = pc /\ t.starts = s.starts
          BY <2>1 DEF ManagerState
        <5>2. s.starts + 1 \in 0..MaxStarts /\ s.starts + 1 \in 1..MaxStarts
          BY <2>1, <2>4 DEF Start, ManagerState
        <5>3. new = [t EXCEPT !.starts = s.starts + 1]
          BY <5>1
        <5>. HIDE DEF t, new
        <5>. QED BY <5>1, <5>2, <5>3, SetStarts
      <4>2. manager' = [manager EXCEPT ![m] = new]
        BY <3>1
      <4>3. seq' \in seq..2 /\ UNCHANGED <<clients, admin>>
        BY <2>1, <2>4 DEF Start, database
      <4>4. faults' \in 0..MaxFaults
        BY <2>4, FaultsCounted DEF Start
      <4>. HIDE DEF new
      <4>. QED BY <4>1, <4>2, <4>3, <4>4, Bystander DEF Registering
    <3>2. CASE manager' = [manager EXCEPT ![m].pc = "sequence", ![m].starts = @ + 1]
      <4>1. manager' = [manager EXCEPT ![m] = [s EXCEPT !.pc = "sequence", !.starts = @ + 1]]
        BY <2>1, <3>2
      <4>. QED BY <3>1, <4>1
    <3>3. CASE manager' = [manager EXCEPT ![m].starts = @ + 1]
      <4>1. [s EXCEPT !.starts = @ + 1] = [s EXCEPT !.pc = "down", !.starts = @ + 1]
        BY <2>1, <2>4 DEF Start, ManagerState
      <4>2. manager' = [manager EXCEPT ![m] = [s EXCEPT !.pc = "down", !.starts = @ + 1]]
        BY <2>1, <3>3, <4>1
      <4>. QED BY <3>1, <4>2
    <3>. QED BY <2>4, <3>2, <3>3 DEF Start
  <2>5. CASE NextVal(m)
    <3>1. CASE seq = 2
      BY <2>1, <2>3, <2>5, <3>1 DEF NextVal, WithoutNumber
    <3>2. CASE seq = 1
      <4>. DEFINE new == [s EXCEPT !.pc = "client", !.drew = 2]
      <4>1. new \in ManagerState /\ new.pc = "client" /\ new.starts = s.starts
        <5>. DEFINE t == [s EXCEPT !.pc = "client"]
        <5>1. t \in ManagerState /\ t.pc = "client" /\ t.starts = s.starts
          BY <2>1 DEF ManagerState
        <5>2. new = [t EXCEPT !.drew = 2]
          OBVIOUS
        <5>. HIDE DEF t, new
        <5>. QED BY <5>1, <5>2 DEF ManagerState
      <4>2. /\ manager' = [manager EXCEPT ![m] = new] /\ seq' = 2
            /\ UNCHANGED <<clients, admin, faults>> /\ s.pc = "sequence"
        <5>1. manager' = [manager EXCEPT ![m].pc = "client", ![m].drew = 2]
          BY <2>5, <3>2 DEF NextVal
        <5>2. manager' = [manager EXCEPT ![m] = new]
          BY <2>1, <5>1
        <5>. QED BY <2>5, <3>2, <5>2 DEF NextVal, Advanced
      <4>. HIDE DEF new
      <4>3. \A o \in Managers : manager'[o] = IF o = m THEN new ELSE manager[o]
        BY <2>1, <4>2
      <4>4. clients = {} /\ admin = {} /\ \A o \in Managers : manager[o].pc \notin Registering
        BY <3>2 DEF IInv, OneRegistrar, OneRegistration
      <4>5. TypeOK' /\ Started'
        BY <2>1, <4>1, <4>2, <4>3 DEF IInv, TypeOK, Started
      <4>6. OneRegistrar' /\ OneRegistration'
        BY <4>1, <4>2, <4>3, <4>4 DEF OneRegistrar, OneRegistration, Registering
      <4>. QED BY <4>5, <4>6 DEF IInv
    <3>. QED BY <2>1, <3>1, <3>2
  <2>6. CASE NextValFails(m)
    BY <2>1, <2>3, <2>6 DEF NextValFails, WithoutNumber
  <2>7. CASE RegisterClient(m)
    <3>1. s.pc = "client" /\ clients = {} /\ admin = {} /\ seq = 2 /\ UNCHANGED <<seq, admin>>
      BY <2>7 DEF RegisterClient, IInv, OneRegistrar, Registering
    <3>2. clients' \in {{}, {Me(m)}} /\ Me(m) \in Starts
      BY <2>1, <2>7, <3>1 DEF RegisterClient, Me, Starts
    <3>3. PICK pc \in {"begin", "serving"} :
            /\ Goto(m, pc) /\ (pc = "begin" => clients' = {Me(m)})
            /\ Fault \/ UNCHANGED faults
      BY <2>7, <3>1 DEF RegisterClient
    <3>. DEFINE new == [s EXCEPT !.pc = pc]
    <3>4. new \in ManagerState /\ new.pc = pc /\ new.starts = s.starts
      BY <2>1 DEF ManagerState
    <3>5. manager' = [manager EXCEPT ![m] = new]
      BY <2>1, <3>3 DEF Goto
    <3>. HIDE DEF new
    <3>6. \A o \in Managers : manager'[o] = IF o = m THEN new ELSE manager[o]
      BY <2>1, <3>5
    <3>7. \A o \in Managers : o # m => manager'[o].pc \notin Registering
      BY <3>1, <3>6 DEF IInv, OneRegistrar, Registering
    <3>8. Me(m)' = Me(m)
      BY <3>4, <3>6 DEF Me
    <3>9. TypeOK' /\ Started'
      BY <2>1, <3>1, <3>2, <3>3, <3>4, <3>5, <3>6, FaultsCounted DEF IInv, TypeOK, Started
    <3>10. OneRegistrar'
      BY <3>1, <3>3, <3>4, <3>6, <3>7, <3>8 DEF OneRegistrar, Registering
    <3>11. OneRegistration'
      BY <3>1, <3>2 DEF OneRegistration
    <3>. QED BY <3>9, <3>10, <3>11 DEF IInv
  <2>8. CASE BeginTx(m)
    BY <2>1, <2>3, <2>8 DEF BeginTx, database
  <2>9. CASE InsertRow(m)
    <3>1. CASE Insert(m, NextTable(m))
      <4>. DEFINE new == [s EXCEPT !.staged = @ \cup {NextTable(m)}]
      <4>1. NextTable(m) \in Tables
        BY <2>9, NextListed DEF InsertRow
      <4>2. new \in ManagerState /\ new.pc = "insert" /\ new.starts = s.starts /\ s.pc = "insert"
        BY <2>1, <2>9, <4>1 DEF ManagerState, InsertRow
      <4>3. manager' = [manager EXCEPT ![m] = new]
        BY <2>1, <3>1 DEF Insert
      <4>4. seq' \in seq..2 /\ UNCHANGED <<clients, admin>>
        BY <2>1, <2>9, <3>1 DEF InsertRow, Insert
      <4>5. faults' \in 0..MaxFaults
        BY <2>9, FaultsCounted DEF InsertRow
      <4>6. new.starts \in 1..MaxStarts
        BY <2>1, <4>2
      <4>. HIDE DEF new
      <4>. QED BY <4>2, <4>3, <4>4, <4>5, <4>6, Bystander DEF Registering
    <3>2. CASE Exit(m) /\ UNCHANGED admin
      BY <2>2, <2>9, <3>2 DEF InsertRow, database
    <3>. QED BY <2>9, <3>1, <3>2 DEF InsertRow
  <2>10. CASE Commit(m)
    <3>. DEFINE new == [s EXCEPT !.pc = "serving", !.staged = {}]
    <3>1. new \in ManagerState /\ new.pc = "serving" /\ new.starts = s.starts /\ s.pc = "insert"
      BY <2>1, <2>10 DEF ManagerState, Commit
    <3>2. manager' = [manager EXCEPT ![m] = new] /\ UNCHANGED <<seq, clients>>
      BY <2>1, <2>10 DEF Commit
    <3>3. clients = {Me(m)} /\ admin = {} /\ seq = 2 /\ Me(m) \in Starts
      BY <2>1, <3>1 DEF IInv, OneRegistrar, Registering, Me, Starts
    <3>4. s.staged = Tables
      BY <2>1, <2>10, NextListed DEF Commit, ManagerState
    <3>5. admin' \in {{}, {Me(m)} \X Tables} /\ (Fault \/ UNCHANGED faults)
      BY <2>10, <3>3, <3>4 DEF Commit
    <3>. HIDE DEF new
    <3>6. \A o \in Managers : manager'[o] = IF o = m THEN new ELSE manager[o]
      BY <2>1, <3>2
    <3>7. \A o \in Managers : manager'[o].pc \notin Registering
      BY <3>1, <3>6 DEF IInv, OneRegistrar, Registering
    <3>8. TypeOK' /\ Started'
      BY <2>1, <3>1, <3>2, <3>3, <3>5, <3>6, FaultsCounted DEF IInv, TypeOK, Started
    <3>9. OneRegistrar'
      BY <3>2, <3>3, <3>7 DEF OneRegistrar, Registering
    <3>10. OneRegistration'
      BY <3>2, <3>3, <3>5 DEF OneRegistration
    <3>. QED BY <3>8, <3>9, <3>10 DEF IInv
  <2>11. CASE RegistrationFails(m)
    BY <2>2, <2>11 DEF RegistrationFails
  <2>12. CASE Crash(m)
    BY <2>2, <2>12 DEF Crash
  <2>. QED BY <1>2, <2>4, <2>5, <2>6, <2>7, <2>8, <2>9, <2>10, <2>11, <2>12 DEF Registers
<1>. QED BY <1>1, <1>2 DEF Next, Terminating

\* The invariant holds in every reachable state.
LEMMA Invariance == Spec => []IInv
BY Initially, Preserved, PTL DEF Spec

-----------------------------------------------------------------------------

\* Every reachable state of the registration is well typed.
THEOREM TypeCorrect == Spec => []TypeOK
<1>1. IInv => TypeOK
  BY DEF IInv
<1>. QED BY <1>1, Invariance, PTL

\* One start at most registers a client and an administrator, who has all its rows or none,
\* however many managers start, crash and are started again (self-register.go:15-28, 41-157).
THEOREM RegisteredOnce == Spec => []OneRegistration
<1>1. IInv => OneRegistration
  BY DEF IInv
<1>. QED BY <1>1, Invariance, PTL

-----------------------------------------------------------------------------
(* The order of the INSERTs.                                               *)

\* The tables of the first n INSERTs.
Prefix(n) == {AdminTables[i] : i \in 1..n}

\* After n INSERTs the next one is of the table n + 1, all that its foreign keys lead to is
\* written, and nothing is left after the sixth.
LEMMA NextInOrder ==
    ASSUME NEW m \in Managers, NEW n \in 0..6, manager[m].staged = Prefix(n)
    PROVE  /\ n < 6 => /\ Pending(m) # {} /\ NextTable(m) = AdminTables[n + 1]
                       /\ References(NextTable(m)) \subseteq Prefix(n) \cup {"client"}
                       /\ Prefix(n) \cup {NextTable(m)} = Prefix(n + 1)
           /\ n = 6 => Pending(m) = {}
<1>1. /\ AdminTables[1] = "tenant" /\ AdminTables[2] = "account"
      /\ AdminTables[3] = "account_identifier" /\ AdminTables[4] = "account_tenant"
      /\ AdminTables[5] = "scope" /\ AdminTables[6] = "scope_i18n"
  BY DEF AdminTables
<1>2. \A i \in 1..6 : \A j \in 1..6 : AdminTables[i] = AdminTables[j] => i = j
  BY <1>1
<1>3. Pending(m) = (n + 1)..6
  BY <1>2, TablesListed DEF Pending, Prefix
<1>4. ASSUME n < 6
      PROVE  NextTable(m) = AdminTables[n + 1]
  <2>. DEFINE i == CHOOSE k \in Pending(m) : \A j \in Pending(m) : k <= j
  <2>1. n + 1 \in Pending(m) /\ \A j \in Pending(m) : n + 1 <= j
    BY <1>3, <1>4
  <2>2. i \in Pending(m) /\ \A j \in Pending(m) : i <= j
    BY <2>1
  <2>3. i = n + 1
    BY <1>3, <2>1, <2>2
  <2>. QED BY <2>3 DEF NextTable
<1>5. ASSUME n < 6
      PROVE  References(AdminTables[n + 1]) \subseteq Prefix(n) \cup {"client"}
  <2>1. CASE n \in {0, 1}
    BY <1>1, <2>1 DEF References
  <2>2. CASE n = 2
    BY <1>1, <2>2 DEF References, Prefix
  <2>3. CASE n = 3
    BY <1>1, <2>3 DEF References, Prefix
  <2>4. CASE n = 4
    BY <1>1, <2>4 DEF References
  <2>5. CASE n = 5
    BY <1>1, <2>5 DEF References, Prefix
  <2>. QED BY <1>5, <2>1, <2>2, <2>3, <2>4, <2>5
<1>6. ASSUME n < 6
      PROVE  Prefix(n) \cup {AdminTables[n + 1]} = Prefix(n + 1)
  <2>1. 1..(n + 1) = (1..n) \cup {n + 1}
    OBVIOUS
  <2>. QED BY <2>1 DEF Prefix
<1>. QED BY <1>3, <1>4, <1>5, <1>6

\* Rows are written in the order of the list, in the transaction only.
InOrder ==
    \A m \in Managers :
        /\ manager[m].pc # "insert" => manager[m].staged = {}
        /\ manager[m].pc = "insert" => \E n \in 0..6 : manager[m].staged = Prefix(n)

\* No INSERT of the list violates a foreign key: the transaction goes on.
LEMMA InsertGoesOn ==
    ASSUME IInv, NEW m \in Managers, NEW n \in 0..6, manager[m].staged = Prefix(n), InsertRow(m)
    PROVE  n < 6 /\ manager' = [manager EXCEPT ![m].staged = Prefix(n + 1)]
<1>1. manager[m].pc = "insert" /\ n < 6
  BY NextInOrder DEF InsertRow
<1>2. "client" \in Visible(m)
  BY <1>1 DEF IInv, OneRegistrar, Visible
<1>3. References(NextTable(m)) \subseteq Visible(m)
  BY <1>1, <1>2, NextInOrder DEF Visible
<1>4. manager' = [manager EXCEPT ![m].staged = Prefix(n) \cup {NextTable(m)}]
  BY <1>3 DEF InsertRow, Insert
<1>. QED BY <1>1, <1>4, NextInOrder

\* What a step of a manager does to its place and to its rows; the others stay where they
\* are.
LEMMA OwnStep ==
    ASSUME IInv, InOrder, NEW m \in Managers, Start(m) \/ Registers(m) \/ Crash(m)
    PROVE  /\ \A o \in Managers : o # m => manager'[o] = manager[o]
           /\ \/ manager'[m].pc # "insert" /\ manager'[m].staged = {}
              \/ manager'[m].pc = "insert" /\ manager[m].pc = "begin"
                 /\ manager'[m].staged = Prefix(0)
              \/ \E n \in 0..5 :
                    /\ manager[m].pc = "insert" /\ manager[m].staged = Prefix(n)
                    /\ manager'[m].pc = "insert" /\ manager'[m].staged = Prefix(n + 1)
<1>. USE DEF IInv, TypeOK, ManagerState, InOrder
<1>1. CASE Start(m)
  BY <1>1 DEF Start
<1>2. CASE NextVal(m) \/ NextValFails(m) \/ RegisterClient(m)
  BY <1>2 DEF NextVal, NextValFails, RegisterClient, Goto, WithoutNumber
<1>3. CASE BeginTx(m)
  BY <1>3 DEF BeginTx, Goto, Prefix
<1>4. CASE InsertRow(m)
  <2>1. PICK n \in 0..6 : manager[m].staged = Prefix(n)
    BY <1>4 DEF InsertRow
  <2>. QED BY <1>4, <2>1, InsertGoesOn DEF InsertRow
<1>5. CASE Commit(m)
  BY <1>5 DEF Commit
<1>6. CASE RegistrationFails(m) \/ Crash(m)
  BY <1>6 DEF RegistrationFails, Crash, Exit
<1>. QED BY <1>1, <1>2, <1>3, <1>4, <1>5, <1>6 DEF Registers

LEMMA InOrderInit == Init => InOrder
<1>. SUFFICES ASSUME Init, NEW m \in Managers
              PROVE  manager[m].pc # "insert" /\ manager[m].staged = {}
  BY DEF InOrder
<1>. QED BY DEF Init

LEMMA InOrderStep ==
    ASSUME IInv, InOrder, [Next]_vars
    PROVE  InOrder'
<1>1. ASSUME NEW m \in Managers, Start(m) \/ Registers(m) \/ Crash(m)
      PROVE  InOrder'
  <2>1. \A n \in 0..5 : n + 1 \in 0..6
    OBVIOUS
  <2>. QED BY <1>1, <2>1, OwnStep DEF InOrder
<1>. QED BY <1>1 DEF Next, Terminating, vars, InOrder

-----------------------------------------------------------------------------
(* Where nothing fails.                                                    *)

\* As long as nothing has failed a process is down only before its first start; who serves
\* has drawn from the sequence, or somebody else has; and who drew the number 2 is
\* registering the administrator or has done so.
Calm ==
    faults = 0 =>
        /\ \A m \in Managers :
             /\ manager[m].pc = "down" => manager[m].starts = 0
             /\ manager[m].pc = "serving" => seq = MaxSeq
        /\ seq = MaxSeq => admin # {} \/ \E m \in Managers : manager[m].pc \in Registering

At(m, pc) == manager[m].pc = pc
Staged(m, n) == manager[m].pc = "insert" /\ manager[m].staged = Prefix(n)

\* How far a manager gets with each step.
LEMMA CalmStep ==
    ASSUME IInv, InOrder, Calm, faults = 0, faults' = 0, NEW m \in Managers,
           Start(m) \/ Registers(m) \/ Crash(m)
    PROVE  /\ ~At(m, "serving")
           /\ admin \subseteq admin' /\ seq' \in seq..MaxSeq
           /\ At(m, "down") => At(m, "sequence")' /\ seq' = seq /\ admin' = admin
           /\ At(m, "sequence") => /\ At(m, "client")' \/ At(m, "serving")'
                                   /\ At(m, "serving")' => seq = MaxSeq
                                   /\ At(m, "serving")' => admin' = admin
                                   /\ seq' = MaxSeq
           /\ At(m, "client") => At(m, "begin")'
           /\ At(m, "begin") => Staged(m, 0)'
           /\ \A n \in 0..5 : Staged(m, n) => Staged(m, n + 1)'
           /\ Staged(m, 6) => At(m, "serving")' /\ admin' # {} /\ seq = MaxSeq
<1>. USE DEF IInv, TypeOK, ManagerState, At, Staged, Fault, MaxSeq
<1>1. CASE Start(m)
  BY <1>1 DEF Start, database
<1>2. CASE NextVal(m)
  BY <1>2 DEF NextVal, Goto, WithoutNumber, Advanced
<1>3. CASE NextValFails(m) \/ RegistrationFails(m) \/ Crash(m)
  BY <1>3 DEF NextValFails, RegistrationFails, Crash
<1>4. CASE RegisterClient(m)
  BY <1>4 DEF RegisterClient, Goto
<1>5. CASE BeginTx(m)
  BY <1>5 DEF BeginTx, Goto, InOrder, Prefix, database
<1>6. CASE InsertRow(m)
  <2>1. ASSUME NEW n \in 0..6, Staged(m, n)
        PROVE  n < 6 /\ Staged(m, n + 1)'
    BY <1>6, <2>1, InsertGoesOn
  <2>2. admin' = admin /\ seq' = seq /\ manager[m].pc = "insert"
    BY <1>6 DEF InsertRow, Insert
  <2>. QED BY <2>1, <2>2
<1>7. CASE Commit(m)
  <2>1. \A n \in 0..5 : ~Staged(m, n)
    BY <1>7, NextInOrder DEF Commit
  <2>2. manager[m].pc = "insert" /\ At(m, "serving")' /\ seq' = seq /\ seq = 2
    BY <1>7 DEF Commit, OneRegistrar, Registering
  <2>3. admin' = admin \cup ({Me(m)} \X manager[m].staged)
    BY <1>7 DEF Commit
  <2>4. Staged(m, 6) => <<Me(m), AdminTables[1]>> \in admin'
    BY <2>3 DEF Prefix
  <2>. QED BY <2>1, <2>2, <2>3, <2>4
<1>. QED BY <1>1, <1>2, <1>3, <1>4, <1>5, <1>6, <1>7 DEF Registers

\* While nothing fails, a step is a manager's own, or changes nothing.
LEMMA CalmNext ==
    ASSUME [Next]_vars
    PROVE  \/ \E m \in Managers : Start(m) \/ Registers(m) \/ Crash(m)
           \/ UNCHANGED vars
BY DEF Next, Terminating

\* Faults are never forgotten.
LEMMA FaultsStay ==
    ASSUME IInv, [Next]_vars, faults' = 0
    PROVE  faults = 0
<1>. USE DEF IInv, TypeOK, Fault
<1>1. ASSUME NEW m \in Managers, Start(m) \/ Registers(m) \/ Crash(m)
      PROVE  faults' = faults \/ Fault
  BY <1>1 DEF Registers, Start, NextVal, NextValFails, RegisterClient, BeginTx, InsertRow,
              Commit, RegistrationFails, Crash
<1>. QED BY <1>1, CalmNext, RegistrationAssumption DEF vars

LEMMA CalmInit == Init => Calm
<1>. SUFFICES ASSUME Init
              PROVE  Calm
  OBVIOUS
<1>1. \A m \in Managers : manager[m].pc = "down" /\ manager[m].starts = 0
  BY DEF Init
<1>. QED BY <1>1 DEF Init, Calm, MaxSeq

LEMMA CalmKept ==
    ASSUME IInv, InOrder, Calm, [Next]_vars
    PROVE  Calm'
<1>. SUFFICES ASSUME faults' = 0
              PROVE  Calm'
  BY DEF Calm
<1>. USE DEF MaxSeq
<1>1. faults = 0
  BY FaultsStay
<1>2. CASE UNCHANGED vars
  BY <1>2 DEF vars, Calm
<1>3. ASSUME NEW m \in Managers, Start(m) \/ Registers(m) \/ Crash(m)
      PROVE  Calm'
  <2>1. \A o \in Managers : o # m => manager'[o] = manager[o]
    BY <1>3, OwnStep
  <2>2. \/ At(m, "down") \/ At(m, "sequence") \/ At(m, "client") \/ At(m, "begin")
        \/ \E n \in 0..6 : Staged(m, n)
    BY <1>1, <1>3, CalmStep DEF IInv, TypeOK, ManagerState, At, InOrder, Staged
  <2>3. admin \subseteq admin' /\ seq' \in seq..2 /\ seq \in 1..2
    BY <1>1, <1>3, CalmStep DEF IInv, TypeOK
  <2>. USE DEF Calm, At, Staged, Registering
  <2>4. CASE At(m, "down")
    BY <1>1, <1>3, <2>1, <2>3, <2>4, CalmStep
  <2>5. CASE At(m, "sequence")
    BY <1>1, <1>3, <2>1, <2>3, <2>5, CalmStep
  <2>6. CASE At(m, "client")
    BY <1>1, <1>3, <2>1, <2>3, <2>6, CalmStep
  <2>7. CASE At(m, "begin")
    BY <1>1, <1>3, <2>1, <2>3, <2>7, CalmStep
  <2>8. ASSUME NEW n \in 0..5, Staged(m, n)
        PROVE  Calm'
    <3>1. manager'[m].pc = "insert"
      BY <1>1, <1>3, <2>8, CalmStep
    <3>. QED BY <1>1, <2>1, <2>3, <2>8, <3>1
  <2>9. CASE Staged(m, 6)
    BY <1>1, <1>3, <2>1, <2>3, <2>9, CalmStep
  <2>10. \A n \in 0..6 : n \in 0..5 \/ n = 6
    OBVIOUS
  <2>. QED BY <2>2, <2>4, <2>5, <2>6, <2>7, <2>8, <2>9, <2>10
<1>. QED BY <1>2, <1>3, CalmNext

-----------------------------------------------------------------------------
(* Every manager comes to serve.                                           *)

Served(m) == At(m, "serving")
Orderly == IInv /\ InOrder /\ Calm
Faultless == faults = 0

LEMMA OrderlyAlways == Spec => []Orderly
<1>1. Init => Orderly
  BY Initially, InOrderInit, CalmInit DEF Orderly
<1>2. Orderly /\ [Next]_vars => Orderly'
  BY Preserved, InOrderStep, CalmKept DEF Orderly
<1>. QED BY <1>1, <1>2, PTL DEF Spec

\* Whatever step is taken, a manager stays where it is or gets further.
LEMMA ManagerSteps ==
    ASSUME Orderly, Faultless, Faultless', [Next]_vars, NEW m \in Managers
    PROVE  /\ At(m, "down") => At(m, "down")' \/ At(m, "sequence")'
           /\ At(m, "sequence") => At(m, "sequence")' \/ At(m, "client")' \/ Served(m)'
           /\ At(m, "client") => At(m, "client")' \/ At(m, "begin")'
           /\ At(m, "begin") => At(m, "begin")' \/ Staged(m, 0)'
           /\ \A n \in 0..5 : Staged(m, n) => Staged(m, n)' \/ Staged(m, n + 1)'
           /\ Staged(m, 6) => Staged(m, 6)' \/ (Served(m)' /\ (admin # {})')
           /\ Served(m) => Served(m)'
           /\ admin # {} => (admin # {})'
<1>1. CASE UNCHANGED vars
  BY <1>1 DEF vars, At, Staged, Served
<1>2. ASSUME NEW o \in Managers, Start(o) \/ Registers(o) \/ Crash(o)
      PROVE  /\ \/ manager'[m] = manager[m]
                \/ m = o
             /\ admin # {} => (admin # {})'
  BY <1>2, OwnStep, CalmStep DEF Orderly, Faultless
<1>3. ASSUME Start(m) \/ Registers(m) \/ Crash(m)
      PROVE  /\ At(m, "down") => At(m, "sequence")'
             /\ At(m, "sequence") => At(m, "client")' \/ Served(m)'
             /\ At(m, "client") => At(m, "begin")'
             /\ At(m, "begin") => Staged(m, 0)'
             /\ \A n \in 0..5 : Staged(m, n) => Staged(m, n + 1)'
             /\ Staged(m, 6) => Served(m)' /\ (admin # {})'
             /\ ~Served(m)
  BY <1>3, CalmStep DEF Orderly, Faultless, Served
<1>4. ASSUME manager'[m] = manager[m], admin # {} => (admin # {})'
      PROVE  /\ At(m, "down") => At(m, "down")'
             /\ At(m, "sequence") => At(m, "sequence")'
             /\ At(m, "client") => At(m, "client")'
             /\ At(m, "begin") => At(m, "begin")'
             /\ \A n \in 0..6 : Staged(m, n) => Staged(m, n)'
             /\ Served(m) => Served(m)'
  BY <1>4 DEF At, Staged, Served
<1>. QED BY <1>1, <1>2, <1>3, <1>4, CalmNext

\* Each step of a manager brings it further, and it can take one until it serves.
LEMMA ManagerGetsOn ==
    ASSUME Orderly, Faultless, NEW m \in Managers
    PROVE  /\ Faultless' /\ Start(m) => ~At(m, "down")'
           /\ Faultless' /\ Registers(m) =>
                /\ At(m, "sequence") => ~At(m, "sequence")'
                /\ At(m, "client") => ~At(m, "client")'
                /\ At(m, "begin") => ~At(m, "begin")'
                /\ \A n \in 0..5 : Staged(m, n) => Staged(m, n + 1)'
                /\ Staged(m, 6) => Served(m)' /\ (admin # {})'
           /\ ManagersNeverWait /\ At(m, "down") => ENABLED <<Start(m)>>_vars
           /\ ManagersNeverWait =>
                /\ At(m, "sequence") \/ At(m, "client") \/ At(m, "begin")
                   => ENABLED <<Registers(m)>>_vars
                /\ \A n \in 0..6 : Staged(m, n) => ENABLED <<Registers(m)>>_vars
           /\ \/ At(m, "down") \/ At(m, "sequence") \/ At(m, "client") \/ At(m, "begin")
              \/ \E n \in 0..6 : Staged(m, n)
              \/ Served(m)
<1>1. ASSUME Faultless', Start(m) \/ Registers(m)
      PROVE  /\ At(m, "down") => At(m, "sequence")'
             /\ At(m, "sequence") => At(m, "client")' \/ At(m, "serving")'
             /\ At(m, "client") => At(m, "begin")'
             /\ At(m, "begin") => Staged(m, 0)'
             /\ \A n \in 0..5 : Staged(m, n) => Staged(m, n + 1)'
             /\ Staged(m, 6) => Served(m)' /\ (admin # {})'
             /\ Start(m) => At(m, "down")
  BY <1>1, CalmStep DEF Orderly, Faultless, Served, Start, At
<1>2. ManagersNeverWait /\ At(m, "down") => ENABLED <<Start(m)>>_vars
  BY RegistrationAssumption DEF ManagersNeverWait, At, Orderly, Calm, Faultless
<1>3. ManagersNeverWait =>
        /\ At(m, "sequence") \/ At(m, "client") \/ At(m, "begin")
           => ENABLED <<Registers(m)>>_vars
        /\ \A n \in 0..6 : Staged(m, n) => ENABLED <<Registers(m)>>_vars
  BY DEF ManagersNeverWait, At, Staged
<1>4. \/ At(m, "down") \/ At(m, "sequence") \/ At(m, "client") \/ At(m, "begin")
      \/ \E n \in 0..6 : Staged(m, n)
      \/ Served(m)
  BY DEF Orderly, IInv, TypeOK, ManagerState, InOrder, At, Staged, Served
<1>5. Faultless' /\ Registers(m) =>
        /\ At(m, "sequence") => ~At(m, "sequence")'
        /\ At(m, "client") => ~At(m, "client")'
        /\ At(m, "begin") => ~At(m, "begin")'
  BY <1>1 DEF At, Staged
<1>6. Faultless' /\ Start(m) => ~At(m, "down")'
  BY <1>1 DEF At
<1>. QED BY <1>1, <1>2, <1>3, <1>4, <1>5, <1>6

\* A behaviour, or the rest of one, in which nothing fails and no manager waits.
Calmly == []Orderly /\ [][Next]_vars /\ []ManagersNeverWait /\ []Faultless

InsertLeads(m, n, k) == Staged(m, n) ~> Staged(m, k)

\* One INSERT comes after the other.
LEMMA NextInsert ==
    ASSUME NEW m \in Managers, NEW n \in 0..5, NEW k \in 1..6, k = n + 1
    PROVE  Calmly /\ GoesOn(m) => InsertLeads(m, n, k)
<1>1. Orderly /\ Faultless /\ Faultless' /\ [Next]_vars /\ Staged(m, n) =>
        Staged(m, n)' \/ Staged(m, k)'
  BY ManagerSteps
<1>2. Orderly /\ Faultless /\ Faultless' /\ Registers(m) /\ Staged(m, n) => Staged(m, k)'
  BY ManagerGetsOn
<1>3. Orderly /\ Faultless /\ ManagersNeverWait /\ Staged(m, n) => ENABLED <<Registers(m)>>_vars
  BY ManagerGetsOn
<1>. QED BY <1>1, <1>2, <1>3, PTL DEF Calmly, GoesOn, InsertLeads

\* The last INSERT is followed by the COMMIT.
LEMMA CommitComes ==
    ASSUME NEW m \in Managers
    PROVE  Calmly /\ GoesOn(m) => (At(m, "insert") ~> Served(m) /\ admin # {})
<1>1. Orderly /\ Faultless /\ Faultless' /\ [Next]_vars /\ Staged(m, 6) =>
        Staged(m, 6)' \/ (Served(m)' /\ (admin # {})')
  BY ManagerSteps
<1>2. Orderly /\ Faultless /\ Faultless' /\ Registers(m) /\ Staged(m, 6) =>
        Served(m)' /\ (admin # {})'
  BY ManagerGetsOn
<1>3. Orderly /\ Faultless /\ ManagersNeverWait /\ Staged(m, 6) => ENABLED <<Registers(m)>>_vars
  BY ManagerGetsOn
<1>4. Calmly /\ GoesOn(m) => (Staged(m, 6) ~> Served(m) /\ admin # {})
  BY <1>1, <1>2, <1>3, PTL DEF Calmly, GoesOn
<1>5. Calmly /\ GoesOn(m) =>
        /\ InsertLeads(m, 0, 1) /\ InsertLeads(m, 1, 2) /\ InsertLeads(m, 2, 3)
        /\ InsertLeads(m, 3, 4) /\ InsertLeads(m, 4, 5) /\ InsertLeads(m, 5, 6)
  BY NextInsert
<1>6. Orderly /\ At(m, "insert") =>
        \/ Staged(m, 0) \/ Staged(m, 1) \/ Staged(m, 2) \/ Staged(m, 3) \/ Staged(m, 4)
        \/ Staged(m, 5) \/ Staged(m, 6)
  BY DEF Orderly, InOrder, At, Staged
<1>. QED BY <1>4, <1>5, <1>6, PTL DEF InsertLeads, Calmly

\* Who drew the number 2 comes to commit the administrator, and serves.
LEMMA RegistrarCommits ==
    ASSUME NEW m \in Managers
    PROVE  Calmly /\ GoesOn(m) =>
             (manager[m].pc \in Registering ~> Served(m) /\ admin # {})
<1>1. Orderly /\ Faultless /\ Faultless' /\ [Next]_vars =>
        /\ At(m, "client") => At(m, "client")' \/ At(m, "begin")'
        /\ At(m, "begin") => At(m, "begin")' \/ Staged(m, 0)'
  BY ManagerSteps
<1>2. Orderly /\ Faultless /\ Faultless' /\ Registers(m) =>
        /\ At(m, "client") => ~At(m, "client")'
        /\ At(m, "begin") => ~At(m, "begin")'
  BY ManagerGetsOn
<1>3. Orderly /\ Faultless /\ ManagersNeverWait /\ (At(m, "client") \/ At(m, "begin"))
        => ENABLED <<Registers(m)>>_vars
  BY ManagerGetsOn
<1>4. Calmly /\ GoesOn(m) => (At(m, "client") ~> At(m, "begin"))
  BY <1>1, <1>2, <1>3, PTL DEF Calmly, GoesOn
<1>5. Calmly /\ GoesOn(m) => (At(m, "begin") ~> Staged(m, 0))
  BY <1>1, <1>2, <1>3, PTL DEF Calmly, GoesOn
<1>6. Staged(m, 0) => At(m, "insert")
  BY DEF At, Staged
<1>7. manager[m].pc \in Registering => At(m, "client") \/ At(m, "begin") \/ At(m, "insert")
  BY DEF Registering, At
<1>. QED BY <1>4, <1>5, <1>6, <1>7, CommitComes, PTL

StaysServing(m) == <>[]Served(m)

\* Every manager comes to serve.
LEMMA ManagerServes ==
    ASSUME NEW m \in Managers
    PROVE  Calmly /\ GoesOn(m) => StaysServing(m)
<1>1. Orderly /\ Faultless /\ Faultless' /\ [Next]_vars =>
        /\ At(m, "down") => At(m, "down")' \/ At(m, "sequence")'
        /\ At(m, "sequence") => At(m, "sequence")' \/ At(m, "client")' \/ Served(m)'
        /\ Served(m) => Served(m)'
  BY ManagerSteps
<1>2. Orderly /\ Faultless /\ Faultless' =>
        /\ Start(m) => (At(m, "down") => ~At(m, "down")')
        /\ Registers(m) => (At(m, "sequence") => ~At(m, "sequence")')
  BY ManagerGetsOn
<1>3. Orderly /\ Faultless /\ ManagersNeverWait =>
        /\ At(m, "down") => ENABLED <<Start(m)>>_vars
        /\ At(m, "sequence") => ENABLED <<Registers(m)>>_vars
  BY ManagerGetsOn
<1>4. Calmly /\ GoesOn(m) => (At(m, "down") ~> At(m, "sequence"))
  BY <1>1, <1>2, <1>3, PTL DEF Calmly, GoesOn
<1>5. Calmly /\ GoesOn(m) => (At(m, "sequence") ~> At(m, "client") \/ Served(m))
  BY <1>1, <1>2, <1>3, PTL DEF Calmly, GoesOn
<1>6. At(m, "client") => manager[m].pc \in Registering
  BY DEF At, Registering
<1>7. Orderly => \/ At(m, "down") \/ At(m, "sequence") \/ manager[m].pc \in Registering
                 \/ Served(m)
  BY DEF Orderly, IInv, TypeOK, ManagerState, At, Served, Registering
<1>. QED BY <1>1, <1>4, <1>5, <1>6, <1>7, RegistrarCommits, PTL
         DEF Calmly, StaysServing

\* The administrator is registered once somebody serves.
LEMMA AdminComes ==
    ASSUME NEW o \in Managers
    PROVE  Calmly /\ []Fairness => <>[](admin # {})
<1>. DEFINE Somebody == \E m \in Managers : manager[m].pc \in Registering
            There == admin # {}
<1>1. ASSUME NEW m \in Managers
      PROVE  Calmly /\ Fairness /\ manager[m].pc \in Registering => <>There
  <2>1. Fairness => GoesOn(m)
    BY DEF Fairness
  <2>. QED BY <2>1, RegistrarCommits, PTL
<1>. HIDE DEF There
<1>2. Calmly /\ Fairness /\ Somebody => <>There
  BY <1>1
<1>3. Orderly /\ Faultless /\ Served(o) => There \/ Somebody
  BY DEF Orderly, Calm, Faultless, Served, At, There
<1>4. Orderly /\ Faultless /\ Faultless' /\ [Next]_vars /\ There => There'
  BY ManagerSteps DEF There
<1>5. Fairness => GoesOn(o)
  BY DEF Fairness
<1>6. There <=> admin # {}
  BY DEF There
<1>7. Calmly /\ GoesOn(o) => StaysServing(o)
  BY ManagerServes
<1>. HIDE DEF Somebody
<1>. QED BY <1>2, <1>3, <1>4, <1>5, <1>6, <1>7, PTL DEF Calmly, StaysServing

\* Where nothing fails every manager comes to serve, however many there are, and one of
\* them registers the administrator, if each of them goes on with its setup and can do so
\* without the others (setup.go:145-159).  Fairness that holds now holds always: []Fairness
\* says the same as Fairness.
THEOREM EveryManagerGetsReady ==
    ASSUME Managers # {}
    PROVE  Spec /\ []Fairness /\ []ManagersNeverWait => ManagersGetReady
<1>1. NothingFails <=> []Faultless
  BY PTL DEF NothingFails, Faultless
<1>2. Spec /\ []ManagersNeverWait /\ NothingFails => Calmly
  BY <1>1, OrderlyAlways, PTL DEF Spec, Calmly
<1>3. Spec /\ []Fairness /\ []ManagersNeverWait => AdminAppears
  <2>1. PICK o \in Managers : TRUE
    OBVIOUS
  <2>. QED BY <1>2, AdminComes, PTL DEF AdminAppears
<1>4. ASSUME NEW m \in Managers
      PROVE  Spec /\ []Fairness /\ []ManagersNeverWait => ComesToServe(m)
  <2>1. Fairness => GoesOn(m)
    BY DEF Fairness
  <2>2. Served(m) <=> manager[m].pc = "serving"
    BY DEF Served, At
  <2>. QED BY <1>2, <2>1, <2>2, ManagerServes, PTL DEF ComesToServe, StaysServing
<1>. QED BY <1>3, <1>4 DEF ManagersGetReady
=============================================================================
