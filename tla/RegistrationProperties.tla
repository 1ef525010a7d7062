----------------------- MODULE RegistrationProperties -----------------------
(***************************************************************************)
(* What the registration of the administrator promises, over the states of *)
(* SelfRegistration.                                                       *)
(***************************************************************************)
EXTENDS SelfRegistration

ManagerState ==
    [pc : {"down", "sequence", "client", "begin", "insert", "serving"},
     starts : 0..MaxStarts, drew : 0..MaxSeq, staged : SUBSET Tables]

\* Type invariant of the sequence, the rows and the processes.
TypeOK ==
    /\ seq \in 1..MaxSeq
    /\ clients \in SUBSET Starts
    /\ admin \in SUBSET (Starts \X Tables)
    /\ manager \in [Managers -> ManagerState]
    /\ faults \in 0..MaxFaults

-----------------------------------------------------------------------------

\* However many managers start at a time, crash or are started again, one start at
\* most registers a client, and only that one an administrator: the number 2 is
\* drawn once (self-register.go:15-28, 000001_create_schema.up.sql:119).  The
\* administrator is registered with all its rows, and with the client the superadmin
\* scope belongs to, or not at all (self-register.go:41-157).
OneRegistration ==
    /\ \A s, t \in clients : s = t
    /\ admin # {} => \E s \in clients : admin = {s} \X Tables

\* No manager waits for another one: it can start, and go on with its setup
\* (setup.go:145-159).
ManagersNeverWait ==
    \A m \in Managers :
        /\ manager[m].pc = "down" /\ manager[m].starts < MaxStarts => ENABLED <<Start(m)>>_vars
        /\ manager[m].pc \notin {"down", "serving"} => ENABLED <<Registers(m)>>_vars

NothingFails == [](faults = 0)
AdminAppears == NothingFails => <>[](admin # {})
ComesToServe(m) == NothingFails => <>[](manager[m].pc = "serving")

\* Where nothing fails, some manager registers the administrator, and every
\* manager comes to serve (setup.go:145-159).
ManagersGetReady ==
    /\ []ManagersNeverWait
    /\ AdminAppears
    /\ \A m \in Managers : ComesToServe(m)

-----------------------------------------------------------------------------

\* setup.go:156-159: "Error setting up administration assets" ends the process: one
\* that was to set them up serves only if they are there.
RegisteredBeforeServing ==
    \A m \in Managers : manager[m].pc = "serving" /\ manager[m].drew = 2 => admin # {}
=============================================================================
