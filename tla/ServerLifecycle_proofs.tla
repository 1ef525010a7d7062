------------------------- MODULE ServerLifecycle_proofs -------------------------
(***************************************************************************)
(* Proofs about starting and stopping, for any requests and RPCs.          *)
(***************************************************************************)
EXTENDS LifecycleProperties, TLAPS

-----------------------------------------------------------------------------
(* The inductive invariant.                                                *)

\* SSO Service is in order: there is a server if the variable gRPCServer is assigned, it
\* serves between setup() and the signal with clients that are open, and the database is
\* closed only when it has stopped serving.
ServiceInOrder ==
    /\ service.global = "server" <=> service.server # Nil
    /\ service.server \in {"new", "serving"} /\ Alive(service) => service.main \in {"up", "signal"}
    /\ service.main \in {"up", "signal", "draining"} =>
         service.database = "open" /\ service.redis = "node"
    /\ service.main \in {"draining", "closing"} => service.server = "stopping"
    /\ service.main = "closing" => service.database = "closed"
    /\ service.main = "crashed" => service.server = Nil
    /\ service.main = "setup" => ~service.notified

\* An RPC that is running finds the clients open; one was taken only if there was a server.
RpcsInOrder ==
    /\ Running # {} => service.database = "open" /\ service.redis = "node"
    /\ ever => service.server # Nil
    /\ \A x \in Rpcs : rpc[x] # "broken"

\* SSO Provider is in order: it takes no request while it shuts down, and closes Redis
\* only when no handler is running or ShutdownTimeout is over.
ProviderInOrder ==
    /\ provider.main \in {"draining", "closing"} => provider.server = "stopping"
    /\ provider.main \in {"setup", "up", "signal", "draining"} => provider.redis # "closed"
    /\ provider.main = "closing" \/ provider.redis = "closed" =>
         Handling = {} \/ provider.timedOut
    /\ provider.main \in {"signal", "draining", "closing"} => provider.notified

RequestsInOrder ==
    \A x \in Requests :
        /\ request[x] = "broken" => provider.timedOut
        /\ request[x] = "cut" =>
             /\ provider.main = "ended"
             /\ provider.timedOut \/ ~provider.notified \/ provider.fatal

IInv == TypeOK /\ ServiceInOrder /\ RpcsInOrder /\ ProviderInOrder /\ RequestsInOrder

\* The initial state satisfies the invariant.
LEMMA Initially == Init => IInv
<1>. SUFFICES ASSUME Init
              PROVE  IInv
  OBVIOUS
<1>. USE LifecycleNilAssumption DEF Init
<1>1. TypeOK
  BY DEF TypeOK, ServiceState, ProviderState, RedisState
<1>2. ServiceInOrder
  BY DEF ServiceInOrder, Alive
<1>3. RpcsInOrder
  BY DEF RpcsInOrder, Running
<1>4. ProviderInOrder /\ RequestsInOrder
  BY DEF ProviderInOrder, RequestsInOrder, Handling
<1>. QED BY <1>1, <1>2, <1>3, <1>4 DEF IInv

-----------------------------------------------------------------------------
(* The steps of SSO Service.                                               *)

\* What the steps of one process leave alone of the other.
LEMMA ProviderKept ==
    ASSUME IInv, UNCHANGED <<provider, request>>
    PROVE  (ProviderInOrder /\ RequestsInOrder)'
BY DEF IInv, ProviderInOrder, RequestsInOrder, Handling

LEMMA ServiceMainStep ==
    ASSUME IInv, ServiceMain \/ ServiceSignal \/ ServiceFatal
    PROVE  /\ service' \in ServiceState /\ ServiceInOrder' /\ RpcsInOrder'
           /\ UNCHANGED <<provider, rpc, request, ever>>
<1>. USE LifecycleNilAssumption
     DEF IInv, TypeOK, ServiceState, RedisState, ServiceInOrder, RpcsInOrder, Alive, Running,
         ServiceStep
<1>1. CASE ServiceUp
  <2>. DEFINE up == [service EXCEPT !.main = "up"]
              open == [up EXCEPT !.database = "open"]
  <2>1. up \in ServiceState /\ up.main = "up" /\ UNCHANGED <<rpc, ever>>
        /\ up.server = service.server /\ up.global = service.global
    BY <1>1 DEF ServiceUp
  <2>2. service' = [open EXCEPT !.redis = "node"] /\ open = [up EXCEPT !.database = "open"]
    BY <1>1 DEF ServiceUp, RedisClient
  <2>. HIDE DEF up, open
  <2>3. open \in ServiceState /\ open.main = "up" /\ open.database = "open"
        /\ open.server = service.server /\ open.global = service.global
    BY <2>1, <2>2
  <2>4. service' \in ServiceState /\ service'.main = "up" /\ service'.database = "open"
        /\ service'.redis = "node" /\ service'.server = service.server
        /\ service'.global = service.global
    BY <2>2, <2>3
  <2>5. UNCHANGED <<provider, rpc, request, ever>> /\ service.main = "setup"
    BY <1>1 DEF ServiceUp
  <2>. QED BY <2>4, <2>5
<1>2. CASE ServiceNotify
  BY <1>2 DEF ServiceNotify
<1>3. CASE NewServer
  BY <1>3 DEF NewServer
<1>4. CASE Serve
  BY <1>4 DEF Serve
<1>5. CASE StopGrpcServer
  BY <1>5 DEF StopGrpcServer
<1>6. CASE StopDataStore
  BY <1>6 DEF StopDataStore, Drained
<1>7. CASE ServiceEnds
  <2>. DEFINE ended == [service EXCEPT !.main = "ended"]
  <2>1. ended \in ServiceState /\ ended.main = "ended" /\ ended.server = service.server
        /\ ended.global = service.global /\ ended.database = service.database
    BY <1>7
  <2>2. service' = [ended EXCEPT !.redis = "closed"]
    BY <1>7 DEF ServiceEnds
  <2>. HIDE DEF ended
  <2>3. service' \in ServiceState /\ service'.main = "ended"
        /\ service'.server = service.server /\ service'.global = service.global
        /\ service'.database = service.database
    BY <2>1, <2>2
  <2>4. UNCHANGED <<provider, rpc, request, ever>> /\ service.main = "closing"
    BY <1>7 DEF ServiceEnds
  <2>5. Running = {}
    BY <2>4
  <2>6. ServiceInOrder'
    BY <2>3, <2>4
  <2>7. RpcsInOrder'
    BY <2>3, <2>4, <2>5
  <2>. QED BY <2>3, <2>4, <2>6, <2>7
<1>8. CASE ServiceSignal
  <2>1. PICK main \in {"signal", "ended"} : service' = [service EXCEPT !.main = main]
    BY <1>8 DEF ServiceSignal
  <2>2. service.main \in {"setup", "up"} /\ UNCHANGED <<provider, rpc, request, ever>>
    BY <1>8 DEF ServiceSignal
  <2>3. main = "signal" => service.main = "up"
    BY <1>8, <2>1 DEF ServiceSignal
  <2>. QED BY <2>1, <2>2, <2>3
<1>9. CASE ServiceFatal
  BY <1>9 DEF ServiceFatal
<1>. QED BY <1>1, <1>2, <1>3, <1>4, <1>5, <1>6, <1>7, <1>8, <1>9 DEF ServiceMain

\* What the steps of one process leave alone of the other.
LEMMA ServiceKept ==
    ASSUME IInv, UNCHANGED <<service, rpc, ever>>
    PROVE  (ServiceInOrder /\ RpcsInOrder)'
BY DEF IInv, ServiceInOrder, RpcsInOrder, Running, Alive

\* An RPC runs only while the clients are open.
LEMMA RpcStep ==
    ASSUME IInv, NEW x \in Rpcs, Rpc(x)
    PROVE  /\ rpc' \in [Rpcs -> {"idle", "running", "answered", "refused", "broken"}]
           /\ ever' \in BOOLEAN /\ ServiceInOrder' /\ RpcsInOrder'
           /\ UNCHANGED <<service, provider, request>>
<1>. USE LifecycleNilAssumption
     DEF IInv, TypeOK, ServiceInOrder, RpcsInOrder, Alive, Running
<1>1. CASE RpcArrives(x)
  BY <1>1 DEF RpcArrives
<1>2. CASE RpcRuns(x)
  <2>1. rpc' = [rpc EXCEPT ![x] = "answered"]
    BY <1>2 DEF RpcRuns
  <2>. QED BY <1>2, <2>1 DEF RpcRuns
<1>. QED BY <1>1, <1>2 DEF Rpc

-----------------------------------------------------------------------------
(* The steps of SSO Provider.                                              *)

\* What the end of the process cuts off was given ShutdownTimeout, had no signal, or was
\* ended by log.Fatalf.
LEMMA CutStep ==
    ASSUME IInv, request' = Cut, provider'.main = "ended",
           UNCHANGED <<provider.notified, provider.timedOut>>,
           provider.fatal => provider'.fatal,
           Handling = {} \/ provider.timedOut \/ ~provider.notified \/ provider'.fatal
    PROVE  /\ request' \in [Requests -> {"idle", "running", "rpc", "answered", "broken", "cut"}]
           /\ RequestsInOrder' /\ Handling' = {}
BY DEF IInv, TypeOK, RequestsInOrder, Cut, Handling

LEMMA ProviderMainStep ==
    ASSUME IInv, ProviderMain \/ ProviderSignal \/ ProviderFatal
    PROVE  /\ provider' \in ProviderState
           /\ request' \in [Requests -> {"idle", "running", "rpc", "answered", "broken", "cut"}]
           /\ ProviderInOrder' /\ RequestsInOrder'
           /\ UNCHANGED <<service, rpc, ever>>
<1>. USE LifecycleNilAssumption
     DEF IInv, TypeOK, ProviderState, RedisState, ProviderInOrder, Alive, ProviderStep
<1>1. CASE ProviderUp
  <2>. DEFINE up == [provider EXCEPT !.main = "up"]
              open == [up EXCEPT !.redis = "node"]
  <2>1. up \in ProviderState /\ up.main = "up" /\ UNCHANGED request
        /\ up.notified = provider.notified /\ up.timedOut = provider.timedOut
    BY <1>1 DEF ProviderUp
  <2>2. provider' = [open EXCEPT !.server = "new"] /\ open = [up EXCEPT !.redis = "node"]
    BY <1>1 DEF ProviderUp, RedisClient
  <2>. HIDE DEF up, open
  <2>3. open \in ProviderState /\ open.main = "up" /\ open.redis = "node"
        /\ open.notified = provider.notified /\ open.timedOut = provider.timedOut
    BY <2>1, <2>2
  <2>. QED BY <1>1, <2>1, <2>2, <2>3 DEF ProviderUp, RequestsInOrder
<1>2. CASE ProviderNotify
  BY <1>2 DEF ProviderNotify, RequestsInOrder, Handling
<1>3. CASE Listen
  BY <1>3 DEF Listen, RequestsInOrder, Handling
<1>4. CASE StopServer
  BY <1>4 DEF StopServer, RequestsInOrder, Handling
<1>5. CASE ShutdownTimeout
  BY <1>5 DEF ShutdownTimeout, RequestsInOrder, Handling
<1>6. CASE ProviderClosesRedis
  BY <1>6 DEF ProviderClosesRedis, MayClose, RequestsInOrder, Handling
<1>7. CASE ProviderEnds
  BY <1>7, CutStep DEF ProviderEnds
<1>8. CASE ProviderSignal
  <2>1. CASE provider.notified
    BY <1>8, <2>1 DEF ProviderSignal, RequestsInOrder, Handling
  <2>2. CASE ~provider.notified
    BY <1>8, <2>2, CutStep DEF ProviderSignal
  <2>. QED BY <2>1, <2>2
<1>9. CASE ProviderFatal
  <2>. DEFINE ended == [provider EXCEPT !.main = "ended"]
  <2>1. /\ ended \in ProviderState /\ ended.main = "ended" /\ ended.redis = provider.redis
        /\ ended.notified = provider.notified /\ ended.timedOut = provider.timedOut
    OBVIOUS
  <2>2. provider' = [ended EXCEPT !.fatal = TRUE]
    BY <1>9 DEF ProviderFatal
  <2>. HIDE DEF ended
  <2>3. /\ provider' \in ProviderState /\ provider'.main = "ended" /\ provider'.fatal
        /\ UNCHANGED <<provider.redis, provider.notified, provider.timedOut>>
    BY <2>1, <2>2
  <2>. QED BY <1>9, <2>3, CutStep DEF ProviderFatal
<1>. QED BY <1>1, <1>2, <1>3, <1>4, <1>5, <1>6, <1>7, <1>8, <1>9 DEF ProviderMain

\* A handler finds Redis closed only after ShutdownTimeout.
LEMMA RequestStep ==
    ASSUME IInv, NEW x \in Requests, Request(x)
    PROVE  /\ request' \in [Requests -> {"idle", "running", "rpc", "answered", "broken", "cut"}]
           /\ ProviderInOrder' /\ RequestsInOrder'
           /\ UNCHANGED <<service, provider, rpc, ever>>
<1>. USE DEF IInv, TypeOK, ProviderInOrder, RequestsInOrder, Alive, Handling
<1>1. CASE RequestArrives(x)
  <2>1. request' = [request EXCEPT ![x] = "running"] /\ provider.server = "serving"
        /\ Alive(provider) /\ UNCHANGED <<service, provider, rpc, ever>>
    BY <1>1 DEF RequestArrives
  <2>2. provider.main # "closing" /\ provider.redis # "closed"
    BY <2>1 DEF ProviderState
  <2>. QED BY <2>1, <2>2
<1>2. CASE RequestRuns(x)
  BY <1>2 DEF RequestRuns
<1>3. CASE RequestEnds(x)
  BY <1>3 DEF RequestEnds
<1>. QED BY <1>1, <1>2, <1>3 DEF Request

-----------------------------------------------------------------------------
(* The theorems.                                                           *)

\* Every step keeps the invariant.
LEMMA Preserved == IInv /\ [Next]_vars => IInv'
<1>. SUFFICES ASSUME IInv, [Next]_vars
              PROVE  IInv'
  OBVIOUS
<1>1. CASE ServiceMain \/ ServiceSignal \/ ServiceFatal
  BY <1>1, ServiceMainStep, ProviderKept DEF IInv, TypeOK
<1>2. CASE ProviderMain \/ ProviderSignal \/ ProviderFatal
  BY <1>2, ProviderMainStep, ServiceKept DEF IInv, TypeOK
<1>3. ASSUME NEW x \in Rpcs, Rpc(x)
      PROVE  IInv'
  BY <1>3, RpcStep, ProviderKept DEF IInv, TypeOK
<1>4. ASSUME NEW x \in Requests, Request(x)
      PROVE  IInv'
  BY <1>4, RequestStep, ServiceKept DEF IInv, TypeOK
<1>5. CASE UNCHANGED vars
  BY <1>5, ServiceKept, ProviderKept DEF IInv, TypeOK, vars
<1>. QED BY <1>1, <1>2, <1>3, <1>4, <1>5 DEF Next, Terminating

LEMMA Invariance == Spec => []IInv
BY Initially, Preserved, PTL DEF Spec

\* The state of both processes, of every RPC and of every request has its type.
THEOREM TypeCorrect == Spec => []TypeOK
<1>1. IInv => TypeOK
  BY DEF IInv
<1>. QED BY <1>1, Invariance, PTL

\* No RPC that was taken is broken by a signal, PostgreSQL is closed only when none is
\* running, and a process that panics for want of a server has never taken one, for any
\* number of RPCs and whenever the signal comes.
THEOREM TakenRpcsAlwaysServed == Spec => []TakenRpcsAreServed
<1>1. IInv => TakenRpcsAreServed
  BY LifecycleNilAssumption DEF IInv, ServiceInOrder, RpcsInOrder, TakenRpcsAreServed
<1>. QED BY <1>1, Invariance, PTL

\* No handler of SSO Provider finds Redis closed before ShutdownTimeout is over, and none
\* is cut off but then, by a signal that comes before signal.Notify or by log.Fatalf.
THEOREM HandlersAlwaysHaveTime == Spec => []HandlersHaveTime
<1>1. IInv => HandlersHaveTime
  BY DEF IInv, RequestsInOrder, HandlersHaveTime
<1>. QED BY <1>1, Invariance, PTL

-----------------------------------------------------------------------------
(* Everything ends.                                                        *)

\* How far the shutdown of SSO Service has come; NewServer and Serve may come in between.
Signalled(servers) == service.main = "signal" /\ service.server \in servers
Draining == service.main = "draining"
DrainOver == Draining /\ Drained
Closing == service.main = "closing"

\* The steps that are not of the process of SSO Service leave it alone, and those of the
\* RPCs do not start one while it is drained.
LEMMA ServiceSteps ==
    ASSUME IInv, [Next]_vars
    PROVE  \/ ServiceMain
           \/ ServiceSignal
           \/ (~Alive(service))' /\ ~DrainOver
           \/ UNCHANGED service /\ (DrainOver => Drained')
<1>1. ASSUME NEW x \in Rpcs, Rpc(x)
      PROVE  UNCHANGED service /\ (DrainOver => Drained')
  <2>1. UNCHANGED service
    BY <1>1 DEF Rpc, RpcArrives, RpcRuns
  <2>2. DrainOver => service.server = "stopping" /\ rpc[x] # "running"
    BY DEF IInv, ServiceInOrder, DrainOver, Draining, Drained, Running
  <2>3. DrainOver => \A y \in Rpcs : rpc'[y] # "running"
    BY <1>1, <2>2 DEF IInv, TypeOK, Rpc, RpcArrives, RpcRuns, DrainOver, Drained, Running
  <2>. QED BY <2>1, <2>3 DEF Drained, Running
<1>2. CASE ProviderMain \/ ProviderSignal \/ ProviderFatal
  BY <1>2 DEF ProviderMain, ProviderUp, ProviderNotify, Listen, StopServer, ShutdownTimeout,
     ProviderClosesRedis, ProviderEnds, ProviderSignal, ProviderFatal, ProviderStep, DrainOver,
     Drained, Running
<1>3. ASSUME NEW x \in Requests, Request(x)
      PROVE  UNCHANGED service /\ (DrainOver => Drained')
  BY <1>3 DEF Request, RequestArrives, RequestRuns, RequestEnds, DrainOver, Drained, Running
<1>4. CASE UNCHANGED vars
  BY <1>4 DEF vars, DrainOver, Drained, Running
<1>5. CASE ServiceFatal
  BY <1>5 DEF IInv, TypeOK, ServiceState, ServiceFatal, ServiceStep, Alive, DrainOver, Drained
<1>. QED BY <1>1, <1>2, <1>3, <1>4, <1>5 DEF Next, Terminating

\* The shutdown never goes back, and each step of the process brings it further.
LEMMA ServiceStages ==
    ASSUME IInv
    PROVE  /\ Signalled({Nil}) /\ ServiceMain => Signalled({"new"})' \/ (~Alive(service))'
           /\ Signalled({"new"}) /\ ServiceMain =>
                Signalled({"serving", "stopping"})' \/ Draining' \/ (~Alive(service))'
           /\ Signalled({"serving", "stopping"}) /\ ServiceMain => Draining' \/ (~Alive(service))'
           /\ Draining /\ ServiceMain => Draining' \/ Closing'
           /\ DrainOver /\ ServiceMain => Closing'
           /\ Closing /\ ServiceMain => (~Alive(service))'
           /\ service.main \in {"signal", "draining", "closing"} => ~ServiceSignal
<1>. USE LifecycleNilAssumption
     DEF IInv, TypeOK, ServiceState, ServiceInOrder, Signalled, Draining, DrainOver, Closing,
         Alive, ServiceStep
<1>1. CASE ServiceUp \/ ServiceNotify
  BY <1>1 DEF ServiceUp, ServiceNotify, ServiceSignal
<1>2. CASE NewServer
  BY <1>2 DEF NewServer, ServiceSignal
<1>3. CASE Serve
  BY <1>3 DEF Serve, ServiceSignal
<1>4. CASE StopGrpcServer
  BY <1>4 DEF StopGrpcServer, ServiceSignal
<1>5. CASE StopDataStore
  BY <1>5 DEF StopDataStore, ServiceSignal
<1>6. CASE ServiceEnds
  BY <1>6 DEF ServiceEnds, ServiceSignal
<1>7. CASE ~ServiceMain
  BY <1>7 DEF ServiceSignal
<1>. QED BY <1>1, <1>2, <1>3, <1>4, <1>5, <1>6, <1>7 DEF ServiceMain

\* A process of SSO Service that got a signal comes to its end, if it is drained.
LEMMA ServiceEndsAtLast ==
    Spec /\ ServiceGoesOn /\ []OnlyTheDrainWaits /\ ServiceDrains => ServiceStops
<1>. DEFINE Dead == ~Alive(service)
            S1 == Signalled({Nil})
            S2 == Signalled({"new"})
            S3 == Signalled({"serving", "stopping"})
            Begun == S1 \/ S2 \/ S3 \/ DrainOver \/ Closing
<1>1. OnlyTheDrainWaits /\ Begun => ENABLED <<ServiceMain>>_vars
  BY DEF OnlyTheDrainWaits, Signalled, DrainOver, Draining, Closing
<1>2. IInv /\ [Next]_vars =>
        /\ S1 => S1' \/ S2' \/ Dead'
        /\ S2 => S2' \/ S3' \/ Draining' \/ Dead'
        /\ S3 => S3' \/ Draining' \/ Dead'
        /\ Draining => Draining' \/ Closing' \/ Dead'
        /\ DrainOver => DrainOver' \/ Closing'
        /\ Closing => Closing' \/ Dead'
  <2>. SUFFICES ASSUME IInv, [Next]_vars
                PROVE  /\ S1 => S1' \/ S2' \/ Dead'
                       /\ S2 => S2' \/ S3' \/ Draining' \/ Dead'
                       /\ S3 => S3' \/ Draining' \/ Dead'
                       /\ Draining => Draining' \/ Closing' \/ Dead'
                       /\ DrainOver => DrainOver' \/ Closing'
                       /\ Closing => Closing' \/ Dead'
    OBVIOUS
  <2>1. CASE ServiceMain
    BY <2>1, ServiceStages DEF DrainOver
  <2>2. CASE ServiceSignal
    BY <2>2, ServiceStages DEF Signalled, Draining, DrainOver, Closing
  <2>3. CASE UNCHANGED service /\ (DrainOver => Drained')
    BY <2>3 DEF Signalled, Draining, DrainOver, Closing
  <2>4. CASE Dead' /\ ~DrainOver
    BY <2>4
  <2>. QED BY <2>1, <2>2, <2>3, <2>4, ServiceSteps
<1>3. IInv /\ ServiceMain =>
        /\ S1 => S2' \/ Dead'
        /\ S2 => S3' \/ Draining' \/ Dead'
        /\ S3 => Draining' \/ Dead'
        /\ DrainOver => Closing'
        /\ Closing => Dead'
  BY ServiceStages
<1>4. IInv /\ service.main = "signal" => S1 \/ S2 \/ S3
  BY DEF IInv, TypeOK, ServiceState, Signalled
<1>5. Draining /\ (Drained \/ ~Alive(service)) => DrainOver
  BY DEF Draining, DrainOver, Alive
<1>6. Draining <=> service.main = "draining"
  BY DEF Draining
<1>. HIDE DEF Dead, S1, S2, S3
<1>7. Spec /\ ServiceGoesOn /\ []OnlyTheDrainWaits => (Closing ~> Dead)
  BY <1>1, <1>2, <1>3, Invariance, PTL DEF Spec, ServiceGoesOn
<1>8. Spec /\ ServiceGoesOn /\ []OnlyTheDrainWaits => (DrainOver ~> Closing)
  BY <1>1, <1>2, <1>3, Invariance, PTL DEF Spec, ServiceGoesOn
<1>9. Spec /\ ServiceDrains => (Draining ~> DrainOver \/ Closing \/ Dead)
  BY <1>2, <1>5, <1>6, Invariance, PTL DEF Spec, ServiceDrains
<1>10. Spec /\ ServiceGoesOn /\ []OnlyTheDrainWaits => (S3 ~> Draining \/ Dead)
  BY <1>1, <1>2, <1>3, Invariance, PTL DEF Spec, ServiceGoesOn
<1>11. Spec /\ ServiceGoesOn /\ []OnlyTheDrainWaits => (S2 ~> S3 \/ Draining \/ Dead)
  BY <1>1, <1>2, <1>3, Invariance, PTL DEF Spec, ServiceGoesOn
<1>12. Spec /\ ServiceGoesOn /\ []OnlyTheDrainWaits => (S1 ~> S2 \/ Dead)
  BY <1>1, <1>2, <1>3, Invariance, PTL DEF Spec, ServiceGoesOn
<1>13. Dead <=> ~Alive(service)
  BY DEF Dead
<1>. QED BY <1>4, <1>7, <1>8, <1>9, <1>10, <1>11, <1>12, <1>13, Invariance, PTL
         DEF ServiceStops

\* How far the shutdown of SSO Provider has come; Listen and ShutdownTimeout may come in
\* between.
ProviderAt(main) == provider.main = main
Listening == ProviderAt("signal") /\ provider.server # "new"
TimedOut == ProviderAt("draining") /\ provider.timedOut

LEMMA ProviderSteps ==
    ASSUME IInv, [Next]_vars
    PROVE  ProviderMain \/ ProviderSignal \/ (~Alive(provider))' \/ UNCHANGED provider
<1>1. ASSUME NEW x \in Rpcs, Rpc(x)
      PROVE  UNCHANGED provider
  BY <1>1 DEF Rpc, RpcArrives, RpcRuns
<1>2. CASE ServiceMain \/ ServiceSignal \/ ServiceFatal
  BY <1>2 DEF ServiceMain, ServiceUp, ServiceNotify, NewServer, Serve, StopGrpcServer,
     StopDataStore, ServiceEnds, ServiceSignal, ServiceFatal, ServiceStep
<1>3. ASSUME NEW x \in Requests, Request(x)
      PROVE  UNCHANGED provider
  BY <1>3 DEF Request, RequestArrives, RequestRuns, RequestEnds
<1>4. CASE UNCHANGED vars
  BY <1>4 DEF vars
<1>5. CASE ProviderFatal
  BY <1>5 DEF IInv, TypeOK, ProviderState, ProviderFatal, ProviderStep, Alive
<1>. QED BY <1>1, <1>2, <1>3, <1>4, <1>5 DEF Next, Terminating

LEMMA ProviderStages ==
    ASSUME IInv
    PROVE  /\ ProviderAt("signal") /\ ProviderMain =>
                Listening' \/ ProviderAt("draining")' \/ (~Alive(provider))'
           /\ Listening /\ ProviderMain => ProviderAt("draining")'
           /\ ProviderAt("draining") /\ ProviderMain => TimedOut' \/ ProviderAt("closing")'
           /\ TimedOut /\ ProviderMain => ProviderAt("closing")'
           /\ ProviderAt("closing") /\ ProviderMain => (~Alive(provider))'
           /\ provider.main \in {"signal", "draining", "closing"} => ~ProviderSignal
<1>. USE DEF IInv, TypeOK, ProviderState, ProviderInOrder, ProviderAt, Listening, TimedOut,
         Alive, ProviderStep
<1>1. CASE ProviderUp \/ ProviderNotify
  BY <1>1 DEF ProviderUp, ProviderNotify, ProviderSignal
<1>2. CASE Listen
  BY <1>2 DEF Listen, ProviderSignal
<1>3. CASE StopServer
  BY <1>3 DEF StopServer, ProviderSignal
<1>4. CASE ShutdownTimeout
  BY <1>4 DEF ShutdownTimeout, ProviderSignal
<1>5. CASE ProviderClosesRedis
  BY <1>5 DEF ProviderClosesRedis, MayClose, ProviderSignal
<1>6. CASE ProviderEnds
  BY <1>6 DEF ProviderEnds, ProviderSignal
<1>7. CASE ~ProviderMain
  BY <1>7 DEF ProviderSignal
<1>. QED BY <1>1, <1>2, <1>3, <1>4, <1>5, <1>6, <1>7 DEF ProviderMain

\* SSO Provider comes to its end after a signal, whatever its handlers and SSO Service do.
LEMMA ProviderEndsAtLast ==
    Spec /\ ProviderGoesOn /\ []OnlyTheDrainWaits => ProviderStops
<1>. DEFINE Dead == ~Alive(provider)
            Signal == ProviderAt("signal")
            Drain == ProviderAt("draining")
            Close == ProviderAt("closing")
<1>1. OnlyTheDrainWaits /\ (Signal \/ Drain \/ Close) => ENABLED <<ProviderMain>>_vars
  BY DEF OnlyTheDrainWaits, ProviderAt
<1>2. Listening => Signal
  BY DEF Listening
<1>3. TimedOut => Drain
  BY DEF TimedOut
<1>4. IInv /\ [Next]_vars =>
        /\ Signal => Signal' \/ Drain' \/ Dead'
        /\ Listening => Listening' \/ Drain' \/ Dead'
        /\ Drain => Drain' \/ Close' \/ Dead'
        /\ TimedOut => TimedOut' \/ Close' \/ Dead'
        /\ Close => Close' \/ Dead'
  <2>. SUFFICES ASSUME IInv, [Next]_vars
                PROVE  /\ Signal => Signal' \/ Drain' \/ Dead'
                       /\ Listening => Listening' \/ Drain' \/ Dead'
                       /\ Drain => Drain' \/ Close' \/ Dead'
                       /\ TimedOut => TimedOut' \/ Close' \/ Dead'
                       /\ Close => Close' \/ Dead'
    OBVIOUS
  <2>1. CASE ProviderMain
    BY <2>1, ProviderStages DEF Listening, TimedOut
  <2>2. CASE ProviderSignal
    BY <2>2, ProviderStages DEF Listening, TimedOut, ProviderAt
  <2>3. CASE UNCHANGED provider
    BY <2>3 DEF Listening, TimedOut, ProviderAt
  <2>4. CASE Dead'
    BY <2>4
  <2>. QED BY <2>1, <2>2, <2>3, <2>4, ProviderSteps
<1>5. IInv /\ ProviderMain =>
        /\ Signal => Listening' \/ Drain' \/ Dead'
        /\ Listening => Drain'
        /\ Drain => TimedOut' \/ Close'
        /\ TimedOut => Close'
        /\ Close => Dead'
  BY ProviderStages
<1>6. Signal <=> provider.main = "signal"
  BY DEF ProviderAt
<1>7. Dead <=> ~Alive(provider)
  OBVIOUS
<1>. HIDE DEF Dead, Signal, Drain, Close
<1>8. Spec /\ ProviderGoesOn /\ []OnlyTheDrainWaits => (Close ~> Dead)
  BY <1>1, <1>4, <1>5, Invariance, PTL DEF Spec, ProviderGoesOn
<1>9. Spec /\ ProviderGoesOn /\ []OnlyTheDrainWaits => (TimedOut ~> Close \/ Dead)
  BY <1>1, <1>3, <1>4, <1>5, Invariance, PTL DEF Spec, ProviderGoesOn
<1>10. Spec /\ ProviderGoesOn /\ []OnlyTheDrainWaits => (Drain ~> TimedOut \/ Close \/ Dead)
  BY <1>1, <1>4, <1>5, Invariance, PTL DEF Spec, ProviderGoesOn
<1>11. Spec /\ ProviderGoesOn /\ []OnlyTheDrainWaits => (Listening ~> Drain \/ Dead)
  BY <1>1, <1>2, <1>4, <1>5, Invariance, PTL DEF Spec, ProviderGoesOn
<1>12. Spec /\ ProviderGoesOn /\ []OnlyTheDrainWaits => (Signal ~> Listening \/ Drain \/ Dead)
  BY <1>1, <1>4, <1>5, Invariance, PTL DEF Spec, ProviderGoesOn
<1>. QED BY <1>6, <1>7, <1>8, <1>9, <1>10, <1>11, <1>12, PTL DEF ProviderStops

\* An RPC that was taken comes to its end, unless its process does.
LEMMA RpcEndsAtLast ==
    ASSUME NEW x \in Rpcs
    PROVE  Spec /\ RpcGoesOn(x) /\ []OnlyTheDrainWaits => RpcSettles(x)
<1>. DEFINE Busy == x \in Running /\ Alive(service)
<1>1. OnlyTheDrainWaits /\ Busy => ENABLED <<RpcRuns(x)>>_vars
  BY DEF OnlyTheDrainWaits
<1>2. IInv /\ RpcRuns(x) => ~Busy'
  BY DEF IInv, TypeOK, RpcRuns, Running
<1>3. /\ x \in Running => Busy \/ ~Alive(service)
      /\ ~Busy => x \notin Running \/ ~Alive(service)
  OBVIOUS
<1>. HIDE DEF Busy
<1>. QED BY <1>1, <1>2, <1>3, Invariance, PTL DEF Spec, RpcGoesOn, RpcSettles

\* A handler of SSO Provider comes to its end, unless its process does, whatever has
\* become of the RPC it makes.
LEMMA RequestEndsAtLast ==
    ASSUME NEW x \in Requests
    PROVE  Spec /\ HandlerGoesOn(x) /\ []OnlyTheDrainWaits => RequestSettles(x)
<1>. DEFINE Busy == x \in Handling /\ Alive(provider)
            Starts == Busy /\ request[x] = "running"
            Calls == Busy /\ request[x] = "rpc"
<1>1. OnlyTheDrainWaits /\ Busy => ENABLED <<Handler(x)>>_vars
  BY DEF OnlyTheDrainWaits
<1>2. IInv /\ Starts /\ Handler(x) => Calls' \/ ~Busy'
  BY DEF IInv, TypeOK, Handler, RequestRuns, RequestEnds, Handling
<1>3. IInv /\ Calls /\ Handler(x) => ~Busy'
  BY DEF IInv, TypeOK, Handler, RequestRuns, RequestEnds, Handling
<1>4. IInv /\ Calls /\ [Next]_vars => Calls' \/ ~Busy'
  <2>. SUFFICES ASSUME IInv, Calls, [Next]_vars
                PROVE  request'[x] \in {"rpc", "answered", "broken", "cut"}
    BY DEF Handling
  <2>1. CASE ProviderMain \/ ProviderSignal \/ ProviderFatal
    BY <2>1 DEF ProviderMain, ProviderUp, ProviderNotify, Listen, StopServer, ShutdownTimeout,
       ProviderClosesRedis, ProviderEnds, ProviderSignal, ProviderFatal, Cut
  <2>2. ASSUME NEW y \in Requests, Request(y)
        PROVE  request'[x] \in {"rpc", "answered", "broken", "cut"}
    BY <2>2 DEF IInv, TypeOK, Request, RequestArrives, RequestRuns, RequestEnds
  <2>3. CASE UNCHANGED request
    BY <2>3
  <2>. QED BY <2>1, <2>2, <2>3 DEF Next, Terminating, vars, ServiceMain, ServiceUp,
           ServiceNotify, NewServer, Serve, StopGrpcServer, StopDataStore, ServiceEnds,
           ServiceSignal, ServiceFatal, Rpc, RpcArrives, RpcRuns
<1>5. Busy => Starts \/ Calls
  BY DEF Handling
<1>6. Starts \/ Calls => Busy
  OBVIOUS
<1>7. /\ x \in Handling => Busy \/ ~Alive(provider)
      /\ ~Busy => x \notin Handling \/ ~Alive(provider)
  OBVIOUS
<1>. HIDE DEF Busy, Starts, Calls
<1>. QED BY <1>1, <1>2, <1>3, <1>4, <1>5, <1>6, <1>7, Invariance, PTL
         DEF Spec, HandlerGoesOn, RequestSettles

\* After a signal SSO Provider ends, whatever becomes of SSO Service, and SSO Service when it
\* is drained; every RPC and every request ends, for any number of them
\* (http-server.go:97, token.go:95-97).
THEOREM EverythingEndsAtLast ==
    FairSpec /\ []OnlyTheDrainWaits /\ ServiceDrains => EverythingEnds
<1>1. ASSUME NEW x \in Rpcs
      PROVE  FairSpec /\ []OnlyTheDrainWaits => RpcSettles(x)
  <2>1. Fairness => RpcGoesOn(x)
    BY DEF Fairness
  <2>. QED BY <2>1, RpcEndsAtLast, PTL DEF FairSpec
<1>2. ASSUME NEW x \in Requests
      PROVE  FairSpec /\ []OnlyTheDrainWaits => RequestSettles(x)
  <2>1. Fairness => HandlerGoesOn(x)
    BY DEF Fairness
  <2>. QED BY <2>1, RequestEndsAtLast, PTL DEF FairSpec
<1>3. FairSpec /\ []OnlyTheDrainWaits /\ ServiceDrains => ServiceStops /\ ProviderStops
  <2>1. Fairness => ServiceGoesOn /\ ProviderGoesOn
    BY DEF Fairness
  <2>. QED BY <2>1, ServiceEndsAtLast, ProviderEndsAtLast, PTL DEF FairSpec
<1>. QED BY <1>1, <1>2, <1>3 DEF EverythingEnds
=============================================================================
