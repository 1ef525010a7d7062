--------------------------- MODULE ServerLifecycle ---------------------------
(***************************************************************************)
(* How the servers come up and how they end.                               *)
(*                                                                         *)
(* SSO Service (the SSO Manager has the same code) serves RPCs with gRPC,  *)
(* SSO Provider serves HTTP requests, whose handlers use Redis and call    *)
(* SSO Service.  A signal makes a process stop serving, wait for what is   *)
(* running, and close its clients of PostgreSQL and Redis.  The gRPC and   *)
(* HTTP servers, the signals and the clients are external.                 *)
(***************************************************************************)
EXTENDS Integers

CONSTANTS Requests,     \* HTTP requests; each makes one RPC
          DirectRpcs,   \* RPCs of other callers
          Nil

ASSUME LifecycleAssumption == Requests \cap DirectRpcs = {}

\* Nil is none of the states of servers and clients.
ASSUME LifecycleNilAssumption ==
    Nil \notin {"new", "serving", "stopping", "server", "open", "node", "closed"}

Rpcs == Requests \cup DirectRpcs

VARIABLES
    service,     \* the process of SSO Service
    provider,    \* the process of SSO Provider
    rpc,         \* [Rpcs -> what became of it at SSO Service]
    request,     \* [Requests -> what became of it at SSO Provider]
    ever         \* history: whether SSO Service has ever served an RPC

vars == <<service, provider, rpc, request, ever>>

\* (mutant) There is a client for Redis Sentinel only.
RedisClient_None == "none"

\* StartCacheClient: the client of the node is assigned last, also when
\* SSO_REDIS_SENTINEL has made a failover client before.
RedisClient == "node"

\* `main' is where the goroutine that stops the process is, `global' what the
\* variable gRPCServer holds.
Init ==
    /\ service = [main |-> "setup", notified |-> FALSE, server |-> Nil, global |-> Nil,
                  database |-> Nil, redis |-> Nil]
    /\ provider = [main |-> "setup", notified |-> FALSE, server |-> Nil, redis |-> Nil,
                   timedOut |-> FALSE, fatal |-> FALSE]
    /\ rpc = [x \in Rpcs |-> "idle"]
    /\ request = [x \in Requests |-> "idle"]
    /\ ever = FALSE

Alive(process) == process.main \notin {"ended", "crashed"}
Running == {x \in Rpcs : rpc[x] = "running"}
Handling == {x \in Requests : request[x] \in {"running", "rpc"}}

-----------------------------------------------------------------------------
(* SSO Service.                                                            *)

ServiceStep(fields) == service' = fields /\ UNCHANGED provider

\* setup() is done; the server's goroutine is started.
ServiceUp ==
    /\ service.main = "setup"
    /\ ServiceStep([service EXCEPT !.main = "up", !.database = "open", !.redis = RedisClient])
    /\ UNCHANGED <<rpc, request, ever>>

\* signal.Notify
ServiceNotify ==
    /\ service.main = "up" /\ ~service.notified
    /\ ServiceStep([service EXCEPT !.notified = TRUE])
    /\ UNCHANGED <<rpc, request, ever>>

\* net.Listen fails: log.Fatalf.  Otherwise the server is there and the variable
\* gRPCServer is assigned.
NewServer ==
    /\ service.main \in {"up", "signal"} /\ service.server = Nil
    /\ \/ ServiceStep([service EXCEPT !.server = "new", !.global = "server"])
       \/ ServiceStep([service EXCEPT !.main = "ended"])
    /\ UNCHANGED <<rpc, request, ever>>

\* Serve, unless GracefulStop has come first.
Serve ==
    /\ Alive(service) /\ service.server = "new"
    /\ ServiceStep([service EXCEPT !.server = "serving"])
    /\ UNCHANGED <<rpc, request, ever>>

\* SIGINT or SIGTERM: before signal.Notify the process is killed; after it the first
\* one is taken from the channel, later ones are never looked at.
ServiceSignal ==
    /\ service.main \in {"setup", "up"}
    /\ ServiceStep([service EXCEPT !.main = IF service.notified THEN "signal" ELSE "ended"])
    /\ UNCHANGED <<rpc, request, ever>>

\* (mutant) Stop instead of GracefulStop: nobody waits for the running RPCs.
Drained_Stop == TRUE

\* GracefulStop returns when no RPC is running.
Drained == Running = {}

\* stopGrpcServer without a server is a nil dereference; otherwise no new RPC is taken.
StopGrpcServer ==
    /\ service.main = "signal"
    /\ IF service.global = Nil
       THEN ServiceStep([service EXCEPT !.main = "crashed"])
       ELSE ServiceStep([service EXCEPT !.main = "draining", !.server = "stopping"])
    /\ UNCHANGED <<rpc, request, ever>>

StopDataStore ==
    /\ service.main = "draining" /\ Drained
    /\ ServiceStep([service EXCEPT !.main = "closing", !.database = "closed"])
    /\ UNCHANGED <<rpc, request, ever>>

\* StopCacheClient; waitShutdown.Done() lets main return.
ServiceEnds ==
    /\ service.main = "closing"
    /\ ServiceStep([service EXCEPT !.main = "ended", !.redis = "closed"])
    /\ UNCHANGED <<rpc, request, ever>>

\* An RPC arrives.  One that a handler makes is refused, or fails, when nobody serves.
RpcArrives(x) ==
    /\ rpc[x] = "idle"
    /\ x \in Requests => request[x] = "rpc"
    /\ IF service.server = "serving" /\ Alive(service)
       THEN rpc' = [rpc EXCEPT ![x] = "running"] /\ ever' = TRUE
       ELSE x \in Requests /\ rpc' = [rpc EXCEPT ![x] = "refused"] /\ UNCHANGED ever
    /\ UNCHANGED <<service, provider, request>>

\* The handler of the RPC uses PostgreSQL and Redis, and answers.
RpcRuns(x) ==
    /\ rpc[x] = "running" /\ Alive(service)
    /\ rpc' = [rpc EXCEPT ![x] =
                 IF service.database = "open" /\ service.redis # "closed" THEN "answered"
                 ELSE "broken"]
    /\ UNCHANGED <<service, provider, request, ever>>

\* log.Fatalf in the handler of an RPC ends the process.
ServiceFatal ==
    /\ Running # {} /\ Alive(service)
    /\ ServiceStep([service EXCEPT !.main = "ended"])
    /\ UNCHANGED <<rpc, request, ever>>

-----------------------------------------------------------------------------
(* SSO Provider.                                                           *)

ProviderStep(fields) == provider' = fields /\ UNCHANGED service

\* setup() ends with StartServer, whose goroutine listens.
ProviderUp ==
    /\ provider.main = "setup"
    /\ ProviderStep([provider EXCEPT !.main = "up", !.redis = RedisClient, !.server = "new"])
    /\ UNCHANGED <<rpc, request, ever>>

ProviderNotify ==
    /\ provider.main = "up" /\ ~provider.notified
    /\ ProviderStep([provider EXCEPT !.notified = TRUE])
    /\ UNCHANGED <<rpc, request, ever>>

\* ListenAndServe; an error but ErrServerClosed is fatal, at the start here.
Listen ==
    /\ Alive(provider) /\ provider.server = "new"
    /\ \/ ProviderStep([provider EXCEPT !.server = "serving"])
       \/ ProviderStep([provider EXCEPT !.main = "ended"])
    /\ UNCHANGED <<rpc, request, ever>>

\* The process ends, and what its handlers are at.
Cut == [x \in Requests |-> IF x \in Handling THEN "cut" ELSE request[x]]

\* log.Fatalf outside of main: ListenAndServe fails while it serves, or a handler
\* cannot ask Redis.  `fatal' is a history field.
ProviderFatal ==
    /\ Alive(provider) /\ (provider.server = "serving" \/ Handling # {})
    /\ ProviderStep([provider EXCEPT !.main = "ended", !.fatal = TRUE])
    /\ request' = Cut
    /\ UNCHANGED <<rpc, ever>>

\* Requests are served before signal.Notify is called: a signal that comes before it
\* kills the process.
ProviderSignal ==
    /\ provider.main \in {"setup", "up"}
    /\ ProviderStep([provider EXCEPT !.main = IF provider.notified THEN "signal" ELSE "ended"])
    /\ request' = IF provider.notified THEN request ELSE Cut
    /\ UNCHANGED <<rpc, ever>>

StopServer ==
    /\ provider.main = "signal"
    /\ ProviderStep([provider EXCEPT !.main = "draining", !.server = "stopping"])
    /\ UNCHANGED <<rpc, request, ever>>

\* (mutant) Redis is closed before the server is stopped.
MayClose_AtOnce == provider.main \in {"signal", "draining"}

\* Shutdown has returned: no handler is running, or ShutdownTimeout is over.
MayClose == provider.main = "draining" /\ (Handling = {} \/ provider.timedOut)

ShutdownTimeout ==
    /\ provider.main = "draining" /\ ~provider.timedOut
    /\ ProviderStep([provider EXCEPT !.timedOut = TRUE])
    /\ UNCHANGED <<rpc, request, ever>>

ProviderClosesRedis ==
    /\ MayClose
    /\ ProviderStep([provider EXCEPT !.main = "closing", !.redis = "closed"])
    /\ UNCHANGED <<rpc, request, ever>>

\* main returns; what is still running is cut off.
ProviderEnds ==
    /\ provider.main = "closing"
    /\ ProviderStep([provider EXCEPT !.main = "ended"])
    /\ request' = Cut
    /\ UNCHANGED <<rpc, ever>>

RequestArrives(x) ==
    /\ request[x] = "idle" /\ provider.server = "serving" /\ Alive(provider)
    /\ request' = [request EXCEPT ![x] = "running"]
    /\ UNCHANGED <<service, provider, rpc, ever>>

\* The handler uses Redis and calls SSO Service.
RequestRuns(x) ==
    /\ request[x] = "running" /\ Alive(provider)
    /\ request' = [request EXCEPT ![x] = IF provider.redis = "closed" THEN "broken" ELSE "rpc"]
    /\ UNCHANGED <<service, provider, rpc, ever>>

\* (mutant) An RPC that was not answered is tried again.
RequestEnds_Retries(x) ==
    /\ request[x] = "rpc" /\ Alive(provider)
    /\ request' = [request EXCEPT ![x] =
                     IF provider.redis = "closed" THEN "broken"
                     ELSE IF rpc[x] = "answered" THEN "answered" ELSE "running"]
    /\ UNCHANGED <<service, provider, rpc, ever>>

\* The RPC was answered or failed, or RequestDeadline is over: whatever became of it,
\* the handler uses Redis again and answers.
RequestEnds(x) ==
    /\ request[x] = "rpc" /\ Alive(provider)
    /\ request' = [request EXCEPT ![x] = IF provider.redis = "closed" THEN "broken" ELSE "answered"]
    /\ UNCHANGED <<service, provider, rpc, ever>>

-----------------------------------------------------------------------------

\* Both processes have ended.
Terminating == ~Alive(service) /\ ~Alive(provider) /\ UNCHANGED vars

ServiceMain == ServiceUp \/ ServiceNotify \/ NewServer \/ Serve \/ StopGrpcServer
               \/ StopDataStore \/ ServiceEnds
ProviderMain == ProviderUp \/ ProviderNotify \/ Listen \/ StopServer \/ ShutdownTimeout
                \/ ProviderClosesRedis \/ ProviderEnds
Rpc(x) == RpcArrives(x) \/ RpcRuns(x)
Request(x) == RequestArrives(x) \/ RequestRuns(x) \/ RequestEnds(x)

Next == \/ ServiceMain \/ ServiceSignal \/ ServiceFatal
        \/ ProviderMain \/ ProviderSignal \/ ProviderFatal
        \/ \E x \in Rpcs : Rpc(x)
        \/ \E x \in Requests : Request(x)
        \/ Terminating

Spec == Init /\ [][Next]_vars

Handler(x) == RequestRuns(x) \/ RequestEnds(x)

\* The goroutines go on, and a handler that has begun comes to its end; nobody has
\* to send a signal or a request.
ServiceGoesOn == WF_vars(ServiceMain)
ProviderGoesOn == WF_vars(ProviderMain)
RpcGoesOn(x) == WF_vars(RpcRuns(x))
HandlerGoesOn(x) == WF_vars(Handler(x))

Fairness ==
    /\ ServiceGoesOn /\ ProviderGoesOn
    /\ \A x \in Rpcs : RpcGoesOn(x)
    /\ \A x \in Requests : HandlerGoesOn(x)

FairSpec == Spec /\ Fairness
=============================================================================
