------------------------- MODULE LifecycleProperties -------------------------
(***************************************************************************)
(* What starting and stopping promise, over the states of ServerLifecycle. *)
(***************************************************************************)
EXTENDS ServerLifecycle

RedisState == {"node", "closed", Nil}
ServiceState ==
    [main : {"setup", "up", "signal", "draining", "closing", "ended", "crashed"},
     notified : BOOLEAN, server : {"new", "serving", "stopping", Nil},
     global : {"server", Nil}, database : {"open", "closed", Nil}, redis : RedisState]
ProviderState ==
    [main : {"setup", "up", "signal", "draining", "closing", "ended"},
     notified : BOOLEAN, server : {"new", "serving", "stopping", Nil},
     redis : RedisState, timedOut : BOOLEAN, fatal : BOOLEAN]

\* Type invariant of the processes, the RPCs and the requests.
TypeOK ==
    /\ service \in ServiceState
    /\ provider \in ProviderState
    /\ rpc \in [Rpcs -> {"idle", "running", "answered", "refused", "broken"}]
    /\ request \in [Requests -> {"idle", "running", "rpc", "answered", "broken", "cut"}]
    /\ ever \in BOOLEAN

-----------------------------------------------------------------------------

\* Whenever a signal comes, an RPC that was taken finds PostgreSQL and Redis open, and
\* none is running when they are closed; a signal that comes before the server is there
\* makes the process panic, but then no RPC was ever taken (sso-service.go:21-36,
\* grpc.go:20-41).
TakenRpcsAreServed ==
    /\ \A x \in Rpcs : rpc[x] # "broken"
    /\ service.database = "closed" => Running = {}
    /\ service.main = "crashed" => ~ever

\* A handler finds Redis closed, or is cut off at the end of the process, only when
\* ShutdownTimeout was over, or in the window between StartServer and signal.Notify,
\* where a signal kills the process; but a handler is also cut off by a log.Fatalf that
\* is not of the shutdown (http-server.go:56-59, 95-102, sso-provider.go:19-31,
\* authorization.go:104-106).
HandlersHaveTime ==
    \A x \in Requests :
        /\ request[x] = "broken" => provider.timedOut
        /\ request[x] = "cut" => provider.timedOut \/ ~provider.notified \/ provider.fatal

\* What waits for somebody else: a process that got a signal goes on, SSO Service when it
\* is drained, SSO Provider in any case, and so do an RPC and a handler that have begun
\* (http-server.go:95-102, grpc.go:37-41, token.go:95-97).
OnlyTheDrainWaits ==
    /\ \/ service.main \in {"signal", "closing"}
       \/ service.main = "draining" /\ Drained
       => ENABLED <<ServiceMain>>_vars
    /\ provider.main \in {"signal", "draining", "closing"} => ENABLED <<ProviderMain>>_vars
    /\ \A x \in Running : Alive(service) => ENABLED <<RpcRuns(x)>>_vars
    /\ \A x \in Handling : Alive(provider) => ENABLED <<Handler(x)>>_vars

ServiceDrains == service.main = "draining" ~> (Drained \/ ~Alive(service))
ServiceStops == service.main = "signal" ~> ~Alive(service)
ProviderStops == provider.main = "signal" ~> ~Alive(provider)
RpcSettles(x) == (x \in Running) ~> (x \notin Running \/ ~Alive(service))
RequestSettles(x) == (x \in Handling) ~> (x \notin Handling \/ ~Alive(provider))

\* After a signal both processes come to their end, whatever the other one does, and an
\* RPC or a request is never left hanging, although the RPC a handler makes may be lost
\* (http-server.go:97, token.go:95-97).
EverythingEnds ==
    /\ []OnlyTheDrainWaits
    /\ ServiceDrains /\ ServiceStops /\ ProviderStops
    /\ \A x \in Rpcs : RpcSettles(x)
    /\ \A x \in Requests : RequestSettles(x)
=============================================================================
