-------------------------- MODULE RuntimeLifecycle --------------------------
(***************************************************************************)
(* The life of one server process: Runtime.StartWithListenter of           *)
(* runtime/runtime.go, from the control server's start to the last of its  *)
(* deferred calls, with everything that runs beside it: the gRPC Serve and *)
(* gateway ListenAndServe goroutines, the POST /stop handlers of the       *)
(* control server, operating system signals, the NATS registration         *)
(* goroutine of runtime/nats.go, the requests in flight and the health     *)
(* service's Watch streams (services/health/health.go).                    *)
(*                                                                         *)
(* The main goroutine is a program counter, pc, that walks through the     *)
(* function in its own order; a step that can block is guarded by what it  *)
(* waits for.  log.Fatal ends the process without running a deferred call. *)
(***************************************************************************)
CONSTANTS
  Callers,     \* POST /stop handlers of the control server
  Requests,    \* calls made during the life of the process
  Watches      \* health Watch streams

VARIABLES
  conf,         \* [nats, gateway : BOOLEAN]: NATS_ENABLED, GRPC_GATEWAY_ENABLED
  pc,           \* where the main goroutine is
  waitChannel,  \* the 1-slot channel holds a signal
  stops,        \* the control server's POST /stop handlers
  health,       \* [status, stopped]: the health service
  root,         \* the root DI container
  sched,        \* the task scheduler runs
  otel,         \* the OTEL exporters
  grpc,         \* the *grpc.Server
  serve,        \* the goroutine in grpcServer.Serve
  serveErr,     \* Serve returned an error of its own
  conn,         \* the loopback client connection
  gw,           \* the gateway's *http.Server
  gwServe,      \* the goroutine in ListenAndServe
  nats,         \* the NATS registration goroutine and what it left behind
  req,          \* the calls
  watch         \* the Watch streams

mainVars == <<pc, waitChannel>>
svcVars == <<health, root, sched, otel, conn>>
srvVars == <<grpc, serve, serveErr, gw, gwServe>>
vars == <<conf, mainVars, stops, svcVars, srvVars, nats, req, watch>>

(***************************************************************************)
(* The order of StartWithListenter.                                        *)
(***************************************************************************)
Starting == {"boot", "build", "sched", "configure", "hook", "listen", "dial",
             "nats", "gateway", "notify", "wait"}
Stopping == {"health", "natsdown", "gwdown", "gwdrain", "schedstop",
             "graceful", "drain", "post", "joingw", "joingrpc", "connclose",
             "dispose", "ctlstop"}
Ended == {"returned", "exited", "crashed"}

\* How a call reached the gRPC server: on a connection of its own, through the
\* gateway, or through a NATS micro service; the last two are forwarded over
\* the loopback connection.
Ways == {"direct", "gateway", "nats"}

\* A NATS micro service takes requests from the moment it is added, before
\* the container is handed to the runtime, and after a Register that failed
\* half way.
NatsListens == nats \in {"partial", "registered", "published"}

NotServing == [status |-> "NOT_SERVING", stopped |-> TRUE]

LifeOK ==
  /\ conf \in [nats : BOOLEAN, gateway : BOOLEAN]
  /\ pc \in Starting \cup Stopping \cup Ended
  /\ waitChannel \in BOOLEAN
  /\ stops \in [Callers -> {"idle", "calling", "returned"}]
  /\ health \in [status : {"SERVING", "NOT_SERVING"}, stopped : BOOLEAN]
  /\ root \in {"none", "live", "disposed"}
  /\ sched \in BOOLEAN
  /\ otel \in {"off", "on", "stopped"}
  /\ grpc \in {"none", "up", "draining", "stopped"}
  /\ serve \in {"none", "spawned", "running", "done"}
  /\ serveErr \in BOOLEAN
  /\ conn \in {"none", "open", "closed"}
  /\ gw \in {"none", "up", "down"}
  /\ gwServe \in {"none", "spawned", "running", "done"}
  /\ nats \in {"none", "settling", "resolved", "connected", "partial",
               "registered", "published", "closed", "off"}
  /\ req \in [Requests -> [way : Ways, st : {"idle", "queued", "running",
                                             "ok", "refused", "lost"}]]
  /\ watch \in [Watches -> {"idle", "open", "ended"}]

Init ==
  /\ conf \in [nats : BOOLEAN, gateway : BOOLEAN]
  /\ pc = "boot"
  /\ waitChannel = FALSE
  /\ stops = [c \in Callers |-> "idle"]
  /\ health = [status |-> "SERVING", stopped |-> FALSE]
  /\ root = "none"
  /\ sched = FALSE
  /\ otel = "off"
  /\ grpc = "none"
  /\ serve = "none"
  /\ serveErr = FALSE
  /\ conn = "none"
  /\ gw = "none"
  /\ gwServe = "none"
  /\ nats = "none"
  /\ req = [r \in Requests |-> [way |-> "direct", st |-> "idle"]]
  /\ watch = [w \in Watches |-> "idle"]

(***************************************************************************)
(* Starting up.                                                            *)
(***************************************************************************)
\* The admin servers: from here on POST /stop is served.
StartControl ==
  /\ pc = "boot"
  /\ pc' = "build"
  /\ UNCHANGED <<conf, waitChannel, stops, svcVars, srvVars, nats, req, watch>>

\* Logging, configuration, ConfigureServices and Build.
BuildContainer ==
  /\ pc = "build"
  /\ pc' = "sched"
  /\ root' = "live"
  /\ UNCHANGED <<conf, waitChannel, stops, health, sched, otel, conn, srvVars,
                 nats, req, watch>>

StartScheduler ==
  /\ pc = "sched"
  /\ pc' = "configure"
  /\ sched' = TRUE
  /\ UNCHANGED <<conf, waitChannel, stops, health, root, otel, conn, srvVars,
                 nats, req, watch>>

\* Interceptors, the gRPC server and its endpoints; every registered service
\* is marked SERVING.
ConfigureServer ==
  /\ pc = "configure"
  /\ pc' = "hook"
  /\ health' = [health EXCEPT !.status = "SERVING"]
  /\ UNCHANGED <<conf, waitChannel, stops, root, sched, otel, conn, srvVars,
                 nats, req, watch>>

\* The profiler and OnPreServerStartup, which starts OTEL.
PreServerStartup ==
  /\ pc = "hook"
  /\ pc' = "listen"
  /\ otel' = "on"
  /\ UNCHANGED <<conf, waitChannel, stops, health, root, sched, conn, srvVars,
                 nats, req, watch>>

ListenAndServeGRPC ==
  /\ pc = "listen"
  /\ pc' = "dial"
  /\ grpc' = "up"
  /\ serve' = "spawned"
  /\ UNCHANGED <<conf, waitChannel, stops, svcVars, serveErr, gw, gwServe,
                 nats, req, watch>>

DialLoopback ==
  /\ pc = "dial"
  /\ pc' = "nats"
  /\ conn' = "open"
  /\ UNCHANGED <<conf, waitChannel, stops, health, root, sched, otel, srvVars,
                 nats, req, watch>>

StartNATSHandlerGateway ==
  /\ pc = "nats"
  /\ pc' = "gateway"
  /\ nats' = IF conf.nats THEN "settling" ELSE "none"
  /\ UNCHANGED <<conf, waitChannel, stops, svcVars, srvVars, req, watch>>

StartGateway ==
  /\ pc = "gateway"
  /\ pc' = "notify"
  /\ IF conf.gateway THEN gw' = "up" /\ gwServe' = "spawned"
                     ELSE UNCHANGED <<gw, gwServe>>
  /\ UNCHANGED <<conf, waitChannel, stops, svcVars, grpc, serve, serveErr,
                 nats, req, watch>>

\* A configuration that does not load, a container that does not build, a hook
\* that fails, a port that is taken: log.Fatal.
Fatal ==
  /\ pc \in {"boot", "build", "hook", "listen", "dial"}
  /\ pc' = "exited"
  /\ UNCHANGED <<conf, waitChannel, stops, svcVars, srvVars, nats, req, watch>>

(***************************************************************************)
(* Being stopped.                                                          *)
(***************************************************************************)
\* Wait: first the signals are routed to the channel ...
Notify ==
  /\ pc = "notify"
  /\ pc' = "wait"
  /\ UNCHANGED <<conf, waitChannel, stops, svcVars, srvVars, nats, req, watch>>

\* ... then the receive.
Wait ==
  /\ pc = "wait"
  /\ waitChannel
  /\ waitChannel' = FALSE
  /\ pc' = "health"
  /\ UNCHANGED <<conf, stops, svcVars, srvVars, nats, req, watch>>

\* A POST /stop reaches the control server.
PostStop(c) ==
  /\ pc \notin {"boot"} \cup Ended
  /\ stops[c] = "idle"
  /\ stops' = [stops EXCEPT ![c] = "calling"]
  /\ UNCHANGED <<conf, mainVars, svcVars, srvVars, nats, req, watch>>

\* Mutant: an unbuffered channel, a Stop before Wait is dropped.
StopUnbuffered(c) ==
  /\ pc \notin Ended
  /\ stops[c] = "calling"
  /\ waitChannel' = (pc = "wait")
  /\ stops' = [stops EXCEPT ![c] = "returned"]
  /\ UNCHANGED <<conf, pc, svcVars, srvVars, nats, req, watch>>

\* Runtime.Stop: a send that gives up when the slot is taken.
Stop(c) ==
  /\ pc \notin Ended
  /\ stops[c] = "calling"
  /\ waitChannel' = TRUE
  /\ stops' = [stops EXCEPT ![c] = "returned"]
  /\ UNCHANGED <<conf, pc, svcVars, srvVars, nats, req, watch>>

\* SIGINT, SIGQUIT or SIGTERM: before Notify it kills the process, afterwards
\* it is a send that gives up when the slot is taken.
Signal ==
  /\ pc \notin Ended
  /\ IF pc \in Starting \ {"wait"}
     THEN pc' = "exited" /\ UNCHANGED waitChannel
     ELSE waitChannel' = TRUE /\ UNCHANGED pc
  /\ UNCHANGED <<conf, stops, svcVars, srvVars, nats, req, watch>>

(***************************************************************************)
(* Shutting down.                                                          *)
(***************************************************************************)
\* Service.Shutdown: everything NOT_SERVING, later updates are ignored, the
\* Watch streams are told to end.
HealthShutdown ==
  /\ pc = "health"
  /\ pc' = "natsdown"
  /\ health' = NotServing
  /\ UNCHANGED <<conf, waitChannel, stops, root, sched, otel, conn, srvVars,
                 nats, req, watch>>

\* The container is read without synchronisation: after the goroutine's store
\* the main goroutine may still see nil.
NatsShutdown ==
  /\ pc = "natsdown"
  /\ pc' = "gwdown"
  /\ \/ conf.nats /\ nats = "published" /\ nats' = "closed"
     \/ UNCHANGED nats
  /\ UNCHANGED <<conf, waitChannel, stops, svcVars, srvVars, req, watch>>

\* http.Server.Shutdown: the listener is closed ...
GatewayShutdown ==
  /\ pc = "gwdown"
  /\ pc' = "gwdrain"
  /\ gw' = IF gw = "up" THEN "down" ELSE gw
  /\ UNCHANGED <<conf, waitChannel, stops, svcVars, grpc, serve, serveErr,
                 gwServe, nats, req, watch>>

InFlight(r) == req[r].st \in {"queued", "running"}

\* Mutant: Close instead of Shutdown, the gateway's requests are not awaited.
GatewayNotDrained ==
  /\ pc = "gwdrain"
  /\ pc' = "schedstop"
  /\ UNCHANGED <<conf, waitChannel, stops, svcVars, srvVars, nats, req, watch>>

\* ... and it waits for the requests the gateway has accepted.
GatewayDrained ==
  /\ pc = "gwdrain"
  /\ \A r \in Requests : ~(InFlight(r) /\ req[r].way = "gateway")
  /\ pc' = "schedstop"
  /\ UNCHANGED <<conf, waitChannel, stops, svcVars, srvVars, nats, req, watch>>

StopScheduler ==
  /\ pc = "schedstop"
  /\ pc' = "graceful"
  /\ sched' = FALSE
  /\ UNCHANGED <<conf, waitChannel, stops, health, root, otel, conn, srvVars,
                 nats, req, watch>>

\* GracefulStop: no new call is accepted ...
GracefulStop ==
  /\ pc = "graceful"
  /\ pc' = "drain"
  /\ grpc' = "draining"
  /\ UNCHANGED <<conf, waitChannel, stops, svcVars, serve, serveErr, gw,
                 gwServe, nats, req, watch>>

\* Mutant: Stop instead of GracefulStop, handlers run on.
NotDrained ==
  /\ pc = "drain"
  /\ pc' = "post"
  /\ grpc' = "stopped"
  /\ UNCHANGED <<conf, waitChannel, stops, svcVars, serve, serveErr, gw,
                 gwServe, nats, req, watch>>

\* ... and it waits for every call and every stream that is open.
Drained ==
  /\ pc = "drain"
  /\ \A r \in Requests : req[r].st # "running"
  /\ \A w \in Watches : watch[w] # "open"
  /\ pc' = "post"
  /\ grpc' = "stopped"
  /\ UNCHANGED <<conf, waitChannel, stops, svcVars, serve, serveErr, gw,
                 gwServe, nats, req, watch>>

\* OnPostServerShutdown flushes and stops OTEL.
PostServerShutdown ==
  /\ pc = "post"
  /\ pc' = "joingw"
  /\ otel' = "stopped"
  /\ UNCHANGED <<conf, waitChannel, stops, health, root, sched, conn, srvVars,
                 nats, req, watch>>

JoinGateway ==
  /\ pc = "joingw"
  /\ gwServe \in {"none", "done"}
  /\ pc' = "joingrpc"
  /\ UNCHANGED <<conf, waitChannel, stops, svcVars, srvVars, nats, req, watch>>

JoinGRPC ==
  /\ pc = "joingrpc"
  /\ serve = "done"
  /\ pc' = "connclose"
  /\ UNCHANGED <<conf, waitChannel, stops, svcVars, srvVars, nats, req, watch>>

CloseLoopback ==
  /\ pc = "connclose"
  /\ pc' = "dispose"
  /\ conn' = "closed"
  /\ UNCHANGED <<conf, waitChannel, stops, health, root, sched, otel, srvVars,
                 nats, req, watch>>

DisposeContainer ==
  /\ pc = "dispose"
  /\ pc' = "ctlstop"
  /\ root' = "disposed"
  /\ UNCHANGED <<conf, waitChannel, stops, health, sched, otel, conn, srvVars,
                 nats, req, watch>>

\* The control server is stopped last; it waits for its handlers (for far
\* longer than one that never blocks needs).
StopControl ==
  /\ pc = "ctlstop"
  /\ \A c \in Callers : stops[c] # "calling"
  /\ pc' = "returned"
  /\ UNCHANGED <<conf, waitChannel, stops, svcVars, srvVars, nats, req, watch>>

(***************************************************************************)
(* The Serve goroutines.                                                   *)
(***************************************************************************)
\* Serve on a server that has been stopped returns at once.
ServeGRPC ==
  /\ pc \notin Ended
  /\ serve = "spawned"
  /\ serve' = IF grpc = "up" THEN "running" ELSE "done"
  /\ UNCHANGED <<conf, mainVars, stops, svcVars, grpc, serveErr, gw, gwServe,
                 nats, req, watch>>

\* It returns when the server is stopped, or with an error of the listener:
\* nothing but the log sees that one.
ServeReturns ==
  /\ pc \notin Ended
  /\ serve = "running"
  /\ serve' = "done"
  /\ serveErr' = (grpc = "up")
  /\ UNCHANGED <<conf, mainVars, stops, svcVars, grpc, gw, gwServe, nats, req,
                 watch>>

ServeGateway ==
  /\ pc \notin Ended
  /\ gwServe = "spawned"
  /\ gwServe' = IF gw = "up" THEN "running" ELSE "done"
  /\ UNCHANGED <<conf, mainVars, stops, svcVars, grpc, serve, serveErr, gw,
                 nats, req, watch>>

GatewayReturns ==
  /\ pc \notin Ended
  /\ gwServe = "running"
  /\ gwServe' = "done"
  /\ UNCHANGED <<conf, mainVars, stops, svcVars, grpc, serve, serveErr, gw,
                 nats, req, watch>>

(***************************************************************************)
(* The NATS registration goroutine.                                        *)
(***************************************************************************)
\* After its pause it resolves the handlers and the configuration: di.Get on
\* a disposed container panics, and nothing recovers the panic.
NatsResolve ==
  /\ pc \notin Ended
  /\ nats = "settling"
  /\ IF root = "disposed"
     THEN pc' = "crashed" /\ nats' = "off"
     ELSE nats' \in {"resolved", "off"} /\ UNCHANGED pc
  /\ UNCHANGED <<conf, waitChannel, stops, svcVars, srvVars, req, watch>>

NatsConnect ==
  /\ pc \notin Ended
  /\ nats = "resolved"
  /\ nats' \in {"connected", "off"}
  /\ UNCHANGED <<conf, mainVars, stops, svcVars, srvVars, req, watch>>

\* Register adds one micro service after the other; an error part way leaves
\* the earlier ones, and the connection, behind.
NatsRegister ==
  /\ pc \notin Ended
  /\ nats = "connected"
  /\ IF root = "disposed"
     THEN pc' = "crashed" /\ nats' = "off"
     ELSE nats' \in {"registered", "partial"} /\ UNCHANGED pc
  /\ UNCHANGED <<conf, waitChannel, stops, svcVars, srvVars, req, watch>>

SetNATSMicroServicesContainer ==
  /\ pc \notin Ended
  /\ nats = "registered"
  /\ nats' = "published"
  /\ UNCHANGED <<conf, mainVars, stops, svcVars, srvVars, req, watch>>

(***************************************************************************)
(* Calls and streams.                                                      *)
(***************************************************************************)
\* The gRPC server takes new calls.
Accepts == grpc = "up" /\ serve = "running"

DirectCall(r) ==
  /\ pc \notin Ended
  /\ Accepts
  /\ req[r].st = "idle"
  /\ req' = [req EXCEPT ![r] = [way |-> "direct", st |-> "running"]]
  /\ UNCHANGED <<conf, mainVars, stops, svcVars, srvVars, nats, watch>>

GatewayCall(r) ==
  /\ pc \notin Ended
  /\ gw = "up" /\ gwServe = "running"
  /\ req[r].st = "idle"
  /\ req' = [req EXCEPT ![r] = [way |-> "gateway", st |-> "queued"]]
  /\ UNCHANGED <<conf, mainVars, stops, svcVars, srvVars, nats, watch>>

NatsCall(r) ==
  /\ pc \notin Ended
  /\ NatsListens
  /\ req[r].st = "idle"
  /\ req' = [req EXCEPT ![r] = [way |-> "nats", st |-> "queued"]]
  /\ UNCHANGED <<conf, mainVars, stops, svcVars, srvVars, nats, watch>>

\* The handler of the gateway or of the micro service makes its call over the
\* loopback connection.  Connections made before Serve failed live on.
Forward(r) ==
  /\ pc \notin Ended
  /\ req[r].st = "queued"
  /\ conn = "open" /\ (Accepts \/ (grpc = "up" /\ serveErr))
  /\ req' = [req EXCEPT ![r].st = "running"]
  /\ UNCHANGED <<conf, mainVars, stops, svcVars, srvVars, nats, watch>>

Unavailable(r) ==
  /\ pc \notin Ended
  /\ req[r].st = "queued"
  /\ conn = "closed" \/ grpc # "up" \/ serveErr
  /\ req' = [req EXCEPT ![r].st = "refused"]
  /\ UNCHANGED <<conf, mainVars, stops, svcVars, srvVars, nats, watch>>

\* The handler returns, the interceptors dispose of the request's scope and
\* end its span; a NATS response needs the connection the shutdown closes.
Finish(r) ==
  /\ pc \notin Ended
  /\ req[r].st = "running"
  /\ req' = [req EXCEPT ![r].st =
               IF req[r].way = "nats" /\ nats = "closed" THEN "lost" ELSE "ok"]
  /\ UNCHANGED <<conf, mainVars, stops, svcVars, srvVars, nats, watch>>

OpenWatch(w) ==
  /\ pc \notin Ended
  /\ Accepts
  /\ watch[w] = "idle"
  /\ watch' = [watch EXCEPT ![w] = "open"]
  /\ UNCHANGED <<conf, mainVars, stops, svcVars, srvVars, nats, req>>

\* Service.Watch after Shutdown: the grace passes, the stream's context is
\* cancelled.
EndWatch(w) ==
  /\ pc \notin Ended
  /\ watch[w] = "open"
  /\ health.stopped
  /\ watch' = [watch EXCEPT ![w] = "ended"]
  /\ UNCHANGED <<conf, mainVars, stops, svcVars, srvVars, nats, req>>

LeaveWatch(w) ==
  /\ pc \notin Ended
  /\ watch[w] = "open"
  /\ watch' = [watch EXCEPT ![w] = "ended"]
  /\ UNCHANGED <<conf, mainVars, stops, svcVars, srvVars, nats, req>>

\* Mutant: a status update is applied during the drain, too.
SetStatusAlways(s) ==
  /\ pc \notin Ended /\ root = "live"
  /\ health' = [health EXCEPT !.status = s]
  /\ UNCHANGED <<conf, mainVars, stops, root, sched, otel, conn, srvVars,
                 nats, req, watch>>

\* The application reports a status; after Shutdown that is ignored.
SetServingStatus(s) ==
  /\ pc \notin Ended /\ root = "live"
  /\ ~health.stopped
  /\ health' = [health EXCEPT !.status = s]
  /\ UNCHANGED <<conf, mainVars, stops, root, sched, otel, conn, srvVars,
                 nats, req, watch>>

\* The process is gone: the only state in which nothing happens any more.
Gone == pc \in Ended /\ UNCHANGED vars

Main ==
  \/ StartControl \/ BuildContainer \/ StartScheduler \/ ConfigureServer
  \/ PreServerStartup \/ ListenAndServeGRPC \/ DialLoopback
  \/ StartNATSHandlerGateway \/ StartGateway \/ Notify \/ Wait
  \/ HealthShutdown \/ NatsShutdown \/ GatewayShutdown \/ GatewayDrained
  \/ StopScheduler \/ GracefulStop \/ Drained \/ PostServerShutdown
  \/ JoinGateway \/ JoinGRPC \/ CloseLoopback \/ DisposeContainer
  \/ StopControl

Goroutines ==
  \/ ServeGRPC \/ ServeReturns \/ ServeGateway \/ GatewayReturns
  \/ NatsResolve \/ NatsConnect \/ NatsRegister
  \/ SetNATSMicroServicesContainer

Next ==
  \/ Main \/ Fatal \/ Signal \/ Goroutines \/ Gone
  \/ \E c \in Callers : PostStop(c) \/ Stop(c)
  \/ \E r \in Requests : \/ DirectCall(r) \/ GatewayCall(r) \/ NatsCall(r)
                         \/ Forward(r) \/ Unavailable(r) \/ Finish(r)
  \/ \E w \in Watches : OpenWatch(w) \/ EndWatch(w) \/ LeaveWatch(w)
  \/ \E s \in {"SERVING", "NOT_SERVING"} : SetServingStatus(s)

Spec == Init /\ [][Next]_vars

\* The Go scheduler runs every goroutine that can run; handlers end, as
\* GracefulStop (which has no deadline) requires of them.
FairSpec ==
  /\ Spec
  /\ WF_vars(Main)
  /\ WF_vars(ServeGRPC) /\ WF_vars(ServeReturns /\ grpc # "up")
  /\ WF_vars(ServeGateway) /\ WF_vars(GatewayReturns /\ gw # "up")
  /\ \A c \in Callers : WF_vars(Stop(c))
  /\ \A r \in Requests : WF_vars(Forward(r) \/ Unavailable(r)) /\ WF_vars(Finish(r))
  /\ \A w \in Watches : WF_vars(EndWatch(w))

(***************************************************************************)
(* Properties.                                                             *)
(***************************************************************************)
\* A call being handled has the root container its scope was made from, the
\* exporters its span ends in and a gRPC server that still waits for it
\* (TestShutdownHooks_SpansDuringDrainAreExported and the deferred Dispose).
DrainedBeforeTeardown ==
  \A r \in Requests : req[r].st = "running" =>
    root = "live" /\ otel = "on" /\ grpc \in {"up", "draining"} /\ pc # "returned"

\* A request the gateway accepted always finds the gRPC server there: only a
\* Serve that failed on its own makes the gateway answer Unavailable, a
\* shutdown never does.
GatewayOutlivedByServer ==
  \A r \in Requests : req[r].way = "gateway" =>
    /\ req[r].st = "queued" => conn = "open" /\ grpc = "up"
    /\ req[r].st = "refused" => serveErr

\* Health says NOT_SERVING from before the first door is closed, and no status
\* update during the drain brings SERVING back ("Report NOT_SERVING before
\* draining so load balancers stop sending new traffic").
HealthBeforeDrain ==
  (gw = "down" \/ grpc \in {"draining", "stopped"} \/ nats = "closed") =>
    health = NotServing

(***************************************************************************)
(* What makes the three invariants inductive: what is up in which phase.   *)
(***************************************************************************)
\* What the main goroutine has started, and not yet stopped, where it stands.
PhaseInv ==
  /\ pc \in Starting \ {"boot", "build"} => root = "live"
  /\ pc \in Stopping \ {"ctlstop"} => root = "live"
  /\ pc \in (Starting \ {"boot", "build", "sched", "configure", "hook"})
           \cup {"health", "natsdown", "gwdown", "gwdrain", "schedstop",
                 "graceful", "drain", "post"} => otel = "on"
  /\ pc \in {"boot", "build", "sched", "configure", "hook", "listen"} =>
       grpc = "none"
  /\ pc \in {"dial", "nats", "gateway", "notify", "wait", "health",
             "natsdown", "gwdown", "gwdrain", "schedstop", "graceful"} =>
       grpc = "up"
  /\ pc = "drain" => grpc = "draining"
  /\ pc \in {"post", "joingw", "joingrpc", "connclose", "dispose", "ctlstop",
             "returned"} => grpc = "stopped"
  /\ pc \in {"nats", "gateway", "notify", "wait", "health", "natsdown",
             "gwdown", "gwdrain", "schedstop", "graceful"} => conn = "open"
  /\ pc \in Starting \cup {"health"} => ~health.stopped
  /\ pc \in Stopping \ {"health"} => health = NotServing
  /\ pc \in {"gwdrain", "schedstop", "graceful"} => gw # "up"
  /\ pc \in {"schedstop", "graceful"} =>
       \A r \in Requests : ~(InFlight(r) /\ req[r].way = "gateway")

\* What holds of the servers whatever the main goroutine does.
ServerInv ==
  /\ grpc = "up" => root = "live" /\ otel = "on"
  /\ gw = "up" => conn = "open" /\ grpc = "up"
  /\ serveErr => serve = "done" /\ grpc # "none"

\* The inductive invariant.
LifeInv ==
  /\ LifeOK /\ PhaseInv /\ ServerInv
  /\ DrainedBeforeTeardown /\ GatewayOutlivedByServer /\ HealthBeforeDrain

\* A POST /stop that was answered, at any moment of the process's life, ends
\* it: not lost before Wait, not held up by an open Watch, no goroutine
\* waiting for another.
StopIsHeeded == (\E c \in Callers : stops[c] = "returned") ~> (pc \in Ended)
=============================================================================
