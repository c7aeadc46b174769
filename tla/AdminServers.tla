---------------------------- MODULE AdminServers ----------------------------
(***************************************************************************)
(* The operator's servers of a process: control (/stop, /gc) and pprof,    *)
(* with the go profiler between them, as StartWithListenter starts them    *)
(* first and stops them last.  Where they listen and which token they want *)
(* is in the environment.                                                  *)
(***************************************************************************)
EXTENDS Naturals

CONSTANTS Visitors,          \* who sends one request each
          AdminEnvironments  \* the environments a process is started in

VARIABLES adminEnv,    \* the environment of the process
          mainAt,      \* where StartWithListenter is
          admin,       \* per server: its goroutine, and what it was started with
          asked,       \* per server: Stop has called cancel
          profiler,    \* goProfilerStopper is set
          errand,      \* per visitor: its request and what came of it
          waiting      \* whose stop is in the runtime's waitChannel

adminVars == <<adminEnv, mainAt, admin, asked, profiler, errand, waiting>>

Binds == {"", " ", "localhost", "LOCALHOST", "::1", " 10.1.2.3"}
TrimSpace(host) == CASE host = " " -> "" [] host = " 10.1.2.3" -> "10.1.2.3" [] OTHER -> host

\* What os.Getenv gives.
Environments ==
    [CONTROL_PORT : {"", "9001", "nine"}, PPROF_PORT : {"", "9002", "nine"}, ADMIN_BIND_ADDRESS : Binds,
     ADMIN_TOKEN : {"", "t", "t "}, GO_PROFILING : {"", "cpu", "what;dir", "cpu;dir"}]
PlainEnvironment ==
    [CONTROL_PORT |-> "", PPROF_PORT |-> "", ADMIN_BIND_ADDRESS |-> "", ADMIN_TOKEN |-> "", GO_PROFILING |-> ""]

NotStarted == [state |-> "none", host |-> "", token |-> ""]
NoErrand == [at |-> "idle"]
Port(s) == IF s = "control" THEN adminEnv.CONTROL_PORT ELSE adminEnv.PPROF_PORT

AdminInit ==
    /\ adminEnv \in AdminEnvironments
    /\ mainAt = "startPprof"
    /\ admin = [s \in {"control", "pprof"} |-> NotStarted]
    /\ asked = [s \in {"control", "pprof"} |-> FALSE]
    /\ profiler = FALSE
    /\ errand = [v \in Visitors |-> NoErrand]
    /\ waiting = "none"

-----------------------------------------------------------------------------
(* Starting                                                                *)

\* Another spelling is another name, and a name is not an address.
isLoopbackHost(host) == host \in {"localhost", "127.0.0.1", "::1"}

BindHost(env) ==
    LET host == TrimSpace(env.ADMIN_BIND_ADDRESS) IN IF host = "" THEN "127.0.0.1" ELSE host

\* Mutant: where the server listens is not looked at.
adminListenConfigAnywhere(env) ==
    [err |-> FALSE, host |-> BindHost(env), token |-> env.ADMIN_TOKEN]

adminListenConfig(env) ==
    [err |-> ~isLoopbackHost(BindHost(env)) /\ env.ADMIN_TOKEN = "",
     host |-> BindHost(env), token |-> env.ADMIN_TOKEN]

\* Start: the goroutine is on its way, or there is no future.
AdminStart(s, next) ==
    LET conf == adminListenConfig(adminEnv)
    IN  /\ mainAt' = IF Port(s) = "nine" THEN "dead" ELSE next
        /\ admin' = IF Port(s) \notin {"", "nine"} /\ ~conf.err
                      THEN [admin EXCEPT ![s] = [state |-> "starting", host |-> conf.host, token |-> conf.token]]
                      ELSE admin
        /\ UNCHANGED <<adminEnv, asked, profiler, errand, waiting>>

StartPProfServer == mainAt = "startPprof" /\ AdminStart("pprof", "startProfiler")
StartControlServer == mainAt = "startControl" /\ AdminStart("control", "running")

\* Two parts, of which the first names a kind of profile.
StartProfiler ==
    /\ mainAt = "startProfiler"
    /\ profiler' = (adminEnv.GO_PROFILING = "cpu;dir")
    /\ mainAt' = "startControl"
    /\ UNCHANGED <<adminEnv, admin, asked, errand, waiting>>

-----------------------------------------------------------------------------
(* The goroutine of a server, in echo's StartConfig.Start.                 *)

AdminState(s, from, to) ==
    /\ mainAt \notin {"dead", "returned"}
    /\ admin[s].state = from /\ admin' = [admin EXCEPT ![s].state = to]
    /\ UNCHANGED <<adminEnv, mainAt, asked, profiler, errand, waiting>>

AdminListens(s) == AdminState(s, "starting", "serving")
AdminCannotListen(s) == AdminState(s, "starting", "over")
AdminDrains(s) == asked[s] /\ AdminState(s, "serving", "draining")

\* Shutdown waits for the handlers, but not for ever.
AdminEnds(s) == AdminState(s, "draining", "over")

-----------------------------------------------------------------------------
(* Requests                                                                *)

Methods == {"GET", "POST"}
\* /gc and the other profiles go the way of these.
ControlRoutes == {<<"GET", "/">>, <<"POST", "/stop">>}
PProfRoutes == {<<"GET", "/">>} \union (Methods \X {"/debug/pprof/heap"})
Routes(s) == IF s = "control" THEN ControlRoutes ELSE PProfRoutes

Header(scheme, token) == [scheme |-> scheme, token |-> token]
Headers == {Header("", ""), Header("", "t"), Header("Bearer", "t"), Header("Bearer", "t ")}
\* net/http trims the value of a header.
Received(header) == IF header.token = "t " THEN Header(header.scheme, "t") ELSE header

\* Only who is on the machine gets through to a loopback address.
Knock(v, s, from, route, header) ==
    /\ errand[v].at = "idle"
    /\ admin[s].state = "serving"
    /\ from = "outside" => ~isLoopbackHost(admin[s].host)
    /\ errand' = [errand EXCEPT ![v] = [at |-> "arrived", server |-> s, from |-> from,
                                        route |-> route, header |-> Received(header)]]
    /\ UNCHANGED <<adminEnv, mainAt, admin, asked, profiler, waiting>>

\* The middleware is in front of every route, of the ones that do not exist too.
adminTokenMiddleware(v) ==
    LET token == admin[errand[v].server].token
    IN  token = "" \/ errand[v].header = Header("Bearer", token)

Treat(v) ==
    /\ errand[v].at = "arrived"
    /\ errand' = [errand EXCEPT ![v].at =
           IF ~adminTokenMiddleware(v) THEN "unauthorized"
           ELSE IF errand[v].route \in Routes(errand[v].server) THEN "handler" ELSE "not found"]
    /\ UNCHANGED <<adminEnv, mainAt, admin, asked, profiler, waiting>>

\* The handlers; /stop signals the runtime and never blocks.
Handle(v) ==
    /\ errand[v].at = "handler"
    /\ errand' = [errand EXCEPT ![v].at = "ok"]
    /\ waiting' = IF errand[v].server = "control" /\ errand[v].route[2] = "/stop" /\ waiting = "none"
                    THEN "request" ELSE waiting
    /\ UNCHANGED <<adminEnv, mainAt, admin, asked, profiler>>

VisitNext(v) ==
    /\ mainAt # "dead"
    /\ \/ \E s \in {"control", "pprof"}, from \in {"inside", "outside"}, header \in Headers,
             m \in Methods, path \in {"/", "/stop", "/debug/pprof/heap"} :
             Knock(v, s, from, <<m, path>>, header)
       \/ Treat(v)
       \/ Handle(v)

-----------------------------------------------------------------------------
(* Stopping: the deferred calls, last started first.                       *)

\* Wait has returned and the server has drained.
LeaveRunning ==
    /\ mainAt = "running" /\ waiting # "none"
    /\ waiting' = "none"
    /\ mainAt' = "stopControl"
    /\ UNCHANGED <<adminEnv, admin, asked, profiler, errand>>

\* A signal of the operating system goes to the same channel.
OSSignal ==
    /\ mainAt = "running" /\ waiting' = IF waiting = "none" THEN "signal" ELSE waiting
    /\ UNCHANGED <<adminEnv, mainAt, admin, asked, profiler, errand>>

\* Stop: nothing without a future, else cancel and Join.
AdminStop(s, next) ==
    /\ admin[s].state \in {"none", "over"} \/ ~asked[s]
    /\ asked' = [asked EXCEPT ![s] = TRUE]
    /\ mainAt' = IF admin[s].state \in {"none", "over"} THEN next ELSE mainAt
    /\ UNCHANGED <<adminEnv, admin, errand, waiting>>

StopControlServer == mainAt = "stopControl" /\ AdminStop("control", "stopProfiler") /\ UNCHANGED profiler
StopProfiler ==
    /\ mainAt = "stopProfiler" /\ mainAt' = "stopPprof"
    /\ profiler' = FALSE
    /\ UNCHANGED <<adminEnv, admin, asked, errand, waiting>>
StopPProfServer == mainAt = "stopPprof" /\ AdminStop("pprof", "returned") /\ UNCHANGED profiler

AdminNext ==
    \/ StartPProfServer \/ StartProfiler \/ StartControlServer
    \/ \E s \in {"control", "pprof"} :
         AdminListens(s) \/ AdminCannotListen(s) \/ AdminDrains(s) \/ AdminEnds(s)
    \/ \E v \in Visitors : VisitNext(v)
    \/ LeaveRunning \/ OSSignal
    \/ StopControlServer \/ StopProfiler \/ StopPProfServer

AdminSpec == AdminInit /\ [][AdminNext]_adminVars

-----------------------------------------------------------------------------
\* Who is from outside has to know the token, and if there is one so has
\* everybody else.
Operator(v) ==
    \/ adminEnv.ADMIN_TOKEN = "" /\ errand[v].from = "inside"
    \/ adminEnv.ADMIN_TOKEN # "" /\ errand[v].header = Header("Bearer", adminEnv.ADMIN_TOKEN)

\* Whatever the environment says, only an operator's request comes to a handler
\* and only an operator's POST stops the process by this way (adminListenConfig,
\* adminTokenMiddleware, newEcho); and when StartWithListenter has returned, no
\* admin port is open and no profile running (Control.Stop, PProfServer.Stop).
AdminIsGuarded ==
    /\ \A v \in Visitors : errand[v].at \in {"handler", "ok"} => Operator(v)
    /\ waiting = "request" =>
         \E v \in Visitors : errand[v].at = "ok" /\ errand[v].route = <<"POST", "/stop">> /\ Operator(v)
    /\ mainAt = "returned" => ~profiler /\ \A s \in DOMAIN admin : admin[s].state \in {"none", "over"}
=============================================================================
