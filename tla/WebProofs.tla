----------------------------- MODULE WebProofs ------------------------------
(***************************************************************************)
(* What is proved, for any number of requests, of the server's edges: the  *)
(* telemetry, the admin servers, the handlers, the sessions and cookies of *)
(* the web server, the TLS files, the trail of a request, and the routes   *)
(* of the generated services.                                              *)
(***************************************************************************)
EXTENDS ServiceRoutes, Telemetry, AdminServers, EchoRuntime, EchoSessions, EchoCookies, ServerTLS, RequestTrail,
        Extremes, TLAPS

-----------------------------------------------------------------------------
(* Telemetry.  Nothing is shut down before the server has drained, and     *)
(* there are spans and measurements only where there is a provider.        *)

Containers ==
    [TracerProvider : {"nil", "up", "down"}, MetricExporter : {"nil", "up", "down"},
     MeterProvider : {"nil", "up", "down"}]
SpanStates == {"none", "open", "batched", "exported", "unsent", "dropped"}

OTELInv ==
    /\ container \in Containers
    /\ span \in [Spans -> SpanStates]
    /\ otelPhase # "stopped" => container.TracerProvider # "down" /\ container.MeterProvider # "down"
    /\ otelPhase \in {"boot", "configured"} => measuring = {} /\ ~measured /\ span = [s \in Spans |-> "none"]
    /\ container.TracerProvider = "nil" => \A s \in Spans : span[s] # "batched"
    /\ measured => measuring # {}
    /\ NothingIsLeftBehind

\* Setting up makes providers that are up, or none.
LEMMA SetUp ==
  ASSUME container \in Containers, NEW made,
         container.TracerProvider # "down", container.MeterProvider # "down"
  PROVE  /\ InitContainer(made) \in Containers
         /\ InitContainer(made).TracerProvider # "down" /\ InitContainer(made).MeterProvider # "down"
<1>1. ASSUME NEW c \in Containers, c.TracerProvider # "down", c.MeterProvider # "down", NEW ok
      PROVE  /\ InitOTELTraceProvider(c, ok) \in Containers
             /\ InitOTELTraceProvider(c, ok).TracerProvider # "down"
             /\ InitOTELTraceProvider(c, ok).MeterProvider # "down"
             /\ InitMeterProvider(c, ok) \in Containers
             /\ InitMeterProvider(c, ok).TracerProvider # "down"
             /\ InitMeterProvider(c, ok).MeterProvider # "down"
  BY <1>1 DEF InitOTELTraceProvider, InitMeterProvider, Containers
<1> QED
  BY <1>1 DEF InitContainer

\* Spans that are sent are where they can be.
LEMMA SentSpans ==
  ASSUME span \in [Spans -> SpanStates], NEW ok, span' = [s \in Spans |-> Exported(s, ok)]
  PROVE  /\ span' \in [Spans -> SpanStates]
         /\ \A s \in Spans : span'[s] # "batched" /\ (span'[s] = "dropped" => span[s] = "dropped")
BY DEF Exported, SpanStates

\* Everything the server does keeps the invariant.
LEMMA OTELInvariant == OTELSpec => []OTELInv
<1>1. OTELInit => OTELInv
  BY DEF OTELInit, OTELInv, NewOTELContainer, Containers, SpanStates, NothingIsLeftBehind
<1>2. ASSUME OTELInv, [OTELNext]_otelVars PROVE OTELInv'
  <2> USE <1>2 DEF OTELInv, NothingIsLeftBehind
  <2>1. ASSUME NEW made, ConfigureServerOpts(made) PROVE OTELInv'
    <3>1. container' \in Containers /\ container'.TracerProvider # "down" /\ container'.MeterProvider # "down"
      BY <2>1, SetUp DEF ConfigureServerOpts
    <3> QED
      BY <2>1, <3>1 DEF ConfigureServerOpts
  <2>2. CASE OnPreServerStartup
    BY <2>2 DEF OnPreServerStartup
  <2>3. CASE OnPreServerShutdown
    BY <2>3 DEF OnPreServerShutdown
  <2>4. ASSUME NEW s \in Spans, StartSpan(s) PROVE OTELInv'
    BY <2>4 DEF StartSpan, SpanStates
  <2>5. ASSUME NEW s \in Spans, EndSpan(s) PROVE OTELInv'
    BY <2>5 DEF EndSpan, SpanStates, Containers, Working
  <2>6. CASE Measure
    BY <2>6 DEF Measure, Working
  <2>7. ASSUME NEW ok \in BOOLEAN, SendBatch(ok) PROVE OTELInv'
    BY <2>7, SentSpans DEF SendBatch, Working
  <2>8. ASSUME NEW ok \in BOOLEAN, Collect(ok) PROVE OTELInv'
    BY <2>8 DEF Collect, Working
  <2>9. ASSUME NEW ok \in BOOLEAN, OnPostServerShutdown(ok) PROVE OTELInv'
    <3>1. /\ container' \in Containers
          /\ container.TracerProvider = "nil" <=> container'.TracerProvider = "nil"
          /\ container.MeterProvider = "nil" <=> container'.MeterProvider = "nil"
      BY <2>9 DEF OnPostServerShutdown, Stop, Containers
    <3>2. /\ span' \in [Spans -> SpanStates]
          /\ \A s \in Spans : span'[s] # "batched" /\ (span'[s] = "dropped" => span[s] = "dropped")
      BY <2>9, SentSpans DEF OnPostServerShutdown, Stop, Containers
    <3>3. ~measured'
      BY <2>9 DEF OnPostServerShutdown, Stop, Containers
    <3> QED
      BY <2>9, <3>1, <3>2, <3>3 DEF OnPostServerShutdown, Stop
  <2>10. CASE UNCHANGED otelVars
    BY <2>10 DEF otelVars
  <2> QED
    BY <2>1, <2>2, <2>3, <2>4, <2>5, <2>6, <2>7, <2>8, <2>9, <2>10 DEF OTELNext
<1> QED
  BY <1>1, <1>2, PTL DEF OTELSpec

\* However requests, batches, collections and the drain interleave, what ended
\* before the server was down was offered to the collector (OnPostServerShutdown).
THEOREM TelemetryTheorem == OTELSpec => []NothingIsLeftBehind
<1>1. OTELInv => NothingIsLeftBehind
  BY DEF OTELInv
<1> QED
  BY <1>1, OTELInvariant, PTL

-----------------------------------------------------------------------------
(* The admin servers.  A server that was started wants the token of the    *)
(* environment and has one if it can be reached from outside; a request    *)
(* that reached a handler passed its middleware.                           *)

BothServers == {"control", "pprof"}
Errands ==
    [at : {"arrived", "unauthorized", "handler", "not found", "ok"}, server : BothServers,
     from : {"inside", "outside"}, route : Methods \X {"/", "/stop", "/debug/pprof/heap"},
     header : {Received(h) : h \in Headers}]

\* The environment lets a server be started.
MayStart(env) == isLoopbackHost(BindHost(env)) \/ env.ADMIN_TOKEN # ""

ServerOK(s) ==
    /\ DOMAIN admin[s] = {"state", "host", "token"}
    /\ admin[s].state # "none" =>
         /\ admin[s].host = BindHost(adminEnv) /\ admin[s].token = adminEnv.ADMIN_TOKEN /\ MayStart(adminEnv)

ErrandOK(v) ==
    errand[v].at # "idle" =>
      /\ errand[v] \in Errands
      /\ admin[errand[v].server].state # "none"
      /\ errand[v].from = "outside" => ~isLoopbackHost(BindHost(adminEnv))
      /\ errand[v].at \in {"handler", "ok"} => Operator(v) /\ errand[v].route \in Routes(errand[v].server)

StopOK ==
    waiting = "request" =>
      \E v \in Visitors : errand[v].at = "ok" /\ errand[v].route = <<"POST", "/stop">> /\ Operator(v)

MainOK ==
    /\ mainAt \in {"stopProfiler", "stopPprof", "returned"} => admin["control"].state \in {"none", "over"}
    /\ mainAt \in {"stopPprof", "returned"} => ~profiler
    /\ mainAt = "returned" => admin["pprof"].state \in {"none", "over"}

AdminInv ==
    /\ DOMAIN admin = BothServers /\ \A s \in BothServers : ServerOK(s)
    /\ DOMAIN errand = Visitors /\ \A v \in Visitors : ErrandOK(v)
    /\ StopOK /\ MainOK

\* What adminListenConfig says of the environment.
LEMMA ListenConfig ==
  ASSUME NEW env
  PROVE  /\ adminListenConfig(env).host = BindHost(env) /\ adminListenConfig(env).token = env.ADMIN_TOKEN
         /\ adminListenConfig(env).err \/ MayStart(env)
<1>1. adminListenConfig(env).host = BindHost(env) /\ adminListenConfig(env).token = env.ADMIN_TOKEN
  BY DEF adminListenConfig
<1>2. adminListenConfig(env).err = (~isLoopbackHost(BindHost(env)) /\ env.ADMIN_TOKEN = "")
  BY Zenon DEF adminListenConfig
<1> QED
  BY <1>1, <1>2, Zenon DEF MayStart

\* Errands and servers as they were, and nobody's stop that was not there.
LEMMA ErrandsRest ==
  ASSUME AdminInv, UNCHANGED <<adminEnv, errand>>, waiting' \in {waiting, "none", "signal"},
         DOMAIN admin' = BothServers, \A s \in BothServers : ServerOK(s)',
         \A s \in BothServers : admin[s].state # "none" => admin'[s].state # "none",
         MainOK'
  PROVE  AdminInv'
<1>1. \A v \in Visitors : ErrandOK(v)'
  BY DEF AdminInv, ErrandOK, Operator, Errands
<1>2. StopOK'
  BY DEF AdminInv, StopOK, Operator
<1> QED
  BY <1>1, <1>2 DEF AdminInv

\* A server is started as the environment says.
LEMMA AdminStarts ==
  ASSUME AdminInv, NEW s \in BothServers, NEW next, AdminStart(s, next),
         next \in {"startProfiler", "running"}
  PROVE  AdminInv'
<1> DEFINE conf == adminListenConfig(adminEnv)
<1>1. /\ UNCHANGED <<adminEnv, errand, waiting, profiler>> /\ mainAt' \in {"dead", next}
      /\ \/ admin' = admin
         \/ ~conf.err /\ admin' = [admin EXCEPT ![s] = [state |-> "starting", host |-> conf.host, token |-> conf.token]]
  BY DEF AdminStart
<1>2. MainOK'
  BY <1>1 DEF MainOK
<1>3. CASE admin' = admin
  BY <1>1, <1>2, <1>3, ErrandsRest DEF AdminInv, ServerOK
<1>4. CASE ~conf.err /\ admin' = [admin EXCEPT ![s] = [state |-> "starting", host |-> conf.host, token |-> conf.token]]
  <2>1. MayStart(adminEnv) /\ conf.host = BindHost(adminEnv) /\ conf.token = adminEnv.ADMIN_TOKEN
    BY <1>4, ListenConfig
  <2> HIDE DEF conf
  <2>2. /\ DOMAIN admin' = BothServers /\ \A x \in BothServers : x # s => admin'[x] = admin[x]
        /\ admin'[s] = [state |-> "starting", host |-> conf.host, token |-> conf.token]
    BY <1>4 DEF AdminInv
  <2>3. /\ admin'[s].state = "starting" /\ admin'[s].host = conf.host /\ admin'[s].token = conf.token
        /\ DOMAIN admin'[s] = {"state", "host", "token"}
    BY <2>2
  <2>4. \A x \in BothServers : ServerOK(x)'
    BY <1>1, <2>1, <2>2, <2>3 DEF AdminInv, ServerOK
  <2> QED
    BY <1>1, <1>2, <2>2, <2>3, <2>4, ErrandsRest
<1> QED
  BY <1>1, <1>3, <1>4

\* A server's goroutine goes on.
LEMMA AdminGoesOn ==
  ASSUME AdminInv, NEW s \in BothServers, NEW from \in {"starting", "serving", "draining"},
         NEW to \in {"serving", "draining", "over"}, AdminState(s, from, to)
  PROVE  AdminInv'
<1>1. /\ UNCHANGED <<adminEnv, mainAt, errand, waiting, profiler>>
      /\ admin[s].state = from /\ admin' = [admin EXCEPT ![s] = [admin[s] EXCEPT !.state = to]]
  BY DEF AdminState
<1>2. /\ DOMAIN admin' = BothServers /\ \A x \in BothServers : x # s => admin'[x] = admin[x]
      /\ admin'[s].state = to /\ admin'[s].host = admin[s].host /\ admin'[s].token = admin[s].token
      /\ DOMAIN admin'[s] = {"state", "host", "token"}
  BY <1>1 DEF AdminInv, ServerOK
<1>3. \A x \in BothServers : ServerOK(x)'
  BY <1>1, <1>2 DEF AdminInv, ServerOK
<1>4. MainOK'
  BY <1>1, <1>2 DEF AdminInv, MainOK, BothServers
<1> QED
  BY <1>1, <1>2, <1>3, <1>4, ErrandsRest

\* One errand goes on.
LEMMA OneErrand ==
  ASSUME AdminInv, NEW v \in Visitors, UNCHANGED <<adminEnv, mainAt, admin, profiler>>,
         DOMAIN errand' = Visitors, \A w \in Visitors : w # v => errand'[w] = errand[w],
         ErrandOK(v)', StopOK'
  PROVE  AdminInv'
<1>1. \A w \in Visitors : w # v => ErrandOK(w)'
  BY DEF AdminInv, ErrandOK, Operator
<1>2. \A s \in BothServers : ServerOK(s)'
  BY DEF AdminInv, ServerOK
<1>3. MainOK'
  BY DEF AdminInv, MainOK
<1> QED
  BY <1>1, <1>2, <1>3 DEF AdminInv

\* Whoever stopped the process has done so before.
LEMMA StopStays ==
  ASSUME AdminInv, NEW v \in Visitors, errand[v].at # "ok", UNCHANGED <<adminEnv, waiting>>,
         \A w \in Visitors : w # v => errand'[w] = errand[w]
  PROVE  StopOK'
BY DEF AdminInv, StopOK, Operator

\* A request comes in.
LEMMA KnockOK ==
  ASSUME AdminInv, NEW v \in Visitors, NEW s \in BothServers, NEW from \in {"inside", "outside"},
         NEW route \in Methods \X {"/", "/stop", "/debug/pprof/heap"}, NEW header \in Headers,
         Knock(v, s, from, route, header)
  PROVE  AdminInv'
<1>1. /\ errand[v].at = "idle" /\ admin[s].state = "serving" /\ UNCHANGED <<adminEnv, mainAt, admin, profiler, waiting>>
      /\ from = "outside" => ~isLoopbackHost(admin[s].host)
      /\ errand' = [errand EXCEPT ![v] = [at |-> "arrived", server |-> s, from |-> from,
                                          route |-> route, header |-> Received(header)]]
  BY DEF Knock
<1>2. /\ DOMAIN errand' = Visitors /\ \A w \in Visitors : w # v => errand'[w] = errand[w]
      /\ errand'[v] = [at |-> "arrived", server |-> s, from |-> from, route |-> route, header |-> Received(header)]
  BY <1>1 DEF AdminInv
<1>3. errand'[v].at = "arrived" /\ errand'[v].server = s /\ errand'[v].from = from /\ errand'[v] \in Errands
  BY <1>2 DEF Errands
<1>4. ServerOK(s)
  BY DEF AdminInv
<1>5. ErrandOK(v)'
  BY <1>1, <1>3, <1>4 DEF ErrandOK, ServerOK
<1>6. StopOK'
  BY <1>1, <1>2, StopStays
<1> QED
  BY <1>1, <1>2, <1>5, <1>6, OneErrand

\* What an errand is about does not change.
LEMMA ErrandGoesOn ==
  ASSUME AdminInv, NEW v \in Visitors, errand[v].at # "idle",
         NEW at \in {"unauthorized", "handler", "not found", "ok"},
         errand' = [errand EXCEPT ![v] = [errand[v] EXCEPT !.at = at]]
  PROVE  /\ DOMAIN errand' = Visitors /\ \A w \in Visitors : w # v => errand'[w] = errand[w]
         /\ errand'[v].at = at /\ errand'[v].server = errand[v].server /\ errand'[v].from = errand[v].from
         /\ errand'[v].route = errand[v].route /\ errand'[v].header = errand[v].header
         /\ errand'[v] \in Errands
<1>1. errand[v] \in Errands /\ DOMAIN errand = Visitors
  BY DEF AdminInv, ErrandOK
<1>2. errand'[v] = [errand[v] EXCEPT !.at = at]
  BY <1>1
<1>3. DOMAIN errand' = Visitors /\ \A w \in Visitors : w # v => errand'[w] = errand[w]
  BY <1>1
<1>4. PICK e \in Errands : e = errand[v]
  BY <1>1
<1>5. [e EXCEPT !.at = at] \in Errands
  BY DEF Errands
<1>6. /\ [e EXCEPT !.at = at].at = at /\ [e EXCEPT !.at = at].server = e.server /\ [e EXCEPT !.at = at].from = e.from
      /\ [e EXCEPT !.at = at].route = e.route /\ [e EXCEPT !.at = at].header = e.header
  BY DEF Errands
<1> QED
  BY <1>2, <1>3, <1>4, <1>5, <1>6

\* The middleware lets an operator through and nobody else.
LEMMA TreatOK ==
  ASSUME AdminInv, NEW v \in Visitors, Treat(v)
  PROVE  AdminInv'
<1> DEFINE at == IF ~adminTokenMiddleware(v) THEN "unauthorized"
                 ELSE IF errand[v].route \in Routes(errand[v].server) THEN "handler" ELSE "not found"
<1>1. /\ errand[v].at = "arrived" /\ UNCHANGED <<adminEnv, mainAt, admin, profiler, waiting>>
      /\ errand' = [errand EXCEPT ![v] = [errand[v] EXCEPT !.at = at]]
  BY DEF Treat
<1>2. /\ at \in {"unauthorized", "handler", "not found"}
      /\ at = "handler" => adminTokenMiddleware(v) /\ errand[v].route \in Routes(errand[v].server)
  OBVIOUS
<1> PICK a : a = at
  OBVIOUS
<1> HIDE DEF at
<1>3. /\ DOMAIN errand' = Visitors /\ \A w \in Visitors : w # v => errand'[w] = errand[w]
      /\ errand'[v].at = a /\ errand'[v].server = errand[v].server /\ errand'[v].from = errand[v].from
      /\ errand'[v].route = errand[v].route /\ errand'[v].header = errand[v].header
      /\ errand'[v] \in Errands
  BY <1>1, <1>2, ErrandGoesOn
<1>4. ErrandOK(v) /\ errand[v].server \in BothServers /\ errand[v].from \in {"inside", "outside"}
  BY <1>1 DEF AdminInv, ErrandOK, Errands
<1>5. ServerOK(errand[v].server)
  BY <1>4 DEF AdminInv
<1>6. a = "handler" => Operator(v)
  BY <1>1, <1>2, <1>4, <1>5 DEF adminTokenMiddleware, Operator, ErrandOK, ServerOK, MayStart
<1>7. ErrandOK(v)'
  BY <1>1, <1>2, <1>3, <1>4, <1>6 DEF ErrandOK, Operator
<1>8. StopOK'
  BY <1>1, <1>3, StopStays
<1> QED
  BY <1>1, <1>3, <1>7, <1>8, OneErrand

\* A handler answers, and /stop is asked for by POST.
LEMMA HandleOK ==
  ASSUME AdminInv, NEW v \in Visitors, Handle(v)
  PROVE  AdminInv'
<1>1. /\ errand[v].at = "handler" /\ UNCHANGED <<adminEnv, mainAt, admin, profiler>>
      /\ errand' = [errand EXCEPT ![v] = [errand[v] EXCEPT !.at = "ok"]]
      /\ \/ waiting' = waiting
         \/ errand[v].server = "control" /\ errand[v].route[2] = "/stop"
  BY DEF Handle
<1>2. /\ DOMAIN errand' = Visitors /\ \A w \in Visitors : w # v => errand'[w] = errand[w]
      /\ errand'[v].at = "ok" /\ errand'[v].server = errand[v].server /\ errand'[v].from = errand[v].from
      /\ errand'[v].route = errand[v].route /\ errand'[v].header = errand[v].header
      /\ errand'[v] \in Errands
  BY <1>1, ErrandGoesOn
<1>3. ErrandOK(v)
  BY DEF AdminInv
<1>4. Operator(v)' /\ errand[v].route \in Routes(errand[v].server)
  BY <1>1, <1>2, <1>3 DEF ErrandOK, Operator
<1>5. ErrandOK(v)'
  BY <1>1, <1>2, <1>3, <1>4 DEF ErrandOK
<1>6. CASE waiting' = waiting
  <2>1. StopOK'
    BY <1>1, <1>2, <1>6, StopStays
  <2> QED
    BY <1>1, <1>2, <1>5, <2>1, OneErrand
<1>7. CASE errand[v].server = "control" /\ errand[v].route[2] = "/stop"
  <2>1. errand[v].route = <<"POST", "/stop">>
    BY <1>4, <1>7 DEF Routes, ControlRoutes
  <2>2. StopOK'
    BY <1>2, <1>4, <2>1 DEF StopOK
  <2> QED
    BY <1>1, <1>2, <1>5, <2>2, OneErrand
<1> QED
  BY <1>1, <1>6, <1>7

\* A server that is stopped is waited for.
LEMMA AdminStops ==
  ASSUME AdminInv, NEW s \in BothServers, NEW next, AdminStop(s, next), UNCHANGED profiler,
         mainAt' # mainAt => MainOK'
  PROVE  AdminInv'
<1>1. UNCHANGED <<adminEnv, admin, errand, waiting>>
  BY DEF AdminStop
<1>2. MainOK'
  BY <1>1 DEF AdminInv, MainOK
<1>3. \A x \in BothServers : ServerOK(x)'
  BY <1>1 DEF AdminInv, ServerOK
<1> QED
  BY <1>1, <1>2, <1>3, ErrandsRest DEF AdminInv

\* Everything the servers, their visitors and StartWithListenter do keeps it.
LEMMA AdminInvariant == AdminSpec => []AdminInv
<1>1. AdminInit => AdminInv
  <2> SUFFICES ASSUME AdminInit PROVE AdminInv
    OBVIOUS
  <2>1. /\ DOMAIN admin = BothServers
        /\ \A s \in BothServers : admin[s].state = "none" /\ DOMAIN admin[s] = {"state", "host", "token"}
    BY DEF AdminInit, BothServers, NotStarted
  <2>2. DOMAIN errand = Visitors /\ \A v \in Visitors : errand[v].at = "idle"
    BY DEF AdminInit, NoErrand
  <2>3. mainAt = "startPprof" /\ waiting = "none"
    BY DEF AdminInit
  <2> QED
    BY <2>1, <2>2, <2>3 DEF AdminInv, ServerOK, ErrandOK, StopOK, MainOK
<1>2. ASSUME AdminInv, [AdminNext]_adminVars PROVE AdminInv'
  <2>1. ASSUME UNCHANGED <<adminEnv, admin, errand>>, waiting' \in {waiting, "none", "signal"}, MainOK' PROVE AdminInv'
    BY <1>2, <2>1, ErrandsRest DEF AdminInv, ServerOK
  <2>2. CASE StartPProfServer \/ StartControlServer
    BY <1>2, <2>2, AdminStarts DEF StartPProfServer, StartControlServer, BothServers
  <2>3. CASE StartProfiler
    BY <2>1, <2>3 DEF StartProfiler, MainOK
  <2>4. ASSUME NEW s \in BothServers, AdminListens(s) \/ AdminCannotListen(s) \/ AdminDrains(s) \/ AdminEnds(s)
        PROVE  AdminInv'
    BY <1>2, <2>4, AdminGoesOn DEF AdminListens, AdminCannotListen, AdminDrains, AdminEnds
  <2>5. ASSUME NEW v \in Visitors, VisitNext(v) PROVE AdminInv'
    <3>1. CASE Treat(v) \/ Handle(v)
      BY <1>2, <3>1, TreatOK, HandleOK
    <3>2. ASSUME NEW s \in BothServers, NEW from \in {"inside", "outside"}, NEW header \in Headers,
                 NEW m \in Methods, NEW path \in {"/", "/stop", "/debug/pprof/heap"},
                 Knock(v, s, from, <<m, path>>, header)
          PROVE  AdminInv'
      <4>1. <<m, path>> \in Methods \X {"/", "/stop", "/debug/pprof/heap"}
        OBVIOUS
      <4> QED
        BY <1>2, <3>2, <4>1, KnockOK
    <3> QED
      BY <2>5, <3>1, <3>2 DEF VisitNext, BothServers
  <2>6. CASE LeaveRunning \/ OSSignal
    BY <1>2, <2>1, <2>6 DEF LeaveRunning, OSSignal, MainOK
  <2>7. CASE StopControlServer
    <3>1. mainAt' # mainAt => MainOK'
      BY <1>2, <2>7 DEF StopControlServer, AdminStop, MainOK
    <3> QED
      BY <1>2, <2>7, <3>1, AdminStops DEF StopControlServer, BothServers
  <2>8. CASE StopProfiler
    BY <1>2, <2>1, <2>8 DEF StopProfiler, AdminInv, MainOK
  <2>9. CASE StopPProfServer
    <3>1. mainAt' # mainAt => MainOK'
      BY <1>2, <2>9 DEF StopPProfServer, AdminStop, AdminInv, MainOK
    <3> QED
      BY <1>2, <2>9, <3>1, AdminStops DEF StopPProfServer, BothServers
  <2>10. CASE UNCHANGED adminVars
    BY <1>2, <2>1, <2>10 DEF adminVars, AdminInv, MainOK
  <2> QED
    BY <1>2, <2>2, <2>3, <2>4, <2>5, <2>6, <2>7, <2>8, <2>9, <2>10 DEF AdminNext, BothServers
<1> QED
  BY <1>1, <1>2, PTL DEF AdminSpec

\* In every environment, whoever comes, only operators are let in, only they
\* stop the process over the wire, and nothing is left running
\* (adminListenConfig, adminTokenMiddleware, Stop of both servers).
THEOREM AdminTheorem == AdminSpec => []AdminIsGuarded
<1>1. AdminInv => AdminIsGuarded
  BY DEF AdminInv, ErrandOK, StopOK, MainOK, AdminIsGuarded, BothServers
<1> QED
  BY <1>1, AdminInvariant, PTL

-----------------------------------------------------------------------------
(* The web server's handlers.  Whoever is routed is so by the routes that  *)
(* phase3 made of the handlers, in a scope whose accessor points to it.    *)

VisitOK(r) ==
    /\ visit[r].at # "idle" => echoServer # "none"
    /\ visit[r].at \in {"routing", "handled", "answered"} => accessor[r] = r
    /\ visit[r].at \in {"handled", "answered"} =>
         visit[r].saw = r /\ visit[r].by = HandlerFor(visit[r].path, visit[r].verb)

EchoInv ==
    /\ handlers \in HandlerLists
    /\ DOMAIN visit = Requests /\ DOMAIN accessor = Requests
    /\ run \in {"new", "configured", "built"} => echoServer = "none"
    /\ run = "routed" \/ echoServer # "none" => routes = RegisterHandlers
    /\ \A r \in Requests : VisitOK(r)

Overridden(k) == \E j \in DOMAIN handlers : j > k /\ SamePath(handlers[j].path, handlers[k].path)

\* What RegisterHandlers registers.
LEMMA Registered ==
  ASSUME NEW p, NEW v
  PROVE  [path |-> p, verb |-> v] \in RegisterHandlers <=>
           \E k \in DOMAIN handlers : ~Overridden(k) /\ handlers[k].path = p /\ v \in handlers[k].verbs
<1> DEFINE kept == {k \in DOMAIN handlers : ~Overridden(k)}
           Of(k) == {[path |-> handlers[k].path, verb |-> x] : x \in handlers[k].verbs}
<1>1. RegisterHandlers = UNION {Of(k) : k \in kept}
  BY DEF RegisterHandlers, Overridden
<1>2. ASSUME NEW q, NEW x, [path |-> p, verb |-> v] = [path |-> q, verb |-> x]
      PROVE  p = q /\ v = x
  <2>1. [path |-> p, verb |-> v].path = q /\ [path |-> p, verb |-> v].verb = x
    BY <1>2
  <2> QED
    BY <2>1
<1>3. ASSUME NEW k PROVE [path |-> p, verb |-> v] \in Of(k) <=> handlers[k].path = p /\ v \in handlers[k].verbs
  BY <1>2
<1>4. [path |-> p, verb |-> v] \in RegisterHandlers <=> \E k \in kept : [path |-> p, verb |-> v] \in Of(k)
  BY <1>1
<1> HIDE DEF Of
<1> QED
  BY <1>3, <1>4

\* Of the handlers for a path in any spelling the last one, w, is routed to, and
\* only by its own spelling and verbs.
LEMMA LastIsRegistered ==
  ASSUME handlers \in HandlerLists, NEW p, NEW v,
         NEW w \in DOMAIN handlers, ToLower(handlers[w].path) = ToLower(p),
         \A j \in DOMAIN handlers : ToLower(handlers[j].path) = ToLower(p) => j <= w
  PROVE  [path |-> p, verb |-> v] \in RegisterHandlers <=> handlers[w].path = p /\ v \in handlers[w].verbs
<1>0. DOMAIN handlers \subseteq Int
  BY EchoAssumption
<1>1. [path |-> p, verb |-> v] \in RegisterHandlers <=>
        \E k \in DOMAIN handlers : ~Overridden(k) /\ handlers[k].path = p /\ v \in handlers[k].verbs
  BY Registered
<1>2. ~Overridden(w)
  BY <1>0 DEF Overridden, SamePath
<1>3. ASSUME NEW k \in DOMAIN handlers, ~Overridden(k), handlers[k].path = p PROVE k = w
  <2>1. k <= w
    BY <1>3
  <2>2. ~ (w > k)
    BY <1>3 DEF Overridden, SamePath
  <2> QED
    BY <1>0, <2>1, <2>2
<1> QED
  BY <1>1, <1>2, <1>3

\* So the container finds the handler that was meant.
LEMMA RoutedIsMeant ==
  ASSUME handlers \in HandlerLists, routes = RegisterHandlers, NEW p, NEW v
  PROVE  LET rivals == {i \in DOMAIN handlers : ToLower(handlers[i].path) = ToLower(p)}
             winner == CHOOSE i \in rivals : \A j \in rivals : j <= i
             meant == rivals # {} /\ handlers[winner].path = p /\ v \in handlers[winner].verbs
         IN  HandlerFor(p, v) = IF meant THEN handlers[winner].id ELSE Nobody
<1> DEFINE rivals == {i \in DOMAIN handlers : ToLower(handlers[i].path) = ToLower(p)}
           winner == CHOOSE i \in rivals : \A j \in rivals : j <= i
           here == {i \in DOMAIN handlers : handlers[i].path = p}
<1>0. Len(handlers) \in Nat /\ DOMAIN handlers = 1 .. Len(handlers)
  BY EchoAssumption
<1>1. CASE rivals = {}
  <2>1. [path |-> p, verb |-> v] \notin routes
    BY <1>1, Registered
  <2> QED
    BY <1>1, <2>1 DEF HandlerFor
<1>2. CASE rivals # {}
  <2>1. PICK w \in rivals : \A j \in rivals : j <= w
    BY <1>0, <1>2, GreatestExists
  <2>2. winner = w
    <3>1. rivals \in SUBSET Int
      BY <1>0
    <3> HIDE DEF rivals
    <3> QED
      BY <2>1, <3>1, GreatestIs
  <2>3. [path |-> p, verb |-> v] \in routes <=> handlers[w].path = p /\ v \in handlers[w].verbs
    BY <2>1, LastIsRegistered
  <2>4. CASE handlers[w].path = p /\ v \in handlers[w].verbs
    <3>1. here \in SUBSET Int /\ w \in here /\ \A j \in here : j <= w
      BY <1>0, <2>1, <2>4
    <3>2. (CHOOSE i \in here : \A j \in here : j <= i) = w
      <4> HIDE DEF here
      <4> QED
        BY <3>1, GreatestIs
    <3>3. HandlerFor(p, v) = handlers[w].id
      BY <2>3, <2>4, <3>2 DEF HandlerFor, GetByLookupKey
    <3> QED
      BY <1>2, <2>2, <2>4, <3>3
  <2>5. CASE ~(handlers[w].path = p /\ v \in handlers[w].verbs)
    <3>1. HandlerFor(p, v) = Nobody
      BY <2>3, <2>5 DEF HandlerFor
    <3> QED
      BY <2>2, <2>5, <3>1
  <2> QED
    BY <2>4, <2>5
<1> QED
  BY <1>1, <1>2

\* A step that leaves routes, handlers and requests alone.
LEMMA RequestsRest ==
  ASSUME EchoInv, UNCHANGED <<handlers, routes, visit, accessor>>,
         echoServer # "none" => echoServer' # "none",
         run' \in {"new", "configured", "built"} => echoServer' = "none",
         run' = "routed" \/ echoServer' # "none" => run = "routed" \/ echoServer # "none"
  PROVE  EchoInv'
BY DEF EchoInv, VisitOK, HandlerFor, GetByLookupKey, RegisterHandlers

\* A request goes on beside the others.
LEMMA RequestGoesOn ==
  ASSUME EchoInv, NEW r \in Requests, UNCHANGED <<run, handlers, routes, echoServer>>,
         DOMAIN visit' = Requests, DOMAIN accessor' = Requests,
         \A q \in Requests : q # r => visit'[q] = visit[q] /\ accessor'[q] = accessor[q],
         VisitOK(r)'
  PROVE  EchoInv'
<1>1. \A q \in Requests : q # r => VisitOK(q)'
  <2> SUFFICES ASSUME NEW q \in Requests, q # r PROVE VisitOK(q)'
    OBVIOUS
  <2>1. VisitOK(q)
    BY DEF EchoInv
  <2>2. HandlerFor(visit[q].path, visit[q].verb)' = HandlerFor(visit[q].path, visit[q].verb)
    <3>1. GetByLookupKey(visit[q].path)' = GetByLookupKey(visit[q].path)
      <4>1. visit'[q] = visit[q] /\ handlers' = handlers
        OBVIOUS
      <4> QED
        BY <4>1, Zenon DEF GetByLookupKey
    <3> QED
      BY <3>1 DEF HandlerFor
  <2> QED
    BY <2>1, <2>2 DEF VisitOK
<1>2. RegisterHandlers' = RegisterHandlers
  BY DEF RegisterHandlers
<1> QED
  BY <1>1, <1>2 DEF EchoInv

\* What a request has when it has gone on.
LEMMA GoesOnFields ==
  ASSUME EchoInv, NEW r \in Requests, NEW at, NEW by, NEW saw, GoesOn(r, at, by, saw)
  PROVE  /\ DOMAIN visit' = Requests /\ \A q \in Requests : q # r => visit'[q] = visit[q]
         /\ visit'[r].at = at /\ visit'[r].path = visit[r].path /\ visit'[r].verb = visit[r].verb
         /\ visit'[r].by = by /\ visit'[r].saw = saw
BY DEF EchoInv, GoesOn, Visit

\* Phases, stops and requests keep it, in whichever order they come.
LEMMA EchoInvariant == EchoSpec => []EchoInv
<1>1. EchoInit => EchoInv
  BY DEF EchoInit, EchoInv, VisitOK, NotAsked, Visit
<1>2. ASSUME EchoInv, [EchoNext]_echoVars PROVE EchoInv'
  <2>1. CASE phase1 \/ phase2
    BY <1>2, <2>1, RequestsRest DEF phase1, phase2, Phase, EchoInv
  <2>2. CASE phase3
    <3>1. /\ run = "built" /\ run' \in {"routed", "failed"} /\ echoServer = "none"
          /\ UNCHANGED <<handlers, echoServer, visit, accessor>>
          /\ run' = "routed" => routes' = RegisterHandlers
      BY <1>2, <2>2 DEF phase3, Phase, EchoInv
    <3>2. RegisterHandlers' = RegisterHandlers
      BY <3>1 DEF RegisterHandlers
    <3>3. \A r \in Requests : visit'[r].at = "idle"
      BY <1>2, <3>1 DEF EchoInv, VisitOK
    <3> QED
      BY <1>2, <3>1, <3>2, <3>3 DEF EchoInv, VisitOK
  <2>3. CASE Launch
    BY <1>2, <2>3, RequestsRest DEF Launch
  <2>4. CASE ServeGoroutine \/ Start \/ ShutDown \/ Wait \/ Cancel \/ Join
    BY <1>2, <2>4, RequestsRest DEF ServeGoroutine, Start, ShutDown, Wait, Cancel, Join, EchoInv
  <2>5. ASSUME NEW s \in Stoppers, StopRuntime(s) PROVE EchoInv'
    BY <1>2, <2>5, RequestsRest DEF StopRuntime, EchoInv
  <2>6. ASSUME NEW r \in Requests, NEW p, NEW v, Arrive(r, p, v) PROVE EchoInv'
    <3>1. /\ DOMAIN visit' = Requests /\ \A q \in Requests : q # r => visit'[q] = visit[q]
          /\ visit'[r].at = "scoping" /\ echoServer' = "serving"
          /\ UNCHANGED <<run, handlers, routes, echoServer, accessor>>
      BY <1>2, <2>6 DEF Arrive, Visit, EchoInv
    <3>2. VisitOK(r)'
      BY <3>1 DEF VisitOK
    <3> QED
      BY <1>2, <3>1, <3>2, RequestGoesOn DEF EchoInv
  <2>7. ASSUME NEW r \in Requests, EnsureScopedContainer(r) PROVE EchoInv'
    <3>1. /\ DOMAIN visit' = Requests /\ \A q \in Requests : q # r => visit'[q] = visit[q]
          /\ visit'[r].at = "routing"
      BY <1>2, <2>7, GoesOnFields DEF EnsureScopedContainer
    <3>2. /\ DOMAIN accessor' = Requests /\ accessor'[r] = r /\ \A q \in Requests : q # r => accessor'[q] = accessor[q]
          /\ UNCHANGED <<run, handlers, routes, echoServer>> /\ visit[r].at = "scoping"
      BY <1>2, <2>7 DEF EnsureScopedContainer, AccessorOfScope, EchoInv
    <3>3. VisitOK(r)'
      BY <1>2, <3>1, <3>2 DEF EchoInv, VisitOK
    <3> QED
      BY <1>2, <3>1, <3>2, <3>3, RequestGoesOn
  <2>8. ASSUME NEW r \in Requests, Do(r) \/ Dispose(r) PROVE EchoInv'
    <3>1. UNCHANGED <<run, handlers, routes, echoServer, accessor>> /\ visit[r].at \in {"routing", "handled"}
      BY <2>8 DEF Do, Dispose
    <3>2. /\ DOMAIN visit' = Requests /\ \A q \in Requests : q # r => visit'[q] = visit[q]
          /\ visit'[r].at \in {"handled", "answered"}
          /\ visit'[r].path = visit[r].path /\ visit'[r].verb = visit[r].verb
          /\ visit'[r].saw = r /\ visit'[r].by = HandlerFor(visit[r].path, visit[r].verb)
      <4>1. CASE Do(r)
        BY <1>2, <4>1, GoesOnFields DEF Do, EchoInv, VisitOK
      <4>2. CASE Dispose(r)
        BY <1>2, <4>2, GoesOnFields DEF Dispose, EchoInv, VisitOK
      <4> QED
        BY <2>8, <4>1, <4>2
    <3>3. VisitOK(r)'
      BY <1>2, <3>1, <3>2 DEF EchoInv, VisitOK, HandlerFor, GetByLookupKey
    <3> QED
      BY <1>2, <3>1, <3>2, <3>3, RequestGoesOn DEF EchoInv
  <2>9. CASE UNCHANGED echoVars
    BY <1>2, <2>9, RequestsRest DEF echoVars, EchoInv
  <2> QED
    BY <1>2, <2>1, <2>2, <2>3, <2>4, <2>5, <2>6, <2>7, <2>8, <2>9 DEF EchoNext
<1> QED
  BY <1>1, <1>2, PTL DEF EchoSpec

\* For any list of handlers, in any spelling, and any number of requests beside
\* it, a request comes to the handler that was meant, in its own scope
\* (RegisterHandlers, EnsureScopedContainer).
THEOREM HandledTheorem == EchoSpec => []HandledByTheLast
<1>1. EchoInv => HandledByTheLast
  <2> SUFFICES ASSUME EchoInv, NEW r \in Requests, visit[r].at \in {"handled", "answered"}
               PROVE  LET rivals == {i \in DOMAIN handlers : ToLower(handlers[i].path) = ToLower(visit[r].path)}
                          winner == CHOOSE i \in rivals : \A j \in rivals : j <= i
                          meant == rivals # {} /\ handlers[winner].path = visit[r].path
                                     /\ visit[r].verb \in handlers[winner].verbs
                      IN  /\ visit[r].by = IF meant THEN handlers[winner].id ELSE Nobody
                          /\ visit[r].saw = r
    BY DEF HandledByTheLast
  <2>1. VisitOK(r) /\ handlers \in HandlerLists /\ routes = RegisterHandlers
    BY DEF EchoInv, VisitOK
  <2>2. visit[r].saw = r /\ visit[r].by = HandlerFor(visit[r].path, visit[r].verb)
    BY <2>1 DEF VisitOK
  <2> QED
    BY <2>1, <2>2, RoutedIsMeant
<1> QED
  BY <1>1, EchoInvariant, PTL

-----------------------------------------------------------------------------
(* Sessions.  A request that came with a stale cookie keeps a cookie that  *)
(* is stale, so reading it again gives nothing either; and a request of    *)
(* the Mongo store only ever works under an id it has earned.              *)

CookieOK(c) == c = NoSession \/ (DOMAIN c = {"id", "values", "epoch", "age"} /\ c.age \in Int)

TabOK(t) ==
    /\ CookieOK(req[t].cookie) /\ CookieOK(req[t].set)
    /\ req[t].stale => Stale(req[t].cookie)
    /\ req[t].at # "handling" => req[t].session = NoSession
    /\ req[t].at = "handling" =>
         /\ req[t].stale => req[t].session.isNew
         /\ store.kind = "mongo" => req[t].session.id \in earned[t] \union {NoID}

SessionInv ==
    /\ store \in Stores /\ CookieOK(jar)
    /\ DOMAIN req = Tabs /\ DOMAIN earned = Tabs
    /\ \A t \in Tabs : TabOK(t)

\* What the records hold.
LEMMA SessionFields ==
  ASSUME NEW id, NEW isNew, NEW values
  PROVE  /\ Session(id, isNew, values).id = id /\ Session(id, isNew, values).isNew = isNew
         /\ Session(id, isNew, values).values = values
BY Zenon DEF Session

LEMMA RequestFields ==
  ASSUME NEW at, NEW cookie, NEW session, NEW set, NEW stale
  PROVE  /\ Request(at, cookie, session, set, stale).at = at
         /\ Request(at, cookie, session, set, stale).cookie = cookie
         /\ Request(at, cookie, session, set, stale).session = session
         /\ Request(at, cookie, session, set, stale).set = set
         /\ Request(at, cookie, session, set, stale).stale = stale
BY Zenon DEF Request

LEMMA OutcomeFields ==
  ASSUME NEW session, NEW err
  PROVE  Outcome(session, err).session = session /\ Outcome(session, err).err = err
BY DEF Outcome

\* What is sealed, or to be forgotten, is a cookie.
LEMMA SealedIsCookie ==
  ASSUME NEW id, NEW values
  PROVE  CookieOK(Sealed(id, values)) /\ CookieOK(Deleted) /\ CookieOK(NoSession)
BY DEF CookieOK, Sealed, Deleted

\* A cookie ages and stays one.
LEMMA OlderIsCookie ==
  ASSUME SessionInv, NEW c, CookieOK(c) PROVE CookieOK(Older(c))
BY SessionAssumption DEF SessionInv, CookieOK, Older

\* The stores let in no stale cookie: the validity that is set for the keys is
\* never "no limit" (SetMaxAge).
LEMMA StaleIsRefused ==
  ASSUME store \in Stores, NEW c, CookieOK(c), c # NoSession
  PROVE  DecodeMulti(c) <=> ~Stale(c)
BY SessionAssumption DEF CookieOK, DecodeMulti, Stale, SetMaxAge

\* What a store makes of a cookie: a new session from a stale one, and from
\* the Mongo store a session that was there to be read, or one without id.
LEMMA StoreGives ==
  ASSUME store \in Stores, NEW c, CookieOK(c)
  PROVE  /\ Stale(c) => StoreNew(c) = Outcome(Fresh, "decode")
         /\ store.kind = "mongo" => StoreNew(c).session.id \in Readable(c) \union {NoID}
         /\ Fresh.isNew /\ Fresh.id = NoID
<1>1. Fresh.isNew = TRUE /\ Fresh.id = NoID
  BY Zenon DEF Fresh, Session
<1>2. Stale(c) => StoreNew(c) = Outcome(Fresh, "decode")
  BY StaleIsRefused DEF StoreNew, Stale
<1>3. ASSUME store.kind = "mongo" PROVE StoreNew(c).session.id \in Readable(c) \union {NoID}
  <2>1. CASE c = NoSession \/ ~DecodeMulti(c)
    <3>1. StoreNew(c).session = Fresh
      BY <2>1, OutcomeFields DEF StoreNew
    <3> QED
      BY <1>1, <3>1
  <2>2. CASE c # NoSession /\ DecodeMulti(c)
    <3>1. StoreNew(c) = loadExisting(c.id)
      BY <1>3, <2>2 DEF StoreNew, MongoStoreNew
    <3>2. CASE load(c.id) = "none"
      <4>1. up /\ c.id \in DOMAIN docs
        BY <3>2 DEF load
      <4>2. Readable(c) = {c.id}
        BY <2>2, <4>1, StaleIsRefused DEF Readable
      <4>3. StoreNew(c).session.id = c.id
        <5>1. StoreNew(c) = Outcome(Session(c.id, FALSE, docs[c.id].values), "none")
          BY <3>1, <3>2 DEF loadExisting
        <5>2. StoreNew(c).session = Session(c.id, FALSE, docs[c.id].values)
          BY <5>1, OutcomeFields, Zenon
        <5>3. Session(c.id, FALSE, docs[c.id].values).id = c.id
          BY Zenon DEF Session
        <5> QED
          BY <5>2, <5>3, Zenon
      <4> QED
        BY <4>2, <4>3
    <3>3. CASE load(c.id) # "none"
      <4>1. StoreNew(c).session = Fresh
        BY <3>1, <3>3, OutcomeFields DEF loadExisting
      <4> QED
        BY <1>1, <4>1
    <3> QED
      BY <3>2, <3>3
  <2> QED
    BY <2>1, <2>2
<1> QED
  BY <1>1, <1>2, <1>3

\* A request that nothing happened to.
LEMMA TabRests ==
  ASSUME NEW t, TabOK(t), req'[t] = req[t], earned'[t] = earned[t], epoch' = epoch, store' = store
  PROVE  TabOK(t)'
BY DEF TabOK, CookieOK, Stale, NoID

\* A request that is over.
LEMMA TabIsIdle ==
  ASSUME NEW t, req'[t] = Idle PROVE TabOK(t)'
<1>1. /\ Idle.at = "idle" /\ Idle.cookie = NoSession /\ Idle.session = NoSession
      /\ Idle.set = NoSession /\ Idle.stale = FALSE
  BY Zenon DEF Idle, Request
<1> QED
  BY <1>1 DEF TabOK, CookieOK

\* A handler that works on with a session it may have keeps the invariant.
LEMMA HandlerWorks ==
  ASSUME SessionInv, NEW t \in Tabs, req[t].at = "handling", NEW session, NEW set,
         Works(t, session, set), CookieOK(set), UNCHANGED <<store, epoch, jar>>,
         DOMAIN earned' = Tabs, \A u \in Tabs : u # t => earned'[u] = earned[u],
         req[t].stale => session.isNew,
         store.kind = "mongo" => session.id \in earned'[t] \union {NoID}
  PROVE  SessionInv'
<1>1. /\ DOMAIN req' = Tabs /\ req'[t] = Request("handling", req[t].cookie, session, set, req[t].stale)
      /\ \A u \in Tabs : u # t => req'[u] = req[u]
  BY DEF Works, SessionInv
<1>2. /\ req'[t].at = "handling" /\ req'[t].cookie = req[t].cookie /\ req'[t].session = session
      /\ req'[t].set = set /\ req'[t].stale = req[t].stale
  BY <1>1, RequestFields
<1>3. TabOK(t)'
  <2>1. TabOK(t) /\ Stale(req[t].cookie)' = Stale(req'[t].cookie)
    BY <1>2 DEF SessionInv, Stale
  <2>2. CookieOK(req'[t].cookie) /\ CookieOK(req'[t].set)
    BY <1>2, <2>1 DEF TabOK
  <2>3. req'[t].stale => Stale(req[t].cookie)'
    BY <1>2, <2>1 DEF TabOK, Stale
  <2> QED
    BY <1>2, <2>1, <2>2, <2>3 DEF TabOK, CookieOK, NoID, Stale
<1>4. \A u \in Tabs : TabOK(u)'
  BY <1>1, <1>3, TabRests DEF SessionInv
<1> QED
  BY <1>1, <1>4 DEF SessionInv, CookieOK

\* Everything requests, the process and the world do keeps the invariant.
LEMMA SessionInvariant == SessionSpec => []SessionInv
<1>1. SessionInit => SessionInv
  <2> SUFFICES ASSUME SessionInit PROVE SessionInv
    OBVIOUS
  <2>1. /\ Idle.at = "idle" /\ Idle.cookie = NoSession /\ Idle.session = NoSession
        /\ Idle.set = NoSession /\ Idle.stale = FALSE
    BY Zenon DEF Idle, Request
  <2>2. \A t \in Tabs : TabOK(t)
    BY <2>1 DEF SessionInit, TabOK, CookieOK
  <2> QED
    BY <2>2 DEF SessionInit, SessionInv, CookieOK
<1>2. ASSUME SessionInv, [SessionNext]_sessionVars PROVE SessionInv'
  <2>1. ASSUME NEW t \in Tabs, GetSession(t) PROVE SessionInv'
    <3>1. PICK c, session, stale :
            /\ c = jar /\ session = Initialize(Get(jar)) /\ stale = Stale(jar)
      OBVIOUS
    <3>2. /\ DOMAIN req' = Tabs /\ \A u \in Tabs : u # t => req'[u] = req[u]
          /\ req'[t] = Request(IF session = NoSession THEN "failed" ELSE "handling",
                               c, session, NoSession, stale)
      BY <1>2, <2>1, <3>1 DEF GetSession, SessionInv
    <3>3. /\ DOMAIN earned' = Tabs /\ \A u \in Tabs : u # t => earned'[u] = earned[u]
          /\ earned'[t] = Readable(c) /\ UNCHANGED <<store, epoch, jar>>
      BY <1>2, <2>1, <3>1 DEF GetSession, SessionInv
    <3>4. /\ req'[t].at = (IF session = NoSession THEN "failed" ELSE "handling") /\ req'[t].cookie = c
          /\ req'[t].session = session /\ req'[t].set = NoSession /\ req'[t].stale = stale
      BY <3>2, RequestFields
    <3>5. /\ store \in Stores /\ CookieOK(c)
      BY <1>2, <3>1 DEF SessionInv
    <3>6. session = NoSession \/ session = StoreNew(c).session
      BY <3>1, OutcomeFields DEF Initialize, Get
    <3>7. session # NoSession /\ stale => session.isNew
      <4> SUFFICES ASSUME session # NoSession, stale PROVE session.isNew
        OBVIOUS
      <4>1. StoreNew(c).session = Fresh
        BY <3>1, <3>5, StoreGives, OutcomeFields
      <4> QED
        BY <3>5, <3>6, <4>1, StoreGives
    <3>8. session # NoSession /\ store.kind = "mongo" => session.id \in Readable(c) \union {NoID}
      BY <3>5, <3>6, StoreGives
    <3>9. stale => Stale(req[t].cookie)'
      BY <3>1, <3>3, <3>4 DEF Stale
    <3>10. TabOK(t)'
      BY <3>3, <3>4, <3>5, <3>7, <3>8, <3>9 DEF TabOK, CookieOK, NoID
    <3>11. \A u \in Tabs : TabOK(u)'
      BY <1>2, <3>2, <3>3, <3>10, TabRests DEF SessionInv
    <3> QED
      BY <1>2, <3>2, <3>3, <3>11 DEF SessionInv, CookieOK
  <2>2. ASSUME NEW t \in Tabs, Set(t) PROVE SessionInv'
    <3>1. PICK s : s = Session(req[t].session.id, req[t].session.isNew, {"key"})
      OBVIOUS
    <3>2. s.id = req[t].session.id /\ s.isNew = req[t].session.isNew
      BY <3>1, SessionFields
    <3>3. TabOK(t) /\ req[t].at = "handling" /\ Works(t, s, req[t].set)
          /\ UNCHANGED <<store, epoch, jar, earned>>
      BY <1>2, <2>2, <3>1 DEF Set, SessionInv
    <3> QED
      BY <1>2, <3>2, <3>3, HandlerWorks DEF TabOK, SessionInv
  <2>3. ASSUME NEW t \in Tabs, NewSession(t) PROVE SessionInv'
    <3>1. PICK c, got : c = req[t].cookie /\ got = New(c)
      OBVIOUS
    <3>2. PICK s : s = IF got.err = "none" THEN got.session ELSE req[t].session
      OBVIOUS
    <3>3. TabOK(t) /\ req[t].at = "handling" /\ Works(t, s, req[t].set)
          /\ UNCHANGED <<store, epoch, jar>>
      BY <1>2, <2>3, <3>1, <3>2 DEF NewSession, SessionInv
    <3>4. /\ DOMAIN earned' = Tabs /\ \A u \in Tabs : u # t => earned'[u] = earned[u]
          /\ earned'[t] = earned[t] \union Readable(c)
      BY <1>2, <2>3, <3>1 DEF NewSession, SessionInv
    <3>5. store \in Stores /\ CookieOK(c)
      BY <1>2, <3>1, <3>3 DEF SessionInv, TabOK
    <3>6. req[t].stale => s.isNew
      <4>1. ASSUME req[t].stale, got.err = "none" PROVE got.session.isNew
        <5>1. StoreNew(c) = Outcome(Fresh, "decode")
          BY <3>1, <3>3, <3>5, <4>1, StoreGives DEF TabOK
        <5>2. got.session = Fresh
          BY <3>1, <5>1, OutcomeFields DEF New
        <5> QED
          BY <3>5, <5>2, StoreGives
      <4> QED
        BY <3>2, <3>3, <4>1 DEF TabOK
    <3>7. store.kind = "mongo" => s.id \in earned'[t] \union {NoID}
      <4> SUFFICES ASSUME store.kind = "mongo" PROVE s.id \in earned'[t] \union {NoID}
        OBVIOUS
      <4>1. got = StoreNew(c)
        BY <3>1 DEF New
      <4> QED
        BY <3>2, <3>3, <3>4, <3>5, <4>1, StoreGives DEF TabOK
    <3> QED
      BY <1>2, <3>3, <3>4, <3>6, <3>7, HandlerWorks DEF TabOK
  <2>4. ASSUME NEW t \in Tabs, Save(t) PROVE SessionInv'
    <3>1. TabOK(t) /\ req[t].at = "handling" /\ UNCHANGED <<store, epoch, jar>>
      BY <1>2, <2>4 DEF Save, CookieStoreSave, KeyedSave, SessionInv
    <3>2. CASE CookieStoreSave(t)
      <4>1. PICK s, w : s = req[t].session /\ w = Sealed(NoID, req[t].session.values)
        OBVIOUS
      <4>2. Works(t, s, w) /\ CookieOK(w) /\ UNCHANGED earned
        BY <3>2, <4>1, SealedIsCookie DEF CookieStoreSave
      <4> QED
        BY <1>2, <3>1, <4>1, <4>2, HandlerWorks DEF TabOK, SessionInv
    <3>3. CASE KeyedSave(t)
      <4>1. PICK id, s, w :
              /\ id = IF req[t].session.id = NoID THEN drawn + 1 ELSE req[t].session.id
              /\ s = Session(id, req[t].session.isNew, req[t].session.values)
              /\ w = IF store.kind = "memory" \/ up THEN Sealed(id, {}) ELSE req[t].set
        OBVIOUS
      <4>2. Works(t, s, w)
        BY <3>3, <4>1 DEF KeyedSave
      <4>3. CookieOK(w)
        BY <3>1, <4>1, SealedIsCookie DEF TabOK
      <4>4. s.id = id /\ s.isNew = req[t].session.isNew
        BY <4>1, SessionFields
      <4>5. /\ DOMAIN earned' = Tabs /\ \A u \in Tabs : u # t => earned'[u] = earned[u]
            /\ earned'[t] = IF req[t].session.id = NoID THEN earned[t] \union {id} ELSE earned[t]
        BY <1>2, <3>3, <4>1 DEF KeyedSave, SessionInv
      <4> QED
        BY <1>2, <3>1, <4>1, <4>2, <4>3, <4>4, <4>5, HandlerWorks DEF TabOK
    <3> QED
      BY <2>4, <3>2, <3>3 DEF Save
  <2>5. ASSUME NEW t \in Tabs, End(t) PROVE SessionInv'
    <3>1. TabOK(t) /\ req[t].at = "handling" /\ UNCHANGED <<store, epoch, jar, earned>>
      BY <1>2, <2>5 DEF End, SessionInv
    <3>2. CASE UNCHANGED req
      BY <1>2, <3>1, <3>2, TabRests DEF SessionInv, CookieOK
    <3>3. CASE ~ UNCHANGED req
      <4>1. PICK v, s : /\ v = IF store.kind = "memory" THEN {} ELSE req[t].session.values
                        /\ s = Session(req[t].session.id, req[t].session.isNew, v)
        OBVIOUS
      <4>2. Works(t, s, Deleted) /\ CookieOK(Deleted)
        BY <2>5, <3>3, <4>1, SealedIsCookie DEF End
      <4>3. s.id = req[t].session.id /\ s.isNew = req[t].session.isNew
        BY <4>1, SessionFields
      <4> QED
        BY <1>2, <3>1, <4>2, <4>3, HandlerWorks DEF TabOK, SessionInv
    <3> QED
      BY <3>2, <3>3
  <2>6. ASSUME NEW t \in Tabs, NEW arrives \in BOOLEAN, Respond(t, arrives) PROVE SessionInv'
    <3>1. /\ DOMAIN req' = Tabs /\ req'[t] = Idle /\ \A u \in Tabs : u # t => req'[u] = req[u]
          /\ DOMAIN earned' = Tabs /\ \A u \in Tabs : u # t => earned'[u] = earned[u]
          /\ UNCHANGED <<store, epoch>>
      BY <1>2, <2>6 DEF Respond, SessionInv
    <3>2. CookieOK(jar')
      BY <1>2, <2>6 DEF Respond, SessionInv, TabOK, CookieOK
    <3>3. \A u \in Tabs : TabOK(u)'
      BY <1>2, <3>1, TabRests, TabIsIdle DEF SessionInv
    <3> QED
      BY <1>2, <3>1, <3>2, <3>3 DEF SessionInv, CookieOK
  <2>7. CASE SessionTick
    <3>1. CookieOK(Older(jar))
      BY <1>2, OlderIsCookie DEF SessionInv
    <3>2. jar' = Older(jar) /\ UNCHANGED <<store, epoch, req, earned>>
      BY <2>7 DEF SessionTick
    <3>3. \A u \in Tabs : TabOK(u)'
      BY <1>2, <3>2, TabRests DEF SessionInv
    <3> QED
      BY <1>2, <3>1, <3>2, <3>3 DEF SessionInv, CookieOK
  <2>8. ASSUME NEW e, RestartSessions(e) PROVE SessionInv'
    <3>1. \A u \in Tabs : TabOK(u)'
      BY <2>8, TabIsIdle DEF RestartSessions
    <3> QED
      BY <1>2, <2>8, <3>1 DEF RestartSessions, SessionInv, CookieOK
  <2>9. CASE UNCHANGED <<store, epoch, jar, req, earned>>
    <3>1. \A u \in Tabs : TabOK(u)'
      BY <1>2, <2>9, TabRests DEF SessionInv
    <3> QED
      BY <1>2, <2>9, <3>1 DEF SessionInv, CookieOK
  <2> QED
    BY <1>2, <2>1, <2>2, <2>3, <2>4, <2>5, <2>6, <2>7, <2>8, <2>9
    DEF SessionNext, Vanish, Outage, sessionVars
<1> QED
  BY <1>1, <1>2, PTL DEF SessionSpec

\* For any number of requests, any store and any rotation of the keys, a
\* session is one the request earned, and a stale cookie opens none
\* (loadExisting, SetMaxAge).
THEOREM SessionTheorem == SessionSpec => []SessionIsEarned
<1>1. SessionInv => SessionIsEarned
  BY DEF SessionInv, TabOK, SessionIsEarned
<1> QED
  BY <1>1, SessionInvariant, PTL

-----------------------------------------------------------------------------
(* Cookies.  Every cookie in the jar is one the services made: it carries  *)
(* what was asked for it, a browser accepted it from the request it came   *)
(* with, and its value was written under its name.                         *)

CookieFields == {"name", "value", "old", "sealed", "secure", "asked", "hop"}

Made(c) ==
    /\ DOMAIN c = CookieFields /\ c.hop \in Hops
    /\ c.secure <=> secureDefault(c.hop, c.asked.Secure)
    /\ c.asked.SameSite = "None" => c.secure
    /\ c.secure => BrowserScheme(c.hop) = "https"
    /\ <<c.name, c.value>> \in written

CookieInv ==
    /\ DOMAIN cookieJar = CookieNames
    /\ \A k \in CookieNames : cookieJar[k] = NoCookie \/ Made(cookieJar[k])
    /\ CookiesKeepTheirWord

\* What an encoded cookie holds.
LEMMA EncodedFields ==
  ASSUME NEW name, NEW value, NEW want, NEW hop
  PROVE  LET c == Encoded(name, value, want, hop)
         IN  /\ DOMAIN c = CookieFields /\ c.name = name /\ c.value = value
             /\ c.asked = want /\ c.hop = hop
             /\ c.secure = secureDefault(hop, want.Secure)
<1>1. DOMAIN Encoded(name, value, want, hop) = CookieFields
  BY DEF Encoded, CookieFields
<1>2. LET c == Encoded(name, value, want, hop)
      IN  /\ c.name = name /\ c.value = value /\ c.asked = want /\ c.hop = hop
          /\ c.secure = secureDefault(hop, want.Secure)
  BY Zenon DEF Encoded
<1> QED
  BY <1>1, <1>2

\* A cookie grows old and stays what it was.
LEMMA OldIsMade ==
  ASSUME NEW c, DOMAIN c = CookieFields
  PROVE  LET d == [c EXCEPT !.old = TRUE]
         IN  /\ DOMAIN d = CookieFields /\ d.name = c.name /\ d.value = c.value
             /\ d.asked = c.asked /\ d.hop = c.hop /\ d.secure = c.secure
BY DEF CookieFields

\* Requests that look the same come to the same default: only a proxy that is
\* silent about TLS hides it from the services (secureDefault).
LEMMA SameDefault ==
  ASSUME NEW a \in Hops, NEW b \in Hops, NEW override, SameSide(a, b)
  PROVE  /\ secureDefault(a, override) <=> secureDefault(b, override)
         /\ BrowserScheme(a) = BrowserScheme(b)
BY DEF SameSide, Hops, secureDefault, BrowserScheme, Scheme, ForwardedProto

\* A cookie that is deleted the way it was set is accepted as gone.
LEMMA DeleteIsAccepted ==
  ASSUME NEW c, Made(c), NEW hop \in Hops, SameSide(c.hop, hop)
  PROVE  Accepts(c, hop, secureDefault(hop, c.asked.Secure), c.asked.SameSite)
<1>1. secureDefault(hop, c.asked.Secure) <=> c.secure
  BY SameDefault DEF Made
<1>2. BrowserScheme(hop) = BrowserScheme(c.hop)
  BY SameDefault DEF Made
<1> QED
  BY <1>1, <1>2 DEF Made, Accepts

\* Every operation, and everything the browser and time do, keeps the invariant.
LEMMA CookieInvariant == CookieSpec => []CookieInv
<1>1. CookieInit => CookieInv
  BY DEF CookieInit, CookieInv, CookiesKeepTheirWord, Nothing
<1>2. ASSUME CookieInv, [CookieNext]_cookieVars PROVE CookieInv'
  <2>1. ASSUME lastCookie' = Nothing PROVE CookiesKeepTheirWord'
    BY <2>1 DEF CookiesKeepTheirWord, Nothing
  <2>2. ASSUME NEW n \in CookieNames, NEW hop \in Hops, NEW a \in Asked, NEW v \in CookieValues,
               SetCookie(n, v, a, hop)
        PROVE  CookieInv'
    <3>1. PICK c : c = Encoded(n, v, a, hop)
      OBVIOUS
    <3>2. /\ DOMAIN c = CookieFields /\ c.name = n /\ c.value = v /\ c.asked = a /\ c.hop = hop
          /\ c.secure <=> secureDefault(hop, a.Secure)
      BY <3>1, EncodedFields
    <3>3. /\ lastCookie' = Nothing /\ written' = written \union {<<n, v>>}
          /\ cookieJar' = cookieJar
               \/ (/\ Accepts(cookieJar[n], hop, c.secure, a.SameSite)
                   /\ cookieJar' = [cookieJar EXCEPT ![n] = c])
      BY <2>2, <3>1 DEF SetCookie
    <3>4. ASSUME Accepts(cookieJar[n], hop, c.secure, a.SameSite) PROVE Made(c)'
      BY <3>2, <3>3, <3>4 DEF Made, Accepts
    <3>5. ASSUME NEW d, Made(d) PROVE Made(d)'
      BY <3>3, <3>5 DEF Made
    <3>6. /\ DOMAIN cookieJar' = CookieNames
          /\ \A k \in CookieNames : cookieJar'[k] = NoCookie
               \/ (cookieJar'[k] = cookieJar[k] /\ Made(cookieJar[k]))
               \/ (cookieJar'[k] = c /\ Accepts(cookieJar[n], hop, c.secure, a.SameSite))
      BY <1>2, <3>3 DEF CookieInv
    <3> QED
      BY <2>1, <3>3, <3>4, <3>5, <3>6 DEF CookieInv, Made
  <2>3. ASSUME NEW n \in CookieNames, NEW hop \in Hops, NEW a \in Asked, DeleteCookie(n, a, hop)
        PROVE  CookieInv'
    <3>1. PICK was : was = cookieJar[n]
      OBVIOUS
    <3>2. /\ lastCookie' = [op |-> "delete", key |-> n, was |-> was, asked |-> a, hop |-> hop]
          /\ UNCHANGED written
          /\ IF Accepts(was, hop, secureDefault(hop, a.Secure), a.SameSite)
             THEN cookieJar' = [cookieJar EXCEPT ![n] = NoCookie] ELSE cookieJar' = cookieJar
      BY <2>3, <3>1 DEF DeleteCookie
    <3>3. /\ DOMAIN cookieJar' = CookieNames
          /\ \A k \in CookieNames : cookieJar'[k] = NoCookie \/ cookieJar'[k] = cookieJar[k]
      BY <1>2, <3>2 DEF CookieInv
    <3>4. ASSUME NEW k \in CookieNames PROVE cookieJar'[k] = NoCookie \/ Made(cookieJar[k])'
      BY <1>2, <3>2, <3>3 DEF CookieInv, Made
    <3>5. ASSUME was # NoCookie, was.asked = a, SameSide(was.hop, hop)
          PROVE  cookieJar'[n] = NoCookie
      <4>1. Accepts(was, hop, secureDefault(hop, a.Secure), a.SameSite)
        BY <1>2, <3>1, <3>5, DeleteIsAccepted DEF CookieInv
      <4> QED
        BY <1>2, <3>2, <4>1 DEF CookieInv
    <3>6. CookiesKeepTheirWord'
      BY <3>2, <3>5 DEF CookiesKeepTheirWord
    <3> QED
      BY <3>3, <3>4, <3>6 DEF CookieInv
  <2>4. ASSUME NEW n \in CookieNames, NEW hop \in Hops, GetCookie(n, hop) PROVE CookieInv'
    <3>1. PICK c : c = cookieJar[n]
      OBVIOUS
    <3>2. /\ lastCookie'.op = "get" /\ lastCookie'.name = n
          /\ lastCookie'.code = "OK" => c # NoCookie /\ Decode(n, c) /\ lastCookie'.value = c.value
          /\ UNCHANGED <<sealing, cookieJar, written>>
      BY <2>4, <3>1 DEF GetCookie
    <3>3. CookiesKeepTheirWord'
      BY <1>2, <3>1, <3>2 DEF CookiesKeepTheirWord, CookieInv, Made, Decode
    <3> QED
      BY <1>2, <3>2, <3>3 DEF CookieInv, Made
  <2>5. CASE NextRequest
    BY <1>2, <2>1, <2>5 DEF NextRequest, CookieInv, Made
  <2>6. CASE Months
    <3>1. /\ lastCookie' = Nothing /\ UNCHANGED written /\ DOMAIN cookieJar' = CookieNames
          /\ \A k \in CookieNames : cookieJar'[k] = IF cookieJar[k] = NoCookie THEN NoCookie
                                                    ELSE [cookieJar[k] EXCEPT !.old = TRUE]
      BY <2>6 DEF Months
    <3>2. ASSUME NEW k \in CookieNames PROVE cookieJar'[k] = NoCookie \/ Made(cookieJar[k])'
      <4>1. PICK c, d : c = cookieJar[k] /\ d = cookieJar'[k]
        OBVIOUS
      <4>2. CASE c = NoCookie
        BY <3>1, <4>1, <4>2
      <4>3. CASE c # NoCookie
        <5>1. Made(c) /\ d = [c EXCEPT !.old = TRUE]
          BY <1>2, <3>1, <4>1, <4>3 DEF CookieInv
        <5>2. /\ DOMAIN d = CookieFields /\ d.name = c.name /\ d.value = c.value
              /\ d.asked = c.asked /\ d.hop = c.hop /\ d.secure = c.secure
          BY <5>1, OldIsMade DEF Made
        <5>3. Made(d)
          BY <5>1, <5>2 DEF Made
        <5> QED
          BY <3>1, <4>1, <5>3 DEF Made
      <4> QED
        BY <4>2, <4>3
    <3> QED
      BY <2>1, <3>1, <3>2 DEF CookieInv
  <2>7. ASSUME NEW from \in CookieNames, NEW to \in CookieNames, MoveCookie(from, to) PROVE CookieInv'
    <3>1. /\ lastCookie' = Nothing /\ UNCHANGED written /\ DOMAIN cookieJar' = CookieNames
          /\ \A k \in CookieNames : cookieJar'[k] = IF k = to THEN cookieJar[from] ELSE cookieJar[k]
      BY <1>2, <2>7 DEF MoveCookie, CookieInv
    <3>2. ASSUME NEW k \in CookieNames PROVE cookieJar'[k] = NoCookie \/ Made(cookieJar[k])'
      BY <1>2, <3>1 DEF CookieInv, Made
    <3> QED
      BY <2>1, <3>1, <3>2 DEF CookieInv
  <2>8. CASE UNCHANGED cookieVars
    BY <1>2, <2>8 DEF cookieVars, CookieInv, CookiesKeepTheirWord, Made
  <2> QED
    BY <1>2, <2>2, <2>3, <2>4, <2>5, <2>6, <2>7, <2>8 DEF CookieNext
<1> QED
  BY <1>1, <1>2, PTL DEF CookieSpec

\* For any names, values and requests, a deleted cookie is gone and a value
\* from a secure cookie was written under its name (SetCookie, GetCookie,
\* DeleteCookie).
THEOREM CookiesTheorem == CookieSpec => []CookiesKeepTheirWord
<1>1. CookieInv => CookiesKeepTheirWord
  BY DEF CookieInv
<1> QED
  BY <1>1, CookieInvariant, PTL

-----------------------------------------------------------------------------
(* The TLS files.  The mtime that is remembered is never later than what   *)
(* is served, nor what is served later than the disk: mtimes are statted   *)
(* before anything is read, and files only get newer.                      *)

Versions == [Files -> Nat]
Ats == {"idle", "for ca", "for cert", "done"}
ShakeRecords == [at : Ats, stat : Versions, read : Versions, got : Versions]

\* What a handshake statted it read no earlier, and it reads only what it has
\* statted altogether.
ShakeOK(s) ==
    /\ \A f \in Files : s.stat[f] <= file[f] /\ s.read[f] <= file[f]
    /\ \A f \in Files : s.read[f] # 0 => s.stat[f] <= s.read[f]
    /\ s.read # Nowhere => Pending(s.stat) = {}
    /\ s.got["cert"] = s.got["key"]

TLSInv ==
    /\ config \in Settings
    /\ file \in Versions /\ held \in Versions /\ modTime \in Versions
    /\ shake \in [Handshakes -> ShakeRecords]
    /\ \A f \in Files : file[f] # 0
    /\ held["cert"] = held["key"]
    /\ \A f \in Used : modTime[f] <= held[f] /\ held[f] <= file[f]
    /\ Serving => \A f \in Used : held[f] # 0
    /\ Serving \/ server = "plaintext" => server = BuiltConfig(config)
    /\ \A h \in Handshakes : ShakeOK(shake[h])

\* What the settings come to, whatever they are: plain text only if nothing
\* asks for TLS, verification only against a configured bundle, and never less
\* than "require" where that is asked for.
LEMMA BuiltIsAsked ==
  ASSUME NEW cfg \in Settings
  PROVE  /\ BuiltConfig(cfg) = "plaintext" =>
              ~TLSShaped(cfg) /\ ~cfg.TLSEnabled /\ LoopbackTrustFile(cfg) = NoFile
         /\ BuiltConfig(cfg) \in Verifying => IsMutualTLSEnabled(cfg)
         /\ BuiltConfig(cfg) \notin {"plaintext", "refused"} =>
              /\ cfg.TLSClientAuth = "require" => RequiresClientCert(cfg)
              /\ LoopbackTrustFile(cfg) # NoFile
<1>1. PICK auth, ca : auth = cfg.TLSClientAuth /\ ca = resolveConfig(cfg).clientCAFile
  OBVIOUS
<1>2. resolveConfig(cfg).clientAuth = auth
  BY <1>1 DEF resolveConfig
<1>3. resolveConfig(cfg).enabled <=> cfg.TLSEnabled \/ cfg.TLSCertsDir # NoFile
  BY Zenon DEF resolveConfig
<1>4. /\ parseClientAuth(auth, ca) # "plaintext"
      /\ parseClientAuth(auth, ca) \in Verifying => ca # NoFile
      /\ auth = "require" /\ parseClientAuth(auth, ca) # "refused"
           => parseClientAuth(auth, ca) = "RequireAndVerifyClientCert"
  BY DEF parseClientAuth, Verifying
<1> QED
  BY <1>1, <1>2, <1>3, <1>4
  DEF BuiltConfig, LoopbackTrustFile, IsMutualTLSEnabled, RequiresClientCert, Verifying

\* The next file to stat or read is one of those the server uses.
LEMMA NextFile ==
  ASSUME NEW done \in Versions, Pending(done) # {}
  PROVE  StatOrder[First(Pending(done))] \in Used /\ done[StatOrder[First(Pending(done))]] = 0
<1>1. Pending(done) \subseteq Nat
  BY DEF Pending, StatOrder
<1>2. First(Pending(done)) \in Pending(done)
  <2>1. PICK m \in Pending(done) : \A j \in Pending(done) : m <= j
    BY <1>1, LeastExists
  <2> QED
    BY <2>1 DEF First
<1> QED
  BY <1>2 DEF Pending

\* When nothing is pending, every file the server uses is done.
LEMMA NothingPending ==
  ASSUME NEW done, Pending(done) = {} PROVE \A f \in Used : done[f] # 0
<1>1. Used \subseteq {StatOrder[1], StatOrder[2], StatOrder[3]} /\ {1, 2, 3} \subseteq DOMAIN StatOrder
  BY DEF Used, Files, StatOrder
<1> QED
  BY <1>1 DEF Pending

\* What a handshake takes from a reload belongs together.
LEMMA TakeIsOK ==
  ASSUME NEW s \in ShakeRecords, held' \in Versions, held'["cert"] = held'["key"],
         file \in Versions
  PROVE  /\ Take(s) \in ShakeRecords
         /\ Take(s).stat = Nowhere /\ Take(s).read = Nowhere /\ Take(s).got["cert"] = Take(s).got["key"]
BY DEF Take, Shake, ShakeRecords, Versions, Files, Ats, Nowhere

\* A handshake steps on; the rest of the server's state stays sound.
LEMMA HandshakeSteps ==
  ASSUME TLSInv, NEW h \in Handshakes, NEW s \in ShakeRecords, ShakeOK(s),
         shake' = [shake EXCEPT ![h] = s], UNCHANGED <<config, server, file>>,
         held' \in Versions, modTime' \in Versions, held'["cert"] = held'["key"],
         \A f \in Used : modTime'[f] <= held'[f] /\ held'[f] <= file[f],
         Serving => \A f \in Used : held'[f] # 0
  PROVE  TLSInv'
<1>1. shake' \in [Handshakes -> ShakeRecords]
  BY DEF TLSInv
<1>2. ASSUME NEW r, ShakeOK(r) PROVE ShakeOK(r)'
  BY <1>2 DEF ShakeOK, Pending, Used, Nowhere
<1>3. ASSUME NEW k \in Handshakes PROVE ShakeOK(shake[k])'
  <2>1. PICK r : r = shake'[k]
    OBVIOUS
  <2>2. ShakeOK(r)
    BY <2>1 DEF TLSInv
  <2> QED
    BY <1>2, <2>1, <2>2 DEF ShakeOK, Pending, Used
<1> QED
  BY <1>1, <1>3 DEF TLSInv, Used, Serving

\* A handshake that has taken what it came for is in order.
LEMMA TakenIsOK ==
  ASSUME TLSInv, NEW h \in Handshakes, held' \in Versions, held'["cert"] = held'["key"]
  PROVE  Take(shake[h]) \in ShakeRecords /\ ShakeOK(Take(shake[h]))
<1>1. PICK t : t = Take(shake[h])
  OBVIOUS
<1>2. /\ t \in ShakeRecords /\ t.stat = Nowhere /\ t.read = Nowhere /\ t.got["cert"] = t.got["key"]
  BY <1>1, TakeIsOK DEF TLSInv
<1>3. ShakeOK(t)
  BY <1>2 DEF ShakeOK, Nowhere, TLSInv, Versions
<1> QED
  BY <1>1, <1>2, <1>3

\* However reloads and rotations interleave, the order of the versions is kept.
LEMMA TLSInvariant == TLSSpec => []TLSInv
<1>1. TLSInit => TLSInv
  <2> SUFFICES ASSUME TLSInit PROVE TLSInv
    OBVIOUS
  <2>1. Nowhere \in Versions /\ Resting \in ShakeRecords
    BY DEF Nowhere, Versions, Resting, Shake, ShakeRecords, Ats
  <2>2. /\ Resting.stat = Nowhere /\ Resting.read = Nowhere /\ Resting.got = Nowhere
    BY DEF Resting, Shake
  <2>3. ShakeOK(Resting)
    BY <2>2 DEF TLSInit, ShakeOK, Nowhere, Files
  <2>4. /\ file \in Versions /\ \A f \in Files : file[f] # 0 /\ 0 <= file[f] /\ Nowhere[f] = 0
        /\ Used \subseteq Files /\ "cert" \in Files /\ "key" \in Files
    BY DEF TLSInit, Versions, Files, Used, Nowhere
  <2>5. shake \in [Handshakes -> ShakeRecords] /\ \A h \in Handshakes : ShakeOK(shake[h])
    BY <2>1, <2>3 DEF TLSInit
  <2> QED
    BY <2>1, <2>4, <2>5 DEF TLSInit, TLSInv, Serving
<1>2. ASSUME TLSInv, [TLSNext]_tlsVars PROVE TLSInv'
  <2>1. CASE BuildServerTLSConfig
    <3>1. /\ UNCHANGED <<config, file, shake>> /\ Used' = Used /\ Used \subseteq Files
          /\ "cert" \in Used /\ "key" \in Used
      BY <2>1 DEF BuildServerTLSConfig, Used, Files
    <3>2. \A h \in Handshakes : ShakeOK(shake[h])'
      BY <1>2, <3>1 DEF TLSInv, ShakeOK, Pending
    <3>3. CASE server' \notin {"refused", "plaintext"}
      <4>1. /\ server' = BuiltConfig(config) /\ file["cert"] = file["key"]
            /\ held' = [f \in Files |-> IF f \in Used THEN file[f] ELSE 0] /\ modTime' = held'
        BY <2>1, <3>3 DEF BuildServerTLSConfig
      <4>2. held' \in Versions
        BY <1>2, <4>1 DEF TLSInv, Versions
      <4>3. \A f \in Used : held'[f] = file[f] /\ file[f] \in Nat /\ file[f] # 0
        BY <1>2, <3>1, <4>1 DEF TLSInv, Versions
      <4> QED
        BY <1>2, <3>1, <3>2, <4>1, <4>2, <4>3 DEF TLSInv
    <3>4. CASE server' \in {"refused", "plaintext"}
      <4>1. UNCHANGED <<held, modTime>> /\ (server' = "plaintext" => server' = BuiltConfig(config))
        BY <2>1, <3>4 DEF BuildServerTLSConfig
      <4> QED
        BY <1>2, <3>1, <3>2, <3>4, <4>1 DEF TLSInv, Serving
    <3> QED
      BY <3>3, <3>4
  <2>2. ASSUME NEW f \in Files, Rotate(f) PROVE TLSInv'
    <3>1. /\ UNCHANGED <<config, server, held, modTime, shake>> /\ Used' = Used /\ Used \subseteq Files
          /\ file' \in Versions /\ \A g \in Files : file[g] \in Nat /\ file'[g] \in Nat /\ file[g] <= file'[g]
      BY <1>2, <2>2 DEF Rotate, TLSInv, Used, Versions
    <3>2. ASSUME NEW h \in Handshakes PROVE ShakeOK(shake[h])'
      <4>1. shake[h] \in ShakeRecords /\ ShakeOK(shake[h])
        BY <1>2 DEF TLSInv
      <4>2. \A g \in Files : shake[h].stat[g] \in Nat /\ shake[h].read[g] \in Nat
        BY <4>1 DEF ShakeRecords, Versions
      <4>3. \A g \in Files : shake[h].stat[g] <= file'[g] /\ shake[h].read[g] <= file'[g]
        BY <3>1, <4>1, <4>2 DEF ShakeOK
      <4> QED
        BY <3>1, <4>1, <4>3 DEF ShakeOK, Pending
    <3>3. \A g \in Used : held[g] \in Nat /\ held[g] <= file'[g]
      BY <1>2, <3>1 DEF TLSInv, Versions
    <3>4. \A g \in Files : file'[g] # 0
      BY <1>2, <3>1 DEF TLSInv
    <3> QED
      BY <1>2, <3>1, <3>2, <3>3, <3>4 DEF TLSInv, Serving
  <2>3. ASSUME NEW h \in Handshakes, Hello(h) \/ Finish(h) PROVE TLSInv'
    <3>1. PICK at \in Ats : shake' = [shake EXCEPT ![h] = Shake(at, Nowhere, Nowhere, Nowhere)]
      BY <2>3 DEF Hello, Finish, Resting, Ats
    <3>2. PICK s : s = Shake(at, Nowhere, Nowhere, Nowhere)
      OBVIOUS
    <3>3. s \in ShakeRecords /\ s.stat = Nowhere /\ s.read = Nowhere /\ s.got = Nowhere
      BY <3>2 DEF Shake, ShakeRecords, Nowhere, Versions
    <3>4. ShakeOK(s)
      BY <1>2, <3>3 DEF ShakeOK, Nowhere, TLSInv, Versions, Files
    <3>5. UNCHANGED <<config, server, file, held, modTime>>
      BY <2>3 DEF Hello, Finish
    <3> QED
      BY <1>2, <3>1, <3>2, <3>3, <3>4, <3>5, HandshakeSteps DEF TLSInv
  <2>4. ASSUME NEW h \in Handshakes, NotDue(h) \/ Unchanged(h) PROVE TLSInv'
    <3>1. shake' = [shake EXCEPT ![h] = Take(shake[h])] /\ UNCHANGED <<config, server, file, held, modTime>>
      BY <2>4 DEF NotDue, Unchanged
    <3>2. held' \in Versions /\ held'["cert"] = held'["key"]
      BY <1>2, <3>1 DEF TLSInv
    <3>3. Take(shake[h]) \in ShakeRecords /\ ShakeOK(Take(shake[h]))
      BY <1>2, <3>2, TakenIsOK
    <3> QED
      BY <1>2, <3>1, <3>2, <3>3, HandshakeSteps DEF TLSInv
  <2>5. ASSUME NEW h \in Handshakes, Stat(h) PROVE TLSInv'
    <3>1. PICK r, f : r = shake[h] /\ f = StatOrder[First(Pending(shake[h].stat))]
      OBVIOUS
    <3>2. r \in ShakeRecords /\ ShakeOK(r)
      BY <1>2, <3>1 DEF TLSInv
    <3>3. f \in Files /\ r.stat[f] = 0 /\ Pending(r.stat) # {}
      BY <2>5, <3>1, <3>2, NextFile DEF Stat, ShakeRecords, Used, Files
    <3>4. PICK stat, s : stat = [r.stat EXCEPT ![f] = file[f]] /\ s = Shake(r.at, stat, r.read, r.got)
      OBVIOUS
    <3>5. shake' = [shake EXCEPT ![h] = s] /\ UNCHANGED <<config, server, file, held, modTime>>
      BY <1>2, <2>5, <3>1, <3>4 DEF Stat, TLSInv
    <3>6. /\ stat \in Versions /\ \A g \in Files : stat[g] = IF g = f THEN file[f] ELSE r.stat[g]
      BY <1>2, <3>2, <3>3, <3>4 DEF TLSInv, ShakeRecords, Versions
    <3>7. s \in ShakeRecords /\ s.stat = stat /\ s.read = r.read /\ s.got = r.got
      BY <3>2, <3>4, <3>6 DEF Shake, ShakeRecords
    <3>8. r.read = Nowhere /\ \A g \in Files : Nowhere[g] = 0
      BY <3>2, <3>3 DEF ShakeOK, Nowhere
    <3>9. ShakeOK(s)
      BY <1>2, <3>2, <3>6, <3>7, <3>8 DEF ShakeOK, TLSInv, Versions, ShakeRecords
    <3> QED
      BY <1>2, <3>5, <3>7, <3>9, HandshakeSteps DEF TLSInv
  <2>6. ASSUME NEW h \in Handshakes, ReadFile(h) PROVE TLSInv'
    <3>1. PICK r, f : r = shake[h] /\ f = StatOrder[First(Pending(shake[h].read))]
      OBVIOUS
    <3>2. r \in ShakeRecords /\ ShakeOK(r)
      BY <1>2, <3>1 DEF TLSInv
    <3>3. f \in Files /\ Pending(r.stat) = {}
      BY <2>6, <3>1, <3>2, NextFile DEF ReadFile, Statted, ShakeRecords, Used, Files
    <3>4. PICK read, s : read = [r.read EXCEPT ![f] = file[f]] /\ s = Shake(r.at, r.stat, read, r.got)
      OBVIOUS
    <3>5. shake' = [shake EXCEPT ![h] = s] /\ UNCHANGED <<config, server, file, held, modTime>>
      BY <1>2, <2>6, <3>1, <3>4 DEF ReadFile, TLSInv
    <3>6. /\ read \in Versions /\ \A g \in Files : read[g] = IF g = f THEN file[f] ELSE r.read[g]
      BY <1>2, <3>2, <3>3, <3>4 DEF TLSInv, ShakeRecords, Versions
    <3>7. s \in ShakeRecords /\ s.stat = r.stat /\ s.read = read /\ s.got = r.got
      BY <3>2, <3>4, <3>6 DEF Shake, ShakeRecords
    <3>8. ShakeOK(s)
      <4>1. \A g \in Files : file[g] \in Nat /\ r.stat[g] \in Nat /\ r.read[g] \in Nat
        BY <1>2, <3>2 DEF TLSInv, Versions, ShakeRecords
      <4>2. \A g \in Files : /\ s.stat[g] <= file[g] /\ s.read[g] <= file[g]
                             /\ s.read[g] # 0 => s.stat[g] <= s.read[g]
        BY <3>2, <3>6, <3>7, <4>1 DEF ShakeOK
      <4>3. Pending(s.stat) = {} /\ s.got["cert"] = s.got["key"]
        BY <3>2, <3>3, <3>7 DEF ShakeOK
      <4> QED
        BY <4>2, <4>3 DEF ShakeOK
    <3> QED
      BY <1>2, <3>5, <3>7, <3>8, HandshakeSteps DEF TLSInv
  <2>7. ASSUME NEW h \in Handshakes, Store(h) PROVE TLSInv'
    <3>1. PICK r : r = shake[h]
      OBVIOUS
    <3>2. r \in ShakeRecords /\ ShakeOK(r) /\ r.stat \in Versions /\ r.read \in Versions /\ Used \subseteq Files
      BY <1>2, <3>1 DEF TLSInv, ShakeRecords, Used
    <3>3. /\ shake' = [shake EXCEPT ![h] = Take(shake[h])] /\ UNCHANGED <<config, server, file>>
          /\ \/ r.read["cert"] = r.read["key"] /\ held' = r.read /\ modTime' = r.stat
             \/ UNCHANGED <<held, modTime>>
      BY <2>7, <3>1 DEF Store, Remembered
    <3>4. \A f \in Used : r.read[f] # 0
      BY <2>7, <3>1, NothingPending DEF Store
    <3>5. /\ held' \in Versions /\ modTime' \in Versions /\ held'["cert"] = held'["key"]
          /\ \A f \in Used : modTime'[f] <= held'[f] /\ held'[f] <= file[f]
          /\ Serving => \A f \in Used : held'[f] # 0
      BY <1>2, <3>2, <3>3, <3>4 DEF TLSInv, ShakeOK
    <3>6. Take(shake[h]) \in ShakeRecords /\ ShakeOK(Take(shake[h]))
      BY <1>2, <3>5, TakenIsOK
    <3> QED
      BY <1>2, <3>3, <3>5, <3>6, HandshakeSteps
  <2>8. CASE UNCHANGED <<config, server, file, held, modTime, shake>>
    BY <1>2, <2>8 DEF TLSInv, ShakeOK, Pending, Used, Serving
  <2> QED
    BY <1>2, <2>1, <2>2, <2>3, <2>4, <2>5, <2>6, <2>7, <2>8 DEF TLSNext, TimePasses, tlsVars
<1> QED
  BY <1>1, <1>2, PTL DEF TLSSpec

\* For every configuration, any number of handshakes and any rotation of the
\* files: TLS is what was asked for, certificate and key belong together, and
\* no rotation is missed (resolveConfig, parseClientAuth, reload).
THEOREM TLSTheorem == TLSSpec => []TLSIsAsConfigured
<1>1. TLSInv => RotationIsNotMissed
  <2> SUFFICES ASSUME TLSInv, Serving PROVE RotationIsNotMissed
    BY DEF RotationIsNotMissed
  <2>1. \A f \in Used : modTime[f] \in Nat /\ held[f] \in Nat /\ file[f] \in Nat
    BY DEF TLSInv, Versions, Used
  <2>2. \A f \in Used : modTime[f] = file[f] => held[f] = file[f]
    BY <2>1 DEF TLSInv
  <2> QED
    BY <2>2 DEF RotationIsNotMissed, TLSInv, ShakeOK
<1>2. TLSInv => NoSilentDowngrade
  <2> SUFFICES ASSUME TLSInv PROVE NoSilentDowngrade
    OBVIOUS
  <2>1. CASE Serving
    <3>1. server = BuiltConfig(config) /\ server \notin {"plaintext", "refused"}
      BY <2>1 DEF TLSInv, Serving
    <3>2. IsMutualTLSEnabled(config) => held["ca"] # 0
      BY <2>1 DEF TLSInv, Used, Files
    <3> QED
      BY <2>1, <3>1, <3>2, BuiltIsAsked DEF TLSInv, NoSilentDowngrade
  <2>2. CASE ~Serving
    <3>1. server \notin Verifying
      BY <2>2 DEF Serving, Verifying
    <3>2. server = "plaintext" => server = BuiltConfig(config)
      BY DEF TLSInv
    <3> QED
      BY <2>2, <3>1, <3>2, BuiltIsAsked DEF TLSInv, NoSilentDowngrade
  <2> QED
    BY <2>1, <2>2
<1> QED
  BY <1>1, <1>2, TLSInvariant, PTL DEF TLSIsAsConfigured

-----------------------------------------------------------------------------
(* The trail of a request.  A call has its logger to itself, so what is    *)
(* updated in place is nobody else's; a caller that is still handling does *)
(* not change any more; and whoever has no span has no parent either.      *)

FieldRecords == [correlation : Nat, span : Nat, parent : Nat]
MetadataOK(md) == md \in FieldRecords /\ (md.span = None0 => md.parent = None0)

\* What a logger's fields say of a call, in each chain.
Said(fields, md) ==
    /\ chain \notin {"openTelemetry", "echoCorrelation"} =>
         fields.correlation = md.correlation /\ fields.correlation # None0
    /\ chain = "correlation" => fields.span = md.span /\ fields.parent = md.parent
    /\ chain = "echoCorrelation" => fields.parent = md.span /\ fields.correlation # None0

Filtered(k) ==
    k.at \notin {"idle", "filtering"} /\ ~filter.nil =>
      "x-other" \notin k.headers /\ ("x-tenant" \in k.headers => k.method = "A")

FromCaller(k) ==
    /\ k.caller \subseteq Calls /\ (chain \in OfEcho => k.caller = {})
    /\ \A u \in k.caller :
         /\ call[u].at = "handling" /\ call[u].md.correlation # None0
         /\ k.md.correlation = call[u].md.correlation
         /\ k.at \in {"filtering", "correlating"} => k.md.parent = call[u].md.span

OwnLogger(k) ==
    /\ k.logger \in Nat /\ k.logger <= Len(loggers) /\ k.logger # Global
    /\ chain \notin OfEcho /\ k.at \in {"idle", "filtering", "correlating"} => k.logger = NoLogger
    /\ chain \in OfEcho => k.at # "filtering"
    /\ chain \in OfEcho /\ k.at = "correlating" => k.logger # NoLogger /\ loggers[k.logger] = NoFields
    /\ k.at = "handling" \/ (k.at = "logging" /\ chain \in {"correlation", "otelCorrelation"}) =>
         k.logger # NoLogger /\ Said(loggers[k.logger], k.md)

CallOK(k) ==
    /\ MetadataOK(k.md) /\ FromCaller(k) /\ Filtered(k) /\ OwnLogger(k)
    /\ chain \notin OfEcho /\ k.at \in {"logging", "handling"} => k.md.correlation # None0
    /\ k.header # None0 => k.header = k.md.correlation

LineOK(l) ==
    l.of \in Calls /\ call[l.of].at = "handling" /\ l.bag \subseteq {l.of} /\ Said(l.fields, call[l.of].md)

TrailInv ==
    /\ chain \in AllChains /\ filter \in {NilFilter, TenantFilter} /\ ids \in Nat
    /\ chain \in OfEcho => filter = NilFilter
    /\ loggers \in Seq(FieldRecords) /\ Len(loggers) # 0 /\ loggers[Global] = NoFields
    /\ DOMAIN call = Calls /\ DOMAIN bag = Calls
    /\ \A c \in Calls : CallOK(call[c]) /\ bag[c] \subseteq {c}
    /\ \A c, d \in Calls : c # d /\ call[c].logger # NoLogger => call[c].logger # call[d].logger
    /\ \A l \in lines : LineOK(l)

\* No filter is no filter.
LEMMA NilPasses == NilFilter.nil = TRUE
BY Zenon DEF NilFilter

\* What the records hold.
LEMMA CalledFields ==
  ASSUME NEW at, NEW method, NEW headers, NEW md, NEW logger, NEW header, NEW caller
  PROVE  LET k == Called(at, method, headers, md, logger, header, caller)
         IN  /\ k.at = at /\ k.method = method /\ k.headers = headers /\ k.md = md
             /\ k.logger = logger /\ k.header = header /\ k.caller = caller
BY DEF Called

LEMMA FieldsHold ==
  ASSUME NEW a \in Nat, NEW b \in Nat, NEW d \in Nat
  PROVE  /\ Fields(a, b, d) \in FieldRecords
         /\ Fields(a, b, d).correlation = a /\ Fields(a, b, d).span = b /\ Fields(a, b, d).parent = d
BY DEF Fields, FieldRecords

LEMMA NoFieldsHold ==
  /\ NoFields \in FieldRecords
  /\ NoFields.correlation = None0 /\ NoFields.span = None0 /\ NoFields.parent = None0
BY DEF Fields, FieldRecords, NoFields, None0

\* Fields that are given win over those that are there.
LEMMA WithHolds ==
  ASSUME NEW old \in FieldRecords, NEW given \in FieldRecords
  PROVE  LET w == With(old, given)
         IN  /\ w \in FieldRecords
             /\ w.correlation = IF given.correlation # None0 THEN given.correlation ELSE old.correlation
             /\ w.span = IF given.span # None0 THEN given.span ELSE old.span
             /\ w.parent = IF given.parent # None0 THEN given.parent ELSE old.parent
BY DEF With, Fields, FieldRecords

\* The filter lets the ids pass for every method, and the application's header
\* for the one it was allowed for, in the spelling of the wire.
LEMMA TenantPasses ==
  ASSUME NEW m
  PROVE  /\ ~TenantFilter.nil
         /\ \A f \in {"correlation", "span", "parent"} : Passes(TenantFilter, m, HeaderOf[f])
         /\ ~Passes(TenantFilter, m, "x-other")
         /\ Passes(TenantFilter, m, "x-tenant") => m = "A"
<1>1. TenantFilter.nil = FALSE
  BY Zenon DEF TenantFilter, MetadataFilter
<1>2. TenantFilter.global = NewStringSet(MetaDataFilter)
  BY DEF TenantFilter, MetadataFilter
<1>3. TenantFilter.byEntryPoint = WithAllowedMetadataHeader(<<>>, "A", <<"X-Tenant">>)
  BY DEF TenantFilter, MetadataFilter
<1>4. \A h : h \in TenantFilter.global <=> \E i \in DOMAIN MetaDataFilter : h = MetaDataFilter[i]
  BY <1>2 DEF NewStringSet, StringSetAdd
<1>5. /\ {"x-correlation-id", "x-span", "x-parent"} \subseteq TenantFilter.global
      /\ "x-other" \notin TenantFilter.global /\ "x-tenant" \notin TenantFilter.global
  BY <1>4 DEF MetaDataFilter
<1>6. /\ DOMAIN TenantFilter.byEntryPoint = {"A"}
      /\ TenantFilter.byEntryPoint["A"] = {"x-tenant"}
  BY <1>3 DEF WithAllowedMetadataHeader, LowerCase, StringSetAdd, NewStringSet
<1>7. ASSUME NEW set, NEW h PROVE StringSetContains(set, <<h>>) <=> h \in set
  BY DEF StringSetContains
<1>8. /\ HeaderOf["correlation"] = "x-correlation-id" /\ HeaderOf["span"] = "x-span"
      /\ HeaderOf["parent"] = "x-parent"
  BY DEF HeaderOf
<1>9. LowerCase("x-other") = "x-other" /\ LowerCase("x-tenant") = "x-tenant"
  BY DEF LowerCase
<1>10. \A f \in {"correlation", "span", "parent"} : Passes(TenantFilter, m, HeaderOf[f])
  BY <1>5, <1>7, <1>8 DEF Passes
<1>11. ~Passes(TenantFilter, m, "x-other")
  BY <1>5, <1>6, <1>7, <1>9 DEF Passes
<1>12. Passes(TenantFilter, m, "x-tenant") => m = "A"
  BY <1>5, <1>6, <1>7, <1>9 DEF Passes
<1> QED
  BY <1>1, <1>10, <1>11, <1>12

\* A call that is not yet handled goes on with what it may have: nothing
\* changes for the calls beside it, nor for the lines.
LEMMA CallMoves ==
  ASSUME TrailInv, NEW c \in Calls, NEW k, call[c].at # "handling",
         call' = [call EXCEPT ![c] = k], UNCHANGED <<chain, filter, bag, lines>>, ids' \in Nat,
         loggers' \in Seq(FieldRecords), Len(loggers) <= Len(loggers'),
         \A i \in 1 .. Len(loggers) : i # call[c].logger => loggers'[i] = loggers[i],
         k.logger \in {NoLogger, call[c].logger, Len(loggers) + 1}, CallOK(k)'
  PROVE  TrailInv'
<1>1. DOMAIN call' = Calls /\ call'[c] = k /\ \A d \in Calls : d # c => call'[d] = call[d]
  BY DEF TrailInv
<1>2. Len(loggers) \in Nat /\ Len(loggers') \in Nat /\ Len(loggers) # 0
  BY DEF TrailInv
<1>3. ASSUME NEW d \in Calls, call[d].at = "handling" PROVE call'[d] = call[d]
  BY <1>1, <1>3
<1>4. ASSUME NEW d \in Calls, d # c PROVE CallOK(call[d])'
  <2>1. PICK r : r = call[d] /\ r = call'[d]
    BY <1>1, <1>4
  <2>2. CallOK(r) /\ (r.logger # NoLogger => r.logger # call[c].logger)
    BY <1>4, <2>1 DEF TrailInv
  <2>3. r.logger # NoLogger => loggers'[r.logger] = loggers[r.logger]
    BY <1>2, <2>2 DEF CallOK, OwnLogger, NoLogger
  <2>4. OwnLogger(r)'
    BY <1>2, <2>2, <2>3 DEF CallOK, OwnLogger, Said
  <2>5. FromCaller(r)'
    BY <1>3, <2>2 DEF CallOK, FromCaller
  <2>6. CallOK(r)'
    BY <2>2, <2>4, <2>5 DEF CallOK, Filtered
  <2> QED
    BY <2>1, <2>6 DEF CallOK, OwnLogger, FromCaller, Filtered, Said
<1>5. CallOK(call[c])'
  BY <1>1 DEF CallOK, OwnLogger, FromCaller, Filtered, Said
<1>6. \A d, e \in Calls : d # e /\ call'[d].logger # NoLogger => call'[d].logger # call'[e].logger
  <2>1. \A d \in Calls : call[d].logger \in Nat /\ call[d].logger <= Len(loggers)
    BY DEF TrailInv, CallOK, OwnLogger
  <2>2. \A d, e \in Calls : d # e /\ call[d].logger # NoLogger => call[d].logger # call[e].logger
    BY DEF TrailInv
  <2> QED
    BY <1>1, <1>2, <2>1, <2>2
<1>7. \A l \in lines' : LineOK(l)'
  <2> SUFFICES ASSUME NEW l \in lines PROVE LineOK(l)'
    OBVIOUS
  <2>1. LineOK(l)
    BY DEF TrailInv
  <2> QED
    BY <1>3, <2>1 DEF LineOK, Said
<1>8. loggers'[Global] = NoFields
  BY <1>2 DEF TrailInv, CallOK, OwnLogger, Global
<1> QED
  BY <1>1, <1>2, <1>4, <1>5, <1>6, <1>7, <1>8 DEF TrailInv

\* A call comes in.
LEMMA CallComes ==
  ASSUME TrailInv, NEW c \in Calls, NEW method, NEW headers, NEW md, NEW caller,
         Accept(c, method, headers, md, caller), ids' \in Nat, MetadataOK(md),
         caller \subseteq Calls, chain \in OfEcho => caller = {}, c \notin caller,
         \A u \in caller : /\ call[u].at = "handling" /\ call[u].md.correlation # None0
                           /\ md.correlation = call[u].md.correlation /\ md.parent = call[u].md.span
  PROVE  TrailInv'
<1>1. PICK k : k = Called(IF chain \in OfEcho THEN "logging" ELSE "filtering",
                          method, headers, md, NoLogger, None0, caller)
  OBVIOUS
<1>2. /\ k.at = (IF chain \in OfEcho THEN "logging" ELSE "filtering") /\ k.headers = headers
      /\ k.md = md /\ k.logger = NoLogger /\ k.header = None0 /\ k.caller = caller
  BY <1>1, CalledFields
<1>3. /\ call[c].at = "idle" /\ call' = [call EXCEPT ![c] = k]
      /\ UNCHANGED <<chain, filter, loggers, bag, lines>>
  BY <1>1 DEF Accept
<1>4. Filtered(k)'
  BY <1>2, <1>3, NilPasses DEF TrailInv, Filtered
<1>5. OwnLogger(k)'
  BY <1>2, <1>3 DEF TrailInv, OwnLogger, NoLogger, Global, OfEcho
<1>6. \A u \in caller : call'[u] = call[u]
  BY <1>3 DEF TrailInv
<1>7. FromCaller(k)'
  BY <1>2, <1>3, <1>6 DEF FromCaller
<1>8. CallOK(k)'
  BY <1>2, <1>3, <1>4, <1>5, <1>7 DEF CallOK, MetadataOK
<1>9. loggers' \in Seq(FieldRecords) /\ Len(loggers) <= Len(loggers')
  BY <1>3 DEF TrailInv
<1> QED
  BY <1>2, <1>3, <1>8, <1>9, CallMoves

\* What a call goes on with when it is sent onward.
LEMMA OnwardFields ==
  ASSUME NEW c, NEW at, NEW md, NEW logger, NEW header, Onward(c, at, md, logger, header)
  PROVE  \E k : /\ call' = [call EXCEPT ![c] = k]
                /\ k.at = at /\ k.method = call[c].method /\ k.headers = call[c].headers /\ k.md = md
                /\ k.logger = logger /\ k.header = header /\ k.caller = call[c].caller
<1>1. PICK k : k = Called(at, call[c].method, call[c].headers, md, logger, header, call[c].caller)
  OBVIOUS
<1>2. /\ k.at = at /\ k.method = call[c].method /\ k.headers = call[c].headers /\ k.md = md
      /\ k.logger = logger /\ k.header = header /\ k.caller = call[c].caller
  BY <1>1, CalledFields
<1>3. call' = [call EXCEPT ![c] = k]
  BY <1>1 DEF Onward
<1> QED
  BY <1>2, <1>3

\* A call that goes on with the correlation id of its caller, if it has one,
\* and with a logger of its own that says what it should.
LEMMA GoesOnward ==
  ASSUME TrailInv, NEW c \in Calls, call[c].at \in {"correlating", "logging"},
         NEW at \in {"correlating", "logging", "handling"}, NEW md, NEW logger, NEW header,
         Onward(c, at, md, logger, header), UNCHANGED <<chain, filter, bag, lines>>, ids' \in Nat,
         MetadataOK(md), call[c].md.correlation # None0 => md.correlation = call[c].md.correlation,
         at = "correlating" => chain \in OfEcho,
         chain \notin OfEcho => md.correlation # None0,
         header # None0 => header = md.correlation,
         loggers' \in Seq(FieldRecords), Len(loggers) <= Len(loggers'),
         \A i \in 1 .. Len(loggers) : i # call[c].logger => loggers'[i] = loggers[i],
         logger \in {NoLogger, call[c].logger, Len(loggers) + 1}, logger <= Len(loggers'),
         chain \in OfEcho /\ at = "correlating" => logger # NoLogger /\ loggers'[logger] = NoFields,
         at = "handling" \/ (at = "logging" /\ chain \in {"correlation", "otelCorrelation"}) =>
           logger # NoLogger /\ Said(loggers'[logger], md)
  PROVE  TrailInv'
<1>1. PICK k : /\ call' = [call EXCEPT ![c] = k]
               /\ k.at = at /\ k.method = call[c].method /\ k.headers = call[c].headers /\ k.md = md
               /\ k.logger = logger /\ k.header = header /\ k.caller = call[c].caller
  BY OnwardFields
<1>2. /\ CallOK(call[c]) /\ Len(loggers) \in Nat /\ Len(loggers) # 0 /\ Len(loggers') \in Nat
  BY DEF TrailInv
<1>3. Filtered(k)'
  BY <1>1, <1>2 DEF CallOK, Filtered
<1>4. OwnLogger(k)'
  <2>1. k.logger \in Nat /\ k.logger <= Len(loggers') /\ k.logger # Global
    BY <1>1, <1>2 DEF CallOK, OwnLogger, NoLogger, Global
  <2> QED
    BY <1>1, <2>1 DEF OwnLogger, Said
<1>5. FromCaller(k)'
  <2>1. \A u \in call[c].caller : u \in Calls /\ u # c /\ call'[u] = call[u]
    BY <1>1, <1>2 DEF CallOK, FromCaller, TrailInv
  <2> QED
    BY <1>1, <1>2, <2>1 DEF CallOK, FromCaller
<1>6. CallOK(k)'
  BY <1>1, <1>3, <1>4, <1>5 DEF CallOK, MetadataOK
<1> QED
  BY <1>1, <1>6, CallMoves

\* The correlation id a call goes on with, and the ids drawn for it.
LEMMA CorrIsNew ==
  ASSUME TrailInv, NEW c \in Calls
  PROVE  /\ Corr(c) \in Nat /\ Corr(c) # None0 /\ Drawn(c) \in Nat
         /\ call[c].md.correlation # None0 => Corr(c) = call[c].md.correlation
         /\ call[c].md \in FieldRecords /\ call[c].md.span \in Nat /\ call[c].md.parent \in Nat
BY DEF TrailInv, CallOK, MetadataOK, FieldRecords, Corr, Drawn, None0

\* A child of a logger that has nothing to say says what it is given; the
\* logger itself, and every other, stays as it is.
LEMMA ChildHolds ==
  ASSUME TrailInv, NEW c \in Calls, NEW given \in FieldRecords
  PROVE  LET n == Child(c, given)
         IN  /\ n.loggers \in Seq(FieldRecords) /\ Len(n.loggers) = Len(loggers) + 1
             /\ n.logger = Len(loggers) + 1
             /\ \A i \in 1 .. Len(loggers) : n.loggers[i] = loggers[i]
             /\ n.loggers[n.logger] = With(loggers[baseLogger(c)], given)
             /\ loggers[baseLogger(c)] \in FieldRecords
<1>1. loggers \in Seq(FieldRecords) /\ Len(loggers) \in Nat /\ Len(loggers) # 0
  BY DEF TrailInv
<1>2. baseLogger(c) \in 1 .. Len(loggers)
  BY <1>1 DEF TrailInv, CallOK, OwnLogger, baseLogger, NoLogger, Global
<1>3. loggers[baseLogger(c)] \in FieldRecords
  BY <1>1, <1>2
<1>4. PICK w \in FieldRecords : w = With(loggers[baseLogger(c)], given)
  BY <1>3, WithHolds
<1>5. Child(c, given).loggers = Append(loggers, w) /\ Child(c, given).logger = Len(loggers) + 1
  BY <1>4 DEF Child
<1> QED
  BY <1>1, <1>3, <1>4, <1>5

\* In place: only the call's own logger changes.
LEMMA UpdateHolds ==
  ASSUME TrailInv, NEW c \in Calls, NEW given \in FieldRecords
  PROVE  LET n == UpdateContext(c, given)
         IN  /\ n.loggers \in Seq(FieldRecords) /\ Len(n.loggers) = Len(loggers)
             /\ n.logger = call[c].logger
             /\ \A i \in 1 .. Len(loggers) : i # call[c].logger => n.loggers[i] = loggers[i]
             /\ call[c].logger # NoLogger =>
                  /\ loggers[call[c].logger] \in FieldRecords
                  /\ n.loggers[call[c].logger] = With(loggers[call[c].logger], given)
<1>1. loggers \in Seq(FieldRecords) /\ Len(loggers) \in Nat
  BY DEF TrailInv
<1>2. UpdateContext(c, given).logger = call[c].logger
  BY DEF UpdateContext
<1>3. CASE call[c].logger = NoLogger
  BY <1>1, <1>2, <1>3 DEF UpdateContext
<1>4. CASE call[c].logger # NoLogger
  <2>1. call[c].logger \in 1 .. Len(loggers)
    BY <1>1, <1>4 DEF TrailInv, CallOK, OwnLogger, NoLogger
  <2>2. loggers[call[c].logger] \in FieldRecords
    BY <1>1, <2>1
  <2>3. PICK w \in FieldRecords : w = With(loggers[call[c].logger], given)
    BY <2>2, WithHolds
  <2>4. UpdateContext(c, given).loggers = [loggers EXCEPT ![call[c].logger] = w]
    BY <1>4, <2>3 DEF UpdateContext
  <2> QED
    BY <1>1, <1>2, <1>4, <2>1, <2>2, <2>3, <2>4
<1> QED
  BY <1>3, <1>4

\* Calls, loggers and the chain rest; lines and properties are in order.
LEMMA TrailRests ==
  ASSUME TrailInv, UNCHANGED <<chain, filter, loggers, call, ids>>,
         DOMAIN bag' = Calls, \A c \in Calls : bag'[c] \subseteq {c}, \A l \in lines' : LineOK(l)
  PROVE  TrailInv'
<1>1. \A c \in Calls : CallOK(call[c])'
  BY DEF TrailInv, CallOK, FromCaller, Filtered, OwnLogger, Said
<1>2. \A l \in lines' : LineOK(l)'
  BY DEF LineOK, Said
<1> QED
  BY <1>1, <1>2 DEF TrailInv

\* Everything calls do, one beside the other, keeps the invariant.
LEMMA TrailInvariant ==
  ASSUME Filters \subseteq {NilFilter, TenantFilter} PROVE TrailSpec => []TrailInv
<1>1. TrailInit => TrailInv
  <2> SUFFICES ASSUME TrailInit PROVE TrailInv
    OBVIOUS
  <2>1. /\ Waiting.at = "idle" /\ Waiting.md = NoFields /\ Waiting.logger = NoLogger
        /\ Waiting.header = None0 /\ Waiting.caller = {}
    BY CalledFields DEF Waiting
  <2>2. MetadataOK(NoFields) /\ NoFields \in FieldRecords
    BY NoFieldsHold DEF MetadataOK
  <2>3. chain \in AllChains /\ loggers = <<NoFields>> /\ Len(loggers) = 1 /\ loggers[1] = NoFields
    BY TrailAssumption DEF TrailInit
  <2>4. CallOK(Waiting)
    BY <2>1, <2>2, <2>3 DEF CallOK, FromCaller, Filtered, OwnLogger, NoLogger, Global
  <2>5. loggers \in Seq(FieldRecords)
    BY <2>2, <2>3
  <2> QED
    BY <2>1, <2>3, <2>4, <2>5 DEF TrailInit, TrailInv, Global
<1>2. ASSUME TrailInv, [TrailNext]_trailVars PROVE TrailInv'
  <2> USE <1>2
  <2>1. ASSUME NEW c \in Calls, NEW n \in 0 .. 2, NEW m, Come(c, m, n) PROVE TrailInv'
    <3>1. PICK md : md = Fields(IF n = 0 THEN None0 ELSE ids + 1, IF n = 2 THEN ids + 2 ELSE None0, None0)
      OBVIOUS
    <3>2. ids \in Nat /\ ids' \in Nat
      BY <2>1 DEF Come, TrailInv
    <3>3. MetadataOK(md)
      BY <3>1, <3>2, FieldsHold DEF MetadataOK, None0
    <3> QED
      BY <2>1, <3>1, <3>2, <3>3, CallComes DEF Come
  <2>2. ASSUME NEW c \in Calls, NEW d \in Calls, CallOn(c, d) PROVE TrailInv'
    <3>1. PICK md : md = EnsureOutboundSpanTracing(call[c].md, ids + 1)
      OBVIOUS
    <3>2. /\ ids \in Nat /\ ids' \in Nat /\ call[c].at = "handling" /\ chain \notin OfEcho
          /\ c # d /\ Accept(d, "B", {"authorization"}, md, {c})
      BY <2>2, <3>1 DEF CallOn, TrailInv
    <3>3. /\ call[c].md \in FieldRecords /\ call[c].md.correlation # None0
          /\ call[c].md.span = None0 => call[c].md.parent = None0
      BY <3>2 DEF TrailInv, CallOK, MetadataOK
    <3>4. /\ md \in FieldRecords /\ md.correlation = call[c].md.correlation /\ md.span # None0
          /\ md.parent = call[c].md.span
      BY <3>1, <3>2, <3>3 DEF EnsureOutboundSpanTracing, FieldRecords, Fields, None0
    <3> QED
      BY <3>2, <3>3, <3>4, CallComes DEF MetadataOK
  <2>3. ASSUME NEW c \in Calls, FilterMetadata(c) PROVE TrailInv'
    <3>1. PICK old, md, headers :
            /\ old = call[c]
            /\ md = Fields(IF filter.nil \/ Passes(filter, old.method, HeaderOf["correlation"])
                             THEN old.md["correlation"] ELSE None0,
                           IF filter.nil \/ Passes(filter, old.method, HeaderOf["span"])
                             THEN old.md["span"] ELSE None0,
                           IF filter.nil \/ Passes(filter, old.method, HeaderOf["parent"])
                             THEN old.md["parent"] ELSE None0)
            /\ headers = {h \in old.headers : filter.nil \/ Passes(filter, old.method, h)}
      OBVIOUS
    <3>2. PICK k : k = Called("correlating", old.method, headers, md, old.logger, old.header, old.caller)
      OBVIOUS
    <3>3. /\ call[c].at = "filtering" /\ call' = [call EXCEPT ![c] = k]
          /\ UNCHANGED <<chain, filter, loggers, bag, lines, ids>>
      BY <2>3, <3>1, <3>2 DEF FilterMetadata
    <3>4. /\ k.at = "correlating" /\ k.method = old.method /\ k.headers = headers /\ k.md = md
          /\ k.logger = old.logger /\ k.header = old.header /\ k.caller = old.caller
      BY <3>2, CalledFields
    <3>5. CallOK(old) /\ old.at = "filtering"
      BY <3>1, <3>3 DEF TrailInv
    <3>6. \A f \in {"correlation", "span", "parent"} : filter.nil \/ Passes(filter, old.method, HeaderOf[f])
      BY TenantPasses, NilPasses DEF TrailInv
    <3>7. md = old.md
      <4>1. md = Fields(old.md.correlation, old.md.span, old.md.parent)
        BY <3>1, <3>6
      <4> QED
        BY <3>5, <4>1 DEF CallOK, MetadataOK, FieldRecords, Fields
    <3>8. Filtered(k)'
      BY <3>1, <3>3, <3>4, TenantPasses, NilPasses DEF Filtered, TrailInv
    <3>9. OwnLogger(k)'
      BY <3>3, <3>4, <3>5 DEF CallOK, OwnLogger, TrailInv
    <3>10. FromCaller(k)'
      <4>1. \A u \in old.caller : u \in Calls /\ u # c /\ call'[u] = call[u]
        BY <3>1, <3>3, <3>5 DEF CallOK, FromCaller, TrailInv
      <4> QED
        BY <3>3, <3>4, <3>5, <3>7, <4>1 DEF CallOK, FromCaller
    <3>11. CallOK(k)'
      BY <3>3, <3>4, <3>5, <3>7, <3>8, <3>9, <3>10 DEF CallOK, MetadataOK
    <3>12. loggers' \in Seq(FieldRecords) /\ Len(loggers) <= Len(loggers') /\ ids' \in Nat
      BY <3>3 DEF TrailInv
    <3> QED
      BY <3>1, <3>3, <3>4, <3>11, <3>12, CallMoves
  <2>4. ASSUME NEW c \in Calls, EnsureCorrelationID(c) PROVE TrailInv'
    <3>1. PICK md, log : /\ md = Fields(Corr(c), Drawn(c) + 1, call[c].md.span)
                         /\ log = IF chain = "correlation" THEN Child(c, md) ELSE UpdateContext(c, md)
      OBVIOUS
    <3>2. /\ chain \in {"correlation", "openTelemetry"} /\ call[c].at = "correlating"
          /\ Onward(c, "logging", With(call[c].md, md), log.logger, md.correlation)
          /\ loggers' = log.loggers /\ ids' = Drawn(c) + 1 /\ UNCHANGED <<chain, filter, bag, lines>>
      BY <2>4, <3>1 DEF EnsureCorrelationID, withLoggerFields
    <3>3. /\ md \in FieldRecords /\ md.correlation = Corr(c) /\ md.span = Drawn(c) + 1
          /\ md.parent = call[c].md.span /\ md.span # None0 /\ md.correlation # None0
      <4>1. /\ Corr(c) \in Nat /\ Corr(c) # None0 /\ Drawn(c) + 1 \in Nat \ {0}
            /\ call[c].md.span \in Nat /\ None0 \in Nat
        BY CorrIsNew DEF None0
      <4> QED
        BY <3>1, <4>1, FieldsHold DEF None0
    <3>4. PICK new : new = With(call[c].md, md)
      OBVIOUS
    <3>5. /\ new \in FieldRecords /\ new.correlation = Corr(c) /\ new.span = md.span
          /\ new.parent = (IF md.parent # None0 THEN md.parent ELSE call[c].md.parent)
      BY <3>3, <3>4, CorrIsNew, WithHolds
    <3>6. /\ call[c].logger = NoLogger /\ baseLogger(c) = Global /\ loggers[Global] = NoFields
          /\ call[c].md.span = None0 => call[c].md.parent = None0
      BY <3>2 DEF TrailInv, CallOK, OwnLogger, MetadataOK, baseLogger, OfEcho
    <3>7. new.parent = md.parent
      BY <3>3, <3>5, <3>6
    <3>8. MetadataOK(new)
      BY <3>3, <3>5 DEF MetadataOK
    <3>9. Len(loggers) \in Nat
      BY DEF TrailInv
    <3>10. /\ loggers' \in Seq(FieldRecords) /\ Len(loggers) <= Len(loggers') /\ log.logger <= Len(loggers')
           /\ \A i \in 1 .. Len(loggers) : i # call[c].logger => loggers'[i] = loggers[i]
           /\ log.logger \in {NoLogger, call[c].logger, Len(loggers) + 1}
      <4>1. CASE chain = "correlation"
        BY <3>1, <3>2, <3>3, <3>9, <4>1, ChildHolds
      <4>2. CASE chain # "correlation"
        BY <3>1, <3>2, <3>3, <3>6, <3>9, <4>2, UpdateHolds DEF NoLogger
      <4> QED
        BY <4>1, <4>2
    <3>11. ASSUME chain = "correlation" PROVE log.logger # NoLogger /\ Said(loggers'[log.logger], new)
      <4>1. loggers'[log.logger] = With(NoFields, md) /\ log.logger = Len(loggers) + 1
        BY <3>1, <3>2, <3>3, <3>6, <3>11, ChildHolds
      <4>2. /\ loggers'[log.logger].correlation = Corr(c) /\ loggers'[log.logger].span = md.span
            /\ loggers'[log.logger].parent = md.parent
        BY <3>3, <4>1, WithHolds, NoFieldsHold
      <4> QED
        BY <3>3, <3>5, <3>7, <3>9, <3>11, <4>1, <4>2 DEF Said, NoLogger
    <3>12. /\ chain \notin OfEcho /\ chain # "otelCorrelation" /\ ids' \in Nat
           /\ new.correlation # None0 /\ md.correlation = new.correlation
           /\ call[c].md.correlation # None0 => new.correlation = call[c].md.correlation
      BY <3>2, <3>3, <3>5, CorrIsNew DEF OfEcho
    <3> QED
      BY <3>2, <3>4, <3>8, <3>10, <3>11, <3>12, GoesOnward
  <2>5. ASSUME NEW c \in Calls, EnsureOTELCorrelationID(c) PROVE TrailInv'
    <3>1. PICK given, log, new : /\ given = Fields(Corr(c), None0, None0) /\ log = Child(c, given)
                                 /\ new = Correlated(c)
      OBVIOUS
    <3>2. /\ chain = "otelCorrelation" /\ call[c].at = "correlating"
          /\ Onward(c, "logging", new, log.logger, Corr(c))
          /\ loggers' = log.loggers /\ ids' = Drawn(c) /\ UNCHANGED <<chain, filter, bag, lines>>
      BY <2>5, <3>1 DEF EnsureOTELCorrelationID, withLoggerFields
    <3>3. given \in FieldRecords /\ given.correlation = Corr(c) /\ Corr(c) # None0
      <4>1. Corr(c) \in Nat /\ Corr(c) # None0 /\ None0 \in Nat
        BY CorrIsNew DEF None0
      <4>2. PICK k \in Nat : k = Corr(c)
        BY <4>1
      <4>3. given = Fields(k, None0, None0)
        BY <3>1, <4>2
      <4>4. given \in FieldRecords /\ given.correlation = k
        BY <4>1, <4>3, FieldsHold
      <4> QED
        BY <4>1, <4>2, <4>4
    <3>4. /\ new \in FieldRecords /\ new.correlation = Corr(c) /\ new.span = call[c].md.span
          /\ new.parent = call[c].md.parent
      BY <3>1, CorrIsNew, FieldsHold DEF Correlated
    <3>5. /\ call[c].logger = NoLogger /\ baseLogger(c) = Global /\ loggers[Global] = NoFields
          /\ call[c].md.span = None0 => call[c].md.parent = None0
      BY <3>2 DEF TrailInv, CallOK, OwnLogger, MetadataOK, baseLogger, OfEcho
    <3>6. Len(loggers) \in Nat
      BY DEF TrailInv
    <3>7. /\ loggers' \in Seq(FieldRecords) /\ Len(loggers) <= Len(loggers') /\ log.logger <= Len(loggers')
          /\ \A i \in 1 .. Len(loggers) : i # call[c].logger => loggers'[i] = loggers[i]
          /\ log.logger = Len(loggers) + 1 /\ loggers'[log.logger] = With(NoFields, given)
      BY <3>1, <3>2, <3>3, <3>5, <3>6, ChildHolds
    <3>8. loggers'[log.logger].correlation = Corr(c)
      BY <3>3, <3>7, WithHolds, NoFieldsHold
    <3>9. log.logger # NoLogger /\ Said(loggers'[log.logger], new)
      BY <3>2, <3>3, <3>4, <3>6, <3>7, <3>8 DEF Said, NoLogger
    <3>10. /\ MetadataOK(new) /\ chain \notin OfEcho /\ ids' \in Nat
           /\ call[c].md.correlation # None0 => new.correlation = call[c].md.correlation
      BY <3>2, <3>4, <3>5, CorrIsNew DEF MetadataOK, OfEcho
    <3> QED
      BY <3>2, <3>3, <3>4, <3>7, <3>9, <3>10, GoesOnward
  <2>6. ASSUME NEW c \in Calls, EnsureContextLogging(c) PROVE TrailInv'
    <3>1. PICK log, md, header : log = Child(c, NoFields) /\ md = call[c].md /\ header = call[c].header
      OBVIOUS
    <3>2. /\ chain \notin OfEcho /\ call[c].at = "logging" /\ Onward(c, "handling", md, log.logger, header)
          /\ loggers' = log.loggers /\ UNCHANGED <<chain, filter, bag, lines, ids>>
      BY <2>6, <3>1 DEF EnsureContextLogging
    <3>3. CallOK(call[c]) /\ MetadataOK(md) /\ md.correlation # None0 /\ (header # None0 => header = md.correlation)
      BY <3>1, <3>2 DEF TrailInv, CallOK
    <3>4. NoFields \in FieldRecords /\ Len(loggers) \in Nat /\ ids' \in Nat
      BY <3>2, NoFieldsHold DEF TrailInv
    <3>5. /\ loggers' \in Seq(FieldRecords) /\ Len(loggers) <= Len(loggers') /\ log.logger <= Len(loggers')
          /\ \A i \in 1 .. Len(loggers) : i # call[c].logger => loggers'[i] = loggers[i]
          /\ log.logger = Len(loggers) + 1 /\ loggers'[log.logger] = With(loggers[baseLogger(c)], NoFields)
          /\ loggers[baseLogger(c)] \in FieldRecords
      BY <3>1, <3>2, <3>4, ChildHolds
    <3>6. PICK b \in FieldRecords : b = loggers[baseLogger(c)]
      BY <3>5
    <3>7. /\ loggers'[log.logger].correlation = b.correlation /\ loggers'[log.logger].span = b.span
          /\ loggers'[log.logger].parent = b.parent
      BY <3>4, <3>5, <3>6, WithHolds, NoFieldsHold
    <3>8. chain \in {"correlation", "otelCorrelation"} => Said(b, md)
      BY <3>1, <3>2, <3>3, <3>6 DEF CallOK, OwnLogger, baseLogger
    <3>9. log.logger # NoLogger /\ Said(loggers'[log.logger], md)
      BY <3>2, <3>4, <3>5, <3>7, <3>8 DEF Said, NoLogger, TrailInv, AllChains, OfEcho
    <3> QED
      BY <3>1, <3>2, <3>3, <3>4, <3>5, <3>9, GoesOnward
  <2>7. ASSUME NEW c \in Calls, EnsureContextLogger(c) PROVE TrailInv'
    <3>1. PICK md, header, logger : md = call[c].md /\ header = call[c].header /\ logger = Len(loggers) + 1
      OBVIOUS
    <3>2. /\ chain \in OfEcho /\ call[c].at = "logging" /\ Onward(c, "correlating", md, logger, header)
          /\ loggers' = Append(loggers, NoFields) /\ UNCHANGED <<chain, filter, bag, lines, ids>>
      BY <2>7, <3>1 DEF EnsureContextLogger, TrailInv
    <3>3. MetadataOK(md) /\ (header # None0 => header = md.correlation) /\ ids' \in Nat
      BY <3>1, <3>2 DEF TrailInv, CallOK
    <3>4. NoFields \in FieldRecords /\ Len(loggers) \in Nat /\ loggers \in Seq(FieldRecords)
      BY NoFieldsHold DEF TrailInv
    <3>5. /\ loggers' \in Seq(FieldRecords) /\ Len(loggers) <= Len(loggers') /\ logger <= Len(loggers')
          /\ \A i \in 1 .. Len(loggers) : i # call[c].logger => loggers'[i] = loggers[i]
          /\ logger # NoLogger /\ loggers'[logger] = NoFields
      BY <3>1, <3>2, <3>4 DEF NoLogger
    <3> QED
      BY <3>1, <3>2, <3>3, <3>5, GoesOnward
  <2>8. ASSUME NEW c \in Calls, EnsureContextLoggerOTEL(c) PROVE TrailInv'
    <3>1. PICK given, log, new, header :
            /\ given = Fields(Corr(c), None0, None0) /\ log = UpdateContext(c, given)
            /\ new = Correlated(c) /\ header = call[c].header
      OBVIOUS
    <3>2. /\ chain = "echo" /\ chain \in OfEcho /\ call[c].at = "correlating"
          /\ Onward(c, "handling", new, call[c].logger, header)
          /\ loggers' = log.loggers /\ ids' = Drawn(c) /\ UNCHANGED <<chain, filter, bag, lines>>
      BY <2>8, <3>1 DEF EnsureContextLoggerOTEL, OfEcho
    <3>3. given \in FieldRecords /\ given.correlation = Corr(c) /\ Corr(c) # None0
      <4>1. Corr(c) \in Nat /\ Corr(c) # None0 /\ None0 \in Nat
        BY CorrIsNew DEF None0
      <4>2. PICK k \in Nat : k = Corr(c)
        BY <4>1
      <4>3. given = Fields(k, None0, None0)
        BY <3>1, <4>2
      <4>4. given \in FieldRecords /\ given.correlation = k
        BY <4>1, <4>3, FieldsHold
      <4> QED
        BY <4>1, <4>2, <4>4
    <3>4. /\ new \in FieldRecords /\ new.correlation = Corr(c) /\ new.span = call[c].md.span
          /\ new.parent = call[c].md.parent
      BY <3>1, CorrIsNew, FieldsHold DEF Correlated
    <3>5. /\ call[c].logger # NoLogger /\ loggers[call[c].logger] = NoFields
          /\ call[c].md.span = None0 => call[c].md.parent = None0
          /\ header # None0 => header = call[c].md.correlation
          /\ Len(loggers) \in Nat /\ call[c].logger <= Len(loggers)
      BY <3>1, <3>2 DEF TrailInv, CallOK, OwnLogger, MetadataOK
    <3>6. /\ loggers' \in Seq(FieldRecords) /\ Len(loggers) <= Len(loggers') /\ call[c].logger <= Len(loggers')
          /\ \A i \in 1 .. Len(loggers) : i # call[c].logger => loggers'[i] = loggers[i]
          /\ loggers'[call[c].logger] = With(NoFields, given)
      BY <3>1, <3>2, <3>3, <3>5, UpdateHolds
    <3>7. loggers'[call[c].logger].correlation = Corr(c)
      BY <3>3, <3>6, WithHolds, NoFieldsHold
    <3>8. Said(loggers'[call[c].logger], new)
      BY <3>2, <3>3, <3>4, <3>7 DEF Said
    <3>9. /\ MetadataOK(new) /\ ids' \in Nat
          /\ call[c].md.correlation # None0 => new.correlation = call[c].md.correlation
          /\ header # None0 => header = new.correlation
      BY <3>2, <3>4, <3>5, CorrIsNew DEF MetadataOK
    <3> QED
      BY <3>2, <3>5, <3>6, <3>8, <3>9, GoesOnward
  <2>9. ASSUME NEW c \in Calls, EnsureContextLoggerCorrelation(c) PROVE TrailInv'
    <3>1. PICK given, log, md, header :
            /\ given = Fields(Corr(c), Drawn(c) + 1, call[c].md.span) /\ log = UpdateContext(c, given)
            /\ md = call[c].md /\ header = call[c].header
      OBVIOUS
    <3>2. /\ chain = "echoCorrelation" /\ chain \in OfEcho /\ call[c].at = "correlating"
          /\ Onward(c, "handling", md, call[c].logger, header)
          /\ loggers' = log.loggers /\ ids' = Drawn(c) + 1 /\ UNCHANGED <<chain, filter, bag, lines>>
      BY <2>9, <3>1 DEF EnsureContextLoggerCorrelation, OfEcho
    <3>3. /\ given \in FieldRecords /\ given.correlation = Corr(c) /\ Corr(c) # None0
          /\ given.parent = md.span
      <4>1. /\ Corr(c) \in Nat /\ Corr(c) # None0 /\ Drawn(c) + 1 \in Nat \ {0}
            /\ call[c].md.span \in Nat /\ None0 \in Nat
        BY CorrIsNew DEF None0
      <4> QED
        BY <3>1, <4>1, FieldsHold DEF None0
    <3>4. /\ call[c].logger # NoLogger /\ loggers[call[c].logger] = NoFields
          /\ MetadataOK(md) /\ (header # None0 => header = md.correlation)
          /\ Len(loggers) \in Nat /\ call[c].logger <= Len(loggers)
      BY <3>1, <3>2 DEF TrailInv, CallOK, OwnLogger
    <3>5. /\ loggers' \in Seq(FieldRecords) /\ Len(loggers) <= Len(loggers') /\ call[c].logger <= Len(loggers')
          /\ \A i \in 1 .. Len(loggers) : i # call[c].logger => loggers'[i] = loggers[i]
          /\ loggers'[call[c].logger] = With(NoFields, given)
      BY <3>1, <3>2, <3>3, <3>4, UpdateHolds
    <3>6. loggers'[call[c].logger].correlation = Corr(c) /\ loggers'[call[c].logger].parent = md.span
      BY <3>3, <3>5, WithHolds, NoFieldsHold
    <3>7. Said(loggers'[call[c].logger], md)
      BY <3>2, <3>3, <3>6 DEF Said
    <3>8. ids' \in Nat
      BY <3>2, CorrIsNew
    <3> QED
      BY <3>1, <3>2, <3>4, <3>5, <3>7, <3>8, GoesOnward
  <2>10. ASSUME NEW c \in Calls, SetProperty(c) PROVE TrailInv'
    <3>1. UNCHANGED <<chain, filter, loggers, call, lines, ids>> /\ bag' = [bag EXCEPT ![c] = @ \union {c}]
      BY <2>10 DEF SetProperty
    <3>2. DOMAIN bag' = Calls /\ \A d \in Calls : bag'[d] \subseteq {d}
      BY <3>1 DEF TrailInv
    <3> QED
      BY <3>1, <3>2, TrailRests DEF TrailInv
  <2>11. ASSUME NEW c \in Calls, Log(c) PROVE TrailInv'
    <3>1. PICK l : l = [of |-> c, fields |-> loggers[call[c].logger], bag |-> bag[c]]
      OBVIOUS
    <3>2. /\ call[c].at = "handling" /\ UNCHANGED <<chain, filter, loggers, call, bag, ids>>
          /\ lines' = lines \union {l}
      BY <2>11, <3>1 DEF Log
    <3>3. LineOK(l)
      BY <3>1, <3>2 DEF TrailInv, CallOK, OwnLogger, LineOK
    <3>4. \A m \in lines' : LineOK(m)
      BY <3>2, <3>3 DEF TrailInv
    <3> QED
      BY <3>2, <3>4, TrailRests DEF TrailInv
  <2>12. CASE UNCHANGED trailVars
    BY <2>12, TrailRests DEF trailVars, TrailInv
  <2> QED
    BY <2>1, <2>2, <2>3, <2>4, <2>5, <2>6, <2>7, <2>8, <2>9, <2>10, <2>11, <2>12 DEF TrailNext
<1> QED
  BY <1>1, <1>2, PTL DEF TrailSpec

\* For any number of calls beside each other, in every chain, without a filter
\* or with the framework's own and one more header: what is logged, answered
\* and passed on belongs to the call it names (withLoggerFields,
\* EnsureOutboundSpanTracing, WithAllowedMetadataHeader).
THEOREM TrailTheorem ==
  ASSUME Filters \subseteq {NilFilter, TenantFilter} PROVE TrailSpec => []TrailIsConnected
<1>1. TrailInv => TrailIsConnected
  <2> SUFFICES ASSUME TrailInv PROVE TrailIsConnected
    OBVIOUS
  <2>1. \A c \in Calls : call[c].at \notin {"idle", "filtering"} /\ ~filter.nil =>
          "x-other" \notin call[c].headers /\ ("x-tenant" \in call[c].headers => call[c].method = "A")
    BY DEF TrailInv, CallOK, Filtered
  <2>2. \A c \in Calls : call[c].header # None0 => call[c].header = call[c].md.correlation
    BY DEF TrailInv, CallOK
  <2>3. \A c \in Calls : \A u \in call[c].caller :
          /\ call[c].md.correlation = call[u].md.correlation
          /\ call[c].at = "correlating" => call[c].md.parent = call[u].md.span
    BY DEF TrailInv, CallOK, FromCaller
  <2> QED
    BY <2>1, <2>2, <2>3 DEF TrailInv, TrailIsConnected, LineOK, Said
<1> QED
  BY <1>1, TrailInvariant, PTL

-----------------------------------------------------------------------------
(* ServiceRoutes                                                           *)

\* A generated section is about the methods of its service, every one of them:
\* the routes and the scoped server leave none out.
LEMMA SectionsComplete ==
  ASSUME NEW s \in Services
  PROVE  DOMAIN pattern[s] = MethodsOf(s) /\ FluffyCoreServer[s] = MethodsOf(s)
<1>1. CASE s = "Greeter"
  BY <1>1 DEF Beside, pattern, FluffyCoreServer, MethodsOf, ServiceDesc, Desc, Greeter_ServiceDesc, pattern_Greeter, GreeterFluffyCoreServer
<1>2. CASE s = "Greeter2"
  BY <1>2 DEF Beside, pattern, FluffyCoreServer, MethodsOf, ServiceDesc, Desc, Greeter2_ServiceDesc, pattern_Greeter2, Greeter2FluffyCoreServer
<1>3. CASE s = "MyStreamService"
  BY <1>3 DEF Beside, pattern, FluffyCoreServer, MethodsOf, ServiceDesc, Desc, MyStreamService_ServiceDesc, pattern_MyStreamService, MyStreamServiceFluffyCoreServer
<1>4. CASE s = "SomeService"
  BY <1>4 DEF Beside, pattern, FluffyCoreServer, MethodsOf, ServiceDesc, Desc, SomeService_ServiceDesc, pattern_SomeService, SomeServiceFluffyCoreServer
<1>5. CASE s = "SomeService2"
  BY <1>5 DEF Beside, pattern, FluffyCoreServer, MethodsOf, ServiceDesc, Desc, SomeService2_ServiceDesc, pattern_SomeService2, SomeService2FluffyCoreServer
<1>6. CASE s \notin {"Greeter", "Greeter2", "MyStreamService", "SomeService", "SomeService2"}
  <2>1. s \in DOMAIN Drafts
    BY <1>6 DEF Beside, Services, ServiceDesc
  <2>2. /\ pattern[s] = pattern_Draft(Drafts[s])
        /\ FluffyCoreServer[s] = DOMAIN genServer(Drafts[s]).server
        /\ ServiceDesc[s] = Draft_ServiceDesc(Drafts[s])
    BY <1>6, <2>1 DEF Beside, pattern, FluffyCoreServer, ServiceDesc
  <2>3. DOMAIN pattern[s] = {m.name : m \in Drafts[s].methods} /\ FluffyCoreServer[s] = {m.name : m \in Drafts[s].methods}
    BY <2>2 DEF pattern_Draft, genServer, OnMethods
  <2>4. MethodsOf(s) = {m.name : m \in Drafts[s].methods}
    BY <2>2 DEF MethodsOf, Draft_ServiceDesc, Desc
  <2> QED
    BY <2>3, <2>4
<1> QED
  BY <1>1, <1>2, <1>3, <1>4, <1>5, <1>6

\* What is registered by when, and that no service is registered twice once it
\* is served.
RegisteredOnce(n) == \A i, j \in 1..n : added[i].service = added[j].service => i = j

LastOK ==
    last # NoCall =>
      LET r == last.result
          meant == <<last.service, last.method>>
          shared == last.via = "http" /\ SharesARoute(last.service, last.method)
      IN  /\ r.ran # <<>> =>
               /\ r.gate = <<ServiceDesc[r.ran[1]].ServiceName, r.ran[2]>>
               /\ r.ran[1] \in healthy
               /\ r.ran = meant \/ (shared /\ SharesARoute(r.ran[1], r.ran[2]))
          /\ Offered(last) /\ ~shared => r.ran = meant

RoutesInv ==
    /\ added \in Seq(Registrations)
    /\ grpcReg \in Nat /\ grpcReg <= Len(added)
    /\ gwReg \in Nat /\ gwReg <= Len(added)
    /\ natsReg \in Nat /\ natsReg <= Len(added)
    /\ phase = "building" => grpcReg = 0
    /\ RegisteredOnce(grpcReg)
    /\ phase = "serving" => grpcReg = Len(added) /\ healthy = Known(grpcReg)
    /\ phase # "serving" => last = NoCall
    /\ LastOK

\* The gRPC server runs the method of the full name it is called by and no
\* other, asks the gate about this one, and does run it if the application has
\* it: no two registrations are of one service, and none of another name.
LEMMA InvokeLemma ==
  ASSUME NamesApart, RoutesInv, phase = "serving", NEW s \in Services, NEW m
  PROVE  LET r == Invoke(FullMethodName(s, m))
         IN  /\ r.ran # <<>> =>
                  r.ran = <<s, m>> /\ r.gate = <<ServiceDesc[s].ServiceName, m>> /\ s \in healthy
             /\ (m \in MethodsOf(s) /\ \E i \in DOMAIN added : added[i].service = s /\ m \in added[i].overrides)
                  => r.ran = <<s, m>>
<1> DEFINE full == FullMethodName(s, m)
<1> DEFINE regs == {i \in DOMAIN added : ServiceDesc[added[i].service].ServiceName = full[1]}
<1> DEFINE n == CHOOSE i \in regs : TRUE
<1> DEFINE d == added[n]
<1>1. full[1] = ServiceDesc[s].ServiceName /\ full[2] = m /\ full = <<ServiceDesc[s].ServiceName, m>>
  BY DEF FullMethodName
<1>2. \A i \in DOMAIN added : added[i] \in Registrations /\ added[i].service \in Services
  BY RegistrationsAssumption DEF RoutesInv
<1>3. DOMAIN added = 1..Len(added) /\ grpcReg = Len(added) /\ healthy = Known(grpcReg)
  BY DEF RoutesInv
<1>4. regs = {i \in DOMAIN added : added[i].service = s}
  BY <1>1, <1>2 DEF NamesApart
<1>5. CASE regs = {}
  <2>1. Invoke(full) = Refused("Unimplemented")
    BY <1>5 DEF Invoke
  <2> QED
    BY <1>4, <1>5, <2>1 DEF Refused, Result
<1>6. CASE regs # {}
  <2>1. n \in regs
    BY <1>6
  <2> HIDE DEF n
  <2>2. n \in DOMAIN added /\ d.service = s
    BY <1>4, <2>1
  <2>3. \A i \in DOMAIN added : added[i].service = s => i = n
    BY <1>3, <2>2 DEF RoutesInv, RegisteredOnce
  <2>4. s \in healthy
    BY <1>3, <2>2 DEF Known
  <2>5. Invoke(full) = IF m \notin MethodsOf(s) THEN Refused("Unimplemented")
                       ELSE IF m \notin FluffyCoreServer[s] \intersect d.overrides
                         THEN Result("Unimplemented", full, <<>>)
                       ELSE Result("OK", full, <<s, m>>)
    BY <1>1, <1>6, <2>2 DEF Invoke, n
  <2>6. FluffyCoreServer[s] = MethodsOf(s)
    BY SectionsComplete
  <2>7. CASE m \in MethodsOf(s) /\ m \in d.overrides
    <3>1. Invoke(full) = [code |-> "OK", gate |-> full, ran |-> <<s, m>>]
      BY <2>5, <2>6, <2>7 DEF Result
    <3> QED
      BY <3>1, <1>1, <2>4
  <2>8. CASE ~(m \in MethodsOf(s) /\ m \in d.overrides)
    <3>1. Invoke(full).ran = <<>>
      BY <2>5, <2>6, <2>8 DEF Result, Refused
    <3>2. ~(m \in MethodsOf(s) /\ \E i \in DOMAIN added : added[i].service = s /\ m \in added[i].overrides)
      BY <2>3, <2>8
    <3> QED
      BY <3>1, <3>2
  <2> QED
    BY <2>7, <2>8
<1> QED
  BY <1>5, <1>6

\* The gateway hands a path on to the service registered last for it, and to a
\* method that has this path; another service has it only where it is shared.
LEMMA RoutedLemma ==
  ASSUME NamesApart, PathsApart, RoutesInv, phase = "serving", NEW s \in Services, NEW m \in MethodsOf(s)
  PROVE  LET r == Routed(pattern[s][m])
         IN  /\ r.ran # <<>> =>
                  /\ r.gate = <<ServiceDesc[r.ran[1]].ServiceName, r.ran[2]>> /\ r.ran[1] \in healthy
                  /\ r.ran = <<s, m>> \/ (SharesARoute(s, m) /\ SharesARoute(r.ran[1], r.ran[2]))
             /\ /\ ~SharesARoute(s, m) /\ gwReg = Len(added)
                /\ \E i \in DOMAIN added : added[i].service = s /\ m \in added[i].overrides /\ added[i].gateway
                => r.ran = <<s, m>>
<1> DEFINE path == pattern[s][m]
<1> DEFINE here == {i \in 1 .. gwReg : added[i].gateway /\
                      \E x \in DOMAIN pattern[added[i].service] : pattern[added[i].service][x] = path}
<1> DEFINE at == CHOOSE i \in here : \A j \in here : j <= i
<1> DEFINE t == added[at].service
<1> DEFINE n == CHOOSE x \in DOMAIN pattern[t] : pattern[t][x] = path
<1>1. /\ DOMAIN added = 1..Len(added) /\ gwReg \in Nat /\ Len(added) \in Nat /\ gwReg <= Len(added)
      /\ \A i \in DOMAIN added : added[i].service \in Services
  BY RegistrationsAssumption DEF RoutesInv
<1>2. CASE gwReg < Len(added)
  <2>1. Routed(path).ran = <<>>
    BY <1>2 DEF Routed, Refused, Result
  <2>2. gwReg # Len(added)
    <3>1. \A x, y \in Nat : x < y => x # y
      OBVIOUS
    <3> QED
      BY <1>1, <1>2, <3>1, Zenon
  <2> QED
    BY <2>1, <2>2, Zenon
<1>3. CASE gwReg = Len(added) /\ here = {}
  <2>1. Routed(path).ran = <<>>
    BY <1>3 DEF Routed, Refused, Result
  <2>2. ASSUME NEW i \in DOMAIN added, added[i].service = s, added[i].gateway PROVE FALSE
    <3>1. DOMAIN pattern[s] = MethodsOf(s)
      BY SectionsComplete
    <3>2. i \in here
      BY <1>1, <1>3, <2>2, <3>1
    <3> QED
      BY <1>3, <3>2
  <2> QED
    BY <2>1, <2>2
<1>4. CASE gwReg = Len(added) /\ here # {}
  <2>1. \E i \in here : \A j \in here : j <= i
    BY <1>1, <1>4, GreatestExists
  <2>2. at \in here
    BY <2>1
  <2>3. Routed(path) = Invoke(FullMethodName(t, n))
    <3>1. ~(gwReg < Len(added))
      BY <1>1, <1>4
    <3> QED
      BY <1>4, <3>1, Zenon DEF Routed
  <2> HIDE DEF at
  <2>4. t \in Services /\ n \in DOMAIN pattern[t] /\ pattern[t][n] = path
    BY <1>1, <2>2
  <2> HIDE DEF n
  <2>5. n \in MethodsOf(t) /\ m \in DOMAIN pattern[s]
    BY <2>4, SectionsComplete
  <2>6. <<t, n>> = <<s, m>> \/ (SharesARoute(s, m) /\ SharesARoute(t, n))
    BY <2>4, <2>5 DEF PathsApart
  <2> HIDE DEF t, here
  <2>7. PICK u, k : u = t /\ k = n
    OBVIOUS
  <2>8. LET r == Invoke(FullMethodName(u, k))
        IN  /\ r.ran # <<>> =>
                 r.ran = <<u, k>> /\ r.gate = <<ServiceDesc[u].ServiceName, k>> /\ u \in healthy
            /\ (k \in MethodsOf(u) /\ \E i \in DOMAIN added : added[i].service = u /\ k \in added[i].overrides)
                 => r.ran = <<u, k>>
    BY <2>4, <2>7, InvokeLemma
  <2>9. PICK r : r = Invoke(FullMethodName(u, k))
    OBVIOUS
  <2>10. r.ran # <<>> => r.ran[1] = u /\ r.ran[2] = k /\ r.ran = <<u, k>>
    BY <2>8, <2>9
  <2>11. Routed(path) = r
    BY <2>3, <2>7, <2>9
  <2>12. ASSUME ~SharesARoute(s, m), NEW i \in DOMAIN added, added[i].service = s, m \in added[i].overrides
         PROVE  r.ran = <<s, m>>
    <3>1. u = s /\ k = m
      BY <2>6, <2>7, <2>12
    <3> QED
      BY <2>8, <2>9, <2>12, <3>1
  <2>13. r.ran # <<>> =>
           /\ r.gate = <<ServiceDesc[r.ran[1]].ServiceName, r.ran[2]>> /\ r.ran[1] \in healthy
           /\ r.ran = <<s, m>> \/ (SharesARoute(s, m) /\ SharesARoute(r.ran[1], r.ran[2]))
    BY <2>6, <2>7, <2>8, <2>9, <2>10
  <2> QED
    <3>1. SUFFICES ASSUME NEW q, q = Routed(path)
          PROVE  /\ q.ran # <<>> =>
                      /\ q.gate = <<ServiceDesc[q.ran[1]].ServiceName, q.ran[2]>> /\ q.ran[1] \in healthy
                      /\ q.ran = <<s, m>> \/ (SharesARoute(s, m) /\ SharesARoute(q.ran[1], q.ran[2]))
                 /\ /\ ~SharesARoute(s, m) /\ gwReg = Len(added)
                    /\ \E i \in DOMAIN added : added[i].service = s /\ m \in added[i].overrides /\ added[i].gateway
                    => q.ran = <<s, m>>
      BY Zenon
    <3>2. q = r
      BY <2>11, <3>1
    <3> QED
      BY <3>2, <2>12, <2>13, Zenon
<1>5. \A x, y \in Nat : x <= y => x < y \/ x = y
  OBVIOUS
<1>6. gwReg < Len(added) \/ gwReg = Len(added)
  BY <1>1, <1>5, Zenon
<1> QED
  BY <1>2, <1>3, <1>4, <1>6, Zenon

\* A NATS request reaches an endpoint that covers its subject, and only the
\* endpoint of the same method does.
LEMMA RequestedLemma ==
  ASSUME NamesApart, SubjectsApart, RoutesInv, phase = "serving", NEW s \in Services, NEW m \in MethodsOf(s),
         s \in DOMAIN NATSMicro, m \in DOMAIN NATSMicro[s].client
  PROVE  LET r == Requested(s, m)
         IN  /\ r.ran # <<>> =>
                  r.ran = <<s, m>> /\ r.gate = <<ServiceDesc[s].ServiceName, m>> /\ s \in healthy
             /\ /\ m \in ServiceDesc[s].Methods
                /\ \E i \in DOMAIN added :
                      added[i].service = s /\ m \in added[i].overrides /\ i <= natsReg /\ added[i].nats
                => r.ran = <<s, m>>
<1> DEFINE here == {i \in 1 .. natsReg : added[i].nats}
<1> DEFINE endpoints == {x \in here \X MethodsAnywhere :
                           /\ x[2] \in DOMAIN NATSMicro[added[x[1]].service].endpoints
                           /\ Covers(ListensTo(added[x[1]].service, x[2]), SentTo(s, m))}
<1> DEFINE to == CHOOSE x \in endpoints : TRUE
<1>1. /\ DOMAIN added = 1..Len(added) /\ natsReg \in Nat /\ Len(added) \in Nat /\ natsReg <= Len(added)
      /\ \A i \in DOMAIN added : added[i].nats => added[i].service \in DOMAIN NATSMicro
  BY RegistrationsAssumption DEF RoutesInv
<1>2. m \in MethodsAnywhere
  BY DEF MethodsAnywhere
<1>3. ASSUME m \in ServiceDesc[s].Methods, NEW i \in DOMAIN added, added[i].service = s, i <= natsReg, added[i].nats
      PROVE  SentTo(s, m) # NoSubject /\ endpoints # {}
  <2>1. m \in DOMAIN NATSMicro[s].endpoints /\ Covers(ListensTo(s, m), SentTo(s, m)) /\ SentTo(s, m) # NoSubject
    BY <1>3 DEF SubjectsApart
  <2>2. i \in here
    BY <1>1, <1>3
  <2>3. <<i, m>> \in endpoints
    BY <1>2, <1>3, <2>1, <2>2
  <2> QED
    BY <2>1, <2>3
<1>4. CASE SentTo(s, m) = NoSubject \/ endpoints = {}
  <2>1. Requested(s, m).ran = <<>>
    BY <1>4 DEF Requested, Refused, Result
  <2> QED
    BY <1>3, <1>4, <2>1
<1>5. CASE SentTo(s, m) # NoSubject /\ endpoints # {}
  <2>1. Requested(s, m) = Invoke(FullMethodName(added[to[1]].service, to[2]))
    BY <1>5 DEF Requested
  <2>2. to \in endpoints
    BY <1>5
  <2> HIDE DEF to
  <2>3. /\ added[to[1]].service \in DOMAIN NATSMicro
        /\ to[2] \in DOMAIN NATSMicro[added[to[1]].service].endpoints
        /\ Covers(ListensTo(added[to[1]].service, to[2]), SentTo(s, m))
    BY <1>1, <2>2
  <2>4. added[to[1]].service = s /\ to[2] = m
    BY <2>3 DEF SubjectsApart
  <2>5. Requested(s, m) = Invoke(FullMethodName(s, m))
    BY <2>1, <2>4
  <2> QED
    BY <2>5, InvokeLemma
<1> QED
  BY <1>4, <1>5

LEMMA RoutesInvInit == RoutesInit => RoutesInv
  BY DEF RoutesInit, RoutesInv, RegisteredOnce, LastOK, Known

\* A call is answered by what the three lemmas say of its transport.
LEMMA CallStep ==
  ASSUME SectionsApart, RoutesInv, NEW s \in Services, NEW m \in MethodsOf(s),
         \/ Call("grpc", s, m) \/ Call("http", s, m)
         \/ s \in DOMAIN NATSMicro /\ m \in DOMAIN NATSMicro[s].client /\ Call("nats", s, m)
  PROVE  LastOK'
<1> USE DEF SectionsApart
<1>1. phase = "serving" /\ UNCHANGED <<added, phase, grpcReg, gwReg, natsReg, healthy>>
  BY DEF Call
<1>3. CASE Call("grpc", s, m)
  <2>1. PICK r : r = Invoke(FullMethodName(s, m))
    OBVIOUS
  <2>2. last' = [via |-> "grpc", service |-> s, method |-> m, result |-> r]
    BY <1>3, <2>1 DEF Call
  <2>3. /\ r.ran # <<>> => r.ran = <<s, m>> /\ r.gate = <<ServiceDesc[s].ServiceName, m>> /\ s \in healthy
        /\ (\E i \in DOMAIN added : added[i].service = s /\ m \in added[i].overrides) => r.ran = <<s, m>>
    BY <1>1, <2>1, InvokeLemma
  <2>4. Offered(last)' => r.ran = <<s, m>>
    BY <1>1, <2>2, <2>3 DEF Offered
  <2> QED
    BY <1>1, <2>2, <2>3, <2>4 DEF LastOK
<1>4. CASE Call("http", s, m)
  <2>1. PICK r : r = Routed(pattern[s][m])
    OBVIOUS
  <2>2. last' = [via |-> "http", service |-> s, method |-> m, result |-> r]
    BY <1>4, <2>1 DEF Call
  <2>3. /\ r.ran # <<>> =>
             /\ r.gate = <<ServiceDesc[r.ran[1]].ServiceName, r.ran[2]>> /\ r.ran[1] \in healthy
             /\ r.ran = <<s, m>> \/ (SharesARoute(s, m) /\ SharesARoute(r.ran[1], r.ran[2]))
        /\ /\ ~SharesARoute(s, m) /\ gwReg = Len(added)
           /\ \E i \in DOMAIN added : added[i].service = s /\ m \in added[i].overrides /\ added[i].gateway
           => r.ran = <<s, m>>
    BY <1>1, <2>1, RoutedLemma
  <2>4. Offered(last)' /\ ~SharesARoute(s, m) => r.ran = <<s, m>>
    BY <1>1, <2>2, <2>3 DEF Offered
  <2>5. SharesARoute(last.service, last.method)' <=> SharesARoute(s, m)
    BY <2>2 DEF SharesARoute
  <2> QED
    BY <1>1, <2>2, <2>3, <2>4, <2>5 DEF LastOK
<1>5. CASE s \in DOMAIN NATSMicro /\ m \in DOMAIN NATSMicro[s].client /\ Call("nats", s, m)
  <2>1. PICK r : r = Requested(s, m)
    OBVIOUS
  <2>2. last' = [via |-> "nats", service |-> s, method |-> m, result |-> r]
    BY <1>5, <2>1 DEF Call
  <2>3. /\ r.ran # <<>> => r.ran = <<s, m>> /\ r.gate = <<ServiceDesc[s].ServiceName, m>> /\ s \in healthy
        /\ /\ m \in ServiceDesc[s].Methods
           /\ \E i \in DOMAIN added :
                 added[i].service = s /\ m \in added[i].overrides /\ i <= natsReg /\ added[i].nats
           => r.ran = <<s, m>>
    BY <1>1, <1>5, <2>1, RequestedLemma
  <2>4. Offered(last)' => r.ran = <<s, m>>
    BY <1>1, <2>2, <2>3 DEF Offered
  <2> QED
    BY <1>1, <2>2, <2>3, <2>4 DEF LastOK
<1> QED
  BY <1>3, <1>4, <1>5

LEMMA RoutesInvStep ==
  ASSUME SectionsApart, RoutesInv, [RoutesNext]_routeVars
  PROVE  RoutesInv'
<1>1. ASSUME NEW r \in Registrations, AddServerWithExternalRegistration(r) PROVE RoutesInv'
  BY <1>1 DEF RoutesInv, AddServerWithExternalRegistration, RegisteredOnce, LastOK
<1>2. CASE BuildContainer
  BY <1>2 DEF RoutesInv, BuildContainer, RegisteredOnce, LastOK
<1>3. CASE RegisterFluffyCoreGRPCService
  <2>1. RegisteredOnce(grpcReg)'
    BY <1>3 DEF RoutesInv, RegisterFluffyCoreGRPCService, RegisteredOnce, Known
  <2> QED
    BY <1>3, <2>1 DEF RoutesInv, RegisterFluffyCoreGRPCService, LastOK
<1>4. CASE StartServing
  BY <1>4 DEF RoutesInv, StartServing, RegisteredOnce, LastOK, Known
<1>5. CASE RegisterFluffyCoreHandler
  BY <1>5 DEF RoutesInv, RegisterFluffyCoreHandler, RegisteredOnce, LastOK, Known
<1>6. CASE RegisterFluffyCoreNATSHandler
  BY <1>6 DEF RoutesInv, RegisterFluffyCoreNATSHandler, RegisteredOnce, LastOK, Known
<1>7. ASSUME NEW s \in Services, NEW m \in MethodsOf(s),
             \/ Call("grpc", s, m) \/ Call("http", s, m)
             \/ s \in DOMAIN NATSMicro /\ m \in DOMAIN NATSMicro[s].client /\ Call("nats", s, m)
      PROVE  RoutesInv'
  <2>1. LastOK'
    BY <1>7, CallStep
  <2>2. phase = "serving" /\ UNCHANGED <<added, phase, grpcReg, gwReg, natsReg, healthy>>
    BY <1>7 DEF Call
  <2> QED
    BY <2>1, <2>2 DEF RoutesInv, RegisteredOnce, Known
<1>8. CASE Answered
  BY <1>8 DEF RoutesInv, Answered, RegisteredOnce, LastOK, Known
<1>9. CASE UNCHANGED routeVars
  <2>1. LastOK'
    BY <1>9 DEF routeVars, RoutesInv, LastOK, Offered
  <2> QED
    BY <1>9, <2>1 DEF routeVars, RoutesInv, RegisteredOnce, Known
<1> QED
  BY <1>1, <1>2, <1>3, <1>4, <1>5, <1>6, <1>7, <1>8, <1>9 DEF RoutesNext

\* RunsWhatWasCalled for any services whose sections are apart, any of them put
\* together in any order and any number: a call by any transport runs the method
\* it names, wherever some registration offers it, and no other.
THEOREM RoutesTheorem ==
  CheckedInIsGenerated /\ SectionsApart => (RoutesSpec => []RunsWhatWasCalled)
<1> SUFFICES ASSUME CheckedInIsGenerated /\ SectionsApart PROVE RoutesSpec => []RunsWhatWasCalled
  OBVIOUS
<1>1. RoutesInit => RoutesInv
  BY RoutesInvInit
<1>2. RoutesInv /\ [RoutesNext]_routeVars => RoutesInv'
  BY RoutesInvStep
<1>3. RoutesInv => RunsWhatWasCalled
  BY DEF RoutesInv, LastOK, RunsWhatWasCalled
<1> QED
  BY <1>1, <1>2, <1>3, PTL DEF RoutesSpec
=============================================================================
