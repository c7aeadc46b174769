------------------------------- MODULE MCWeb --------------------------------
(***************************************************************************)
(* Small instances of the server's edges: the service routes, the web      *)
(* server with its sessions, cookies and handlers, the TLS files, the      *)
(* request trail, the telemetry and the admin servers.  They have no state *)
(* in common and are checked side by side: in a behaviour one runs and the *)
(* others rest.                                                            *)
(***************************************************************************)
EXTENDS ServiceRoutes, EchoSessions, EchoCookies, EchoRuntime, ServerTLS, RequestTrail, Telemetry, AdminServers

CONSTANT Parts       \* which of them a run checks

VARIABLE part        \* the one that runs

webVars == <<part, routeVars, sessionVars, cookieVars, echoVars, tlsVars, trailVars, otelVars, adminVars>>

\* Where a part only rests, one of its initial states is enough.
WebInit ==
    /\ part \in Parts
    /\ RoutesInit
    /\ SessionInit /\ (part # "sessions" => store = CHOOSE s \in Stores : TRUE)
    /\ CookieInit /\ (part # "cookies" => sealing = "secure")
    /\ EchoInit /\ (part # "echo" => handlers = <<>>)
    /\ TLSInit /\ (part # "settings" => config = CertsDir)
    /\ TrailInit /\ (part # "trail" => chain = "echo")
    /\ OTELInit /\ (part # "telemetry" => otelConfig = NoConfig)
    /\ AdminInit /\ (part # "admin" => adminEnv = PlainEnvironment)

RoutesRun == part = "routes" /\ UNCHANGED <<part, sessionVars, cookieVars, echoVars, tlsVars, trailVars, otelVars, adminVars>>
SessionsRun == part = "sessions" /\ UNCHANGED <<part, routeVars, cookieVars, echoVars, tlsVars, trailVars, otelVars, adminVars>>
CookiesRun == part = "cookies" /\ UNCHANGED <<part, routeVars, sessionVars, echoVars, tlsVars, trailVars, otelVars, adminVars>>
EchoRuns == part = "echo" /\ UNCHANGED <<part, routeVars, sessionVars, cookieVars, tlsVars, trailVars, otelVars, adminVars>>
TLSRuns == part = "tls" /\ UNCHANGED <<part, routeVars, sessionVars, cookieVars, echoVars, trailVars, otelVars, adminVars>>
SettingsRun == part = "settings" /\ UNCHANGED <<part, routeVars, sessionVars, cookieVars, echoVars, trailVars, otelVars, adminVars>>
TrailRuns == part = "trail" /\ UNCHANGED <<part, routeVars, sessionVars, cookieVars, echoVars, tlsVars, otelVars, adminVars>>
TelemetryRuns == part = "telemetry" /\ UNCHANGED <<part, routeVars, sessionVars, cookieVars, echoVars, tlsVars, trailVars, adminVars>>
AdminRuns == part = "admin" /\ UNCHANGED <<part, routeVars, sessionVars, cookieVars, echoVars, tlsVars, trailVars, otelVars>>

\* "settings" checks what every configuration comes to, "tls" the handshakes of
\* the one that uses all three files.
WebNext ==
    \/ RoutesRun /\ RoutesNext
    \/ SessionsRun /\ SessionNext
    \/ CookiesRun /\ CookieNext
    \/ EchoRuns /\ EchoNext
    \/ TLSRuns /\ TLSNext
    \/ SettingsRun /\ BuildServerTLSConfig
    \/ TrailRuns /\ TrailNext
    \/ TelemetryRuns /\ OTELNext
    \/ AdminRuns /\ AdminNext

WebSpec == WebInit /\ [][WebNext]_webVars

-----------------------------------------------------------------------------
\* A service with methods of every kind and a namespace of two parts, one that
\* NATS is told to leave alone, and one with an ignored method.
SomeDrafts ==
    [Pets |-> Described("pets", "Pets", <<<<"nats", "namespace", "zoo", "roger">>>>, {},
       {Rpc("Feed", "unary", Rule(<<"*", "now">>, <<"${orgId}", "now">>), <<"v1", "pets", "feed">>),
        Rpc("Watch", "server stream", NoRule, <<"v1", "pets", "watch">>),
        Rpc("Herd", "client stream", NoRule, <<"v1", "pets", "herd">>),
        Rpc("Talk", "both", NoRule, <<"v1", "pets", "talk">>)}),
     Notes |-> Described("pets", "Notes", <<>>, {<<"nats", "ignore">>},
       {Rpc("Feed", "unary", NoRule, <<"v1", "notes", "feed">>)}),
     Half |-> Described("pets", "Half", <<>>, {},
       {Rpc("Feed", "unary", NoRule, <<"v1", "half", "feed">>),
        [Rpc("Rest", "unary", NoRule, <<"v1", "half", "rest">>) EXCEPT !.tags = {<<"nats", "ignore">>}]})]

\* Every service with all its methods, one with none, with and without gateway
\* and NATS where that makes a difference.
SomeRegistrations ==
    {Registration(s, MethodsOf(s), TRUE, s \in DOMAIN NATSMicro) :
       s \in {x \in Services : x \in DOMAIN Drafts => Compiles(Drafts[x])}}
    \union {Registration("SomeService", {}, TRUE, FALSE), AddGreeterService(TRUE), AddMyStreamService}

\* What RoutesTheorem asks of the sections.
ASSUME MCSections == SectionsApart

\* Cookies of a browser session, and ones that last.
AllStores == [kind : Kinds, age : {0}] \union {[kind |-> "cookie", age |-> 2]}

TwoFilters == {NilFilter, TenantFilter}

\* Every setting of the admin servers; kinds of profiles without them.
SomeEnvironments ==
    {e \in Environments : e.GO_PROFILING = "cpu;dir" \/ {e.CONTROL_PORT, e.PPROF_PORT} = {""}}

OneOf(id) == {Handler(id, p, vs) : p \in Spellings, vs \in {{"GET"}, {"GET", "POST"}}}
TwoHandlers ==
    {<<>>} \union {<<a>> : a \in OneOf("h1")} \union {<<a, b>> : a \in OneOf("h1"), b \in OneOf("h2")}
=============================================================================
