----------------------------- MODULE MCServices -----------------------------
(***************************************************************************)
(* Small instances of the services that have no state in common, checked   *)
(* side by side: in a behaviour one of them runs and the others rest.      *)
(***************************************************************************)
EXTENDS MemoryCache, PointStreams, GrpcClients, TaskScheduler, JwksRefreshGate

VARIABLE service     \* the one that runs

allVars == <<service, vars, streamVars, clientVars, taskVars, gateVars>>

ServicesInit ==
    /\ service \in {"cache", "streams", "clients", "tasks", "keys"}
    /\ Init /\ StreamInit /\ ClientInit /\ TaskInit
    /\ service # "clients" => Accessors = CHOOSE p \in Programs : TRUE
    /\ GateInit /\ (service # "keys" => up)

CacheRuns == service = "cache" /\ UNCHANGED <<service, streamVars, clientVars, taskVars, gateVars>>
StreamsRun == service = "streams" /\ UNCHANGED <<service, vars, clientVars, taskVars, gateVars>>
ClientsRun == service = "clients" /\ UNCHANGED <<service, vars, streamVars, taskVars, gateVars>>
TasksRun == service = "tasks" /\ UNCHANGED <<service, vars, streamVars, clientVars, gateVars>>
KeysRun == service = "keys" /\ UNCHANGED <<service, vars, streamVars, clientVars, taskVars>>

ServicesNext ==
    \/ CacheRuns /\ Next
    \/ StreamsRun /\ StreamNext
    \/ ClientsRun /\ ClientNext
    \/ TasksRun /\ TaskNext
    \/ KeysRun /\ GateNext

\* The fairness of each service's own specification.
ServicesSpec ==
    /\ ServicesInit /\ [][ServicesNext]_allVars
    /\ \A c \in Callers : WF_allVars(CacheRuns /\ Progress(c))
    /\ \A c \in Streamers : WF_allVars(StreamsRun /\ StreamServes(c))
    /\ \A c \in Validators : /\ SF_allVars(KeysRun /\ Step(c))
                             /\ SF_allVars(KeysRun /\ KeySetForKid(c, NewKid))
    /\ WF_allVars(KeysRun /\ GateTick)
    /\ WF_allVars(KeysRun /\ Recover)

\* Programs that use two services each, every service in one of them.
SomePrograms ==
    {{AppGreeterClientAccessor, AppSomeServiceClientAccessor},
     {AppGreeter2ClientAccessor, AppMyStreamServiceClientAccessor},
     {AppSomeServiceClientAccessor, AppSomeService2ClientAccessor}}

Option(kind, on) == [kind |-> kind, on |-> on]

\* Every list of up to two options that differ in kind or value.
TwoOptions ==
    LET O == {Option(k, on) : k \in {"WithInsecure", "WithSidecarSecured", "WithCertBundle", "WithTokenSource"},
                              on \in BOOLEAN}
             \union {Option("WithClientCert", TRUE), Option("WithOTELTracer", FALSE),
                     Option("WithDataDogTracer", TRUE)}
    IN  {<<>>} \union {<<a>> : a \in O} \union {<<a, b>> : a, b \in O}
=============================================================================
