------------------------------ MODULE Telemetry ------------------------------
(***************************************************************************)
(* runtime/otel: the OTELContainer and the hooks by which a server sets it *)
(* up, starts it and, once it has drained, flushes and stops it.  Spans    *)
(* wait in the tracer's batcher and measurements for the next collection;  *)
(* what is not exported when the providers shut down is gone.              *)
(***************************************************************************)
EXTENDS Naturals, FiniteSets

CONSTANTS Spans      \* calls, with a span each

VARIABLES otelConfig,  \* OTELConfig
          otelPhase,   \* where the server is
          container,   \* the OTELContainer: its providers and its exporter
          measuring,   \* the instrumentations that were started
          span,        \* per call: where its span is
          measured,    \* there are measurements no collection has taken
          unsent       \* a collection or a batch the collector did not take

otelVars == <<otelConfig, otelPhase, container, measuring, span, measured, unsent>>

EndpointTypes == {"stdout", "http", "grpc"}
NoConfig == [nil |-> TRUE]
OTELConfigs ==
    {NoConfig} \union
    [nil : {FALSE}, tracing : EndpointTypes \union {"off", "other"}, metrics : EndpointTypes \union {"off", "other"},
     runtimeEnabled : BOOLEAN, hostEnabled : BOOLEAN]

\* nil, or a provider that is up or was shut down.
NewOTELContainer == [TracerProvider |-> "nil", MetricExporter |-> "nil", MeterProvider |-> "nil"]

OTELInit ==
    /\ otelConfig \in OTELConfigs /\ otelPhase = "boot" /\ container = NewOTELContainer
    /\ measuring = {} /\ span = [s \in Spans |-> "none"] /\ measured = FALSE /\ unsent = FALSE

-----------------------------------------------------------------------------
(* Setting up.  An exporter may fail to be made.                           *)

WantsMetrics(c) == ~c.nil /\ c.metrics # "off" /\ (c.runtimeEnabled \/ c.hostEnabled)
WantsTraces(c) == ~c.nil /\ c.tracing # "off"

InitOTELTraceProvider(c, made) ==
    IF WantsTraces(otelConfig) /\ made /\ otelConfig.tracing \in EndpointTypes
    THEN [c EXCEPT !.TracerProvider = "up"] ELSE c

InitMeterProvider(c, made) ==
    IF WantsMetrics(otelConfig) /\ made /\ otelConfig.metrics \in EndpointTypes
    THEN [c EXCEPT !.MetricExporter = "up", !.MeterProvider = "up"] ELSE c

\* OTELContainer.Init: without the traces that were asked for the meters are
\* not set up.
InitContainer(made) ==
    LET traced == InitOTELTraceProvider(container, "trace" \in made)
    IN  IF WantsTraces(otelConfig) /\ traced.TracerProvider = "nil" THEN traced
        ELSE InitMeterProvider(traced, "meter" \in made)

\* ConfigureServerOpts goes on whatever Init says.
ConfigureServerOpts(made) ==
    /\ otelPhase = "boot" /\ otelPhase' = "configured"
    /\ container' = InitContainer(made)
    /\ UNCHANGED <<otelConfig, measuring, span, measured, unsent>>

StartRuntimeMetric == IF WantsMetrics(otelConfig) /\ otelConfig.runtimeEnabled THEN {"runtime"} ELSE {}
StartHostMetric == IF WantsMetrics(otelConfig) /\ otelConfig.hostEnabled THEN {"host"} ELSE {}

\* OnPreServerStartup: the instrumentations are started; given a provider that
\* was never set up they fail, or the process does.
OnPreServerStartup ==
    /\ otelPhase = "configured"
    /\ IF StartRuntimeMetric \union StartHostMetric # {} /\ container.MeterProvider = "nil"
       THEN otelPhase' \in {"serving", "crashed"} /\ UNCHANGED measuring
       ELSE otelPhase' = "serving" /\ measuring' = StartRuntimeMetric \union StartHostMetric
    /\ UNCHANGED <<otelConfig, container, span, measured, unsent>>

-----------------------------------------------------------------------------
(* Serving.                                                                *)

Working == otelPhase \in {"serving", "draining"}

StartSpan(s) ==
    /\ otelPhase = "serving" /\ span[s] = "none"
    /\ span' = [span EXCEPT ![s] = "open"]
    /\ UNCHANGED <<otelConfig, otelPhase, container, measuring, measured, unsent>>

\* A span that ends after the tracer was shut down reaches nobody.
EndSpan(s) ==
    /\ Working /\ span[s] = "open"
    /\ span' = [span EXCEPT ![s] = IF container.TracerProvider = "up" THEN "batched" ELSE "dropped"]
    /\ UNCHANGED <<otelConfig, otelPhase, container, measuring, measured, unsent>>

Measure ==
    /\ Working /\ measuring # {} /\ ~measured /\ measured' = TRUE
    /\ UNCHANGED <<otelConfig, otelPhase, container, measuring, span, unsent>>

\* Whether the collector takes it or not, a batch is sent once.
Exported(s, ok) == IF span[s] = "batched" THEN (IF ok THEN "exported" ELSE "unsent") ELSE span[s]

SendBatch(ok) ==
    /\ Working /\ container.TracerProvider = "up" /\ \E s \in Spans : span[s] = "batched"
    /\ span' = [s \in Spans |-> Exported(s, ok)]
    /\ UNCHANGED <<otelConfig, otelPhase, container, measuring, measured, unsent>>

Collect(ok) ==
    /\ Working /\ container.MeterProvider = "up" /\ measured
    /\ measured' = FALSE /\ unsent' = ~ok
    /\ UNCHANGED <<otelConfig, otelPhase, container, measuring, span>>

-----------------------------------------------------------------------------
(* Shutting down.                                                          *)

\* OTELContainer.Stop: the tracer sends what is batched, the meter collects
\* once more before its exporter goes.
Stop(ok) ==
    /\ IF container.TracerProvider = "up" THEN span' = [s \in Spans |-> Exported(s, ok)] ELSE UNCHANGED span
    /\ IF container.MeterProvider = "up" THEN measured' = FALSE /\ unsent' = ~ok ELSE UNCHANGED <<measured, unsent>>
    /\ container' = [p \in DOMAIN container |-> IF container[p] = "nil" THEN "nil" ELSE "down"]
    /\ UNCHANGED <<otelConfig, measuring>>

\* Mutant: OTEL is stopped before the server drains.
OnPreServerShutdownStops ==
    /\ otelPhase = "serving" /\ otelPhase' = "draining"
    /\ Stop(TRUE)

OnPreServerShutdown ==
    /\ otelPhase = "serving" /\ otelPhase' = "draining"
    /\ UNCHANGED <<otelConfig, container, measuring, span, measured, unsent>>

\* Called when the server has drained (RuntimeLifecycle).
OnPostServerShutdown(ok) ==
    /\ otelPhase = "draining" /\ \A s \in Spans : span[s] # "open"
    /\ otelPhase' = "stopped" /\ Stop(ok)

OTELNext ==
    \/ \E made \in SUBSET {"trace", "meter"} : ConfigureServerOpts(made)
    \/ OnPreServerStartup \/ OnPreServerShutdown
    \/ \E s \in Spans : StartSpan(s) \/ EndSpan(s)
    \/ Measure
    \/ \E ok \in BOOLEAN : SendBatch(ok) \/ Collect(ok) \/ OnPostServerShutdown(ok)

OTELSpec == OTELInit /\ [][OTELNext]_otelVars

-----------------------------------------------------------------------------
\* Once the server is down every span that ended with a tracer there, during
\* the drain too, and every measurement was offered to the collector ("spans and
\* metrics from in-flight requests were dropped", "the last interval's metrics
\* were never sent"); what is measured has a provider to go to ("a host-only
\* config got no MeterProvider").
NothingIsLeftBehind ==
    /\ container.TracerProvider # "nil" => \A s \in Spans : span[s] # "dropped"
    /\ otelPhase = "stopped" => ~measured /\ \A s \in Spans : span[s] # "batched"
    /\ measuring # {} => container.MeterProvider # "nil"
=============================================================================
