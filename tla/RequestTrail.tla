---------------------------- MODULE RequestTrail ----------------------------
(***************************************************************************)
(* The trail a request leaves: the correlation, span and parent ids in its *)
(* metadata, in the lines it logs, in the answer's header and in the calls *)
(* it makes.  Loggers are objects; whoever updates one in place updates it *)
(* for everybody who holds it.  Requests run side by side, past a metadata *)
(* filter if the server has one.                                           *)
(***************************************************************************)
EXTENDS Naturals, Sequences, FiniteSets

CONSTANTS Calls,     \* calls at work at once
          Chains,    \* the middleware they pass through
          Filters,   \* the metadata filters a server may have
          MaxTrailIDs     \* bound: ids drawn

AllChains == {"correlation", "otelCorrelation", "openTelemetry", "echo", "echoCorrelation"}
OfEcho == {"echo", "echoCorrelation"}

ASSUME TrailAssumption == MaxTrailIDs \in Nat /\ Chains \subseteq AllChains

VARIABLES chain,     \* the chain of this server
          filter,    \* and its metadata filter
          loggers,   \* the logger objects; the first is the global one
          call,      \* per call: where it is, its metadata, logger and answer
          bag,       \* per call: the property bag of its scope
          lines,     \* what was logged: the call and what the line carries
          ids        \* ids drawn so far

trailVars == <<chain, filter, loggers, call, bag, lines, ids>>

None0 == 0
Fields(correlation, span, parent) == [correlation |-> correlation, span |-> span, parent |-> parent]
NoFields == Fields(None0, None0, None0)
Global == 1
NoLogger == 0
Called(at, method, headers, md, logger, header, caller) ==
    [at |-> at, method |-> method, headers |-> headers, md |-> md, logger |-> logger, header |-> header, caller |-> caller]
Waiting == Called("idle", "A", {}, NoFields, NoLogger, None0, {})

-----------------------------------------------------------------------------
(* The metadata filter.                                                    *)

\* StringSet: what was added, once.
StringSetAdd(set, items) == set \union {items[i] : i \in DOMAIN items}
NewStringSet(items) == StringSetAdd({}, items)
StringSetContains(set, items) == \A i \in DOMAIN items : items[i] \in set

MetaDataFilter ==
    <<":authority", "authorization", "content-type", "user-agent", "grpc-accept-encoding", "accept-encoding",
      "x-correlation-id", "correlation_id", "x-span", "span", "x-parent", "parent", "x-request-id">>

LowerCase(header) == IF header = "X-Tenant" THEN "x-tenant" ELSE header

\* The builder keeps names in lower case, as they come over the wire.
WithAllowedMetadataHeader(allowed, method, headers) ==
    LET lower == [i \in DOMAIN headers |-> LowerCase(headers[i])]
        old == IF method \in DOMAIN allowed THEN allowed[method] ELSE NewStringSet(<<>>)
    IN  [m \in DOMAIN allowed \union {method} |-> IF m = method THEN StringSetAdd(old, lower) ELSE allowed[m]]

NilFilter == [nil |-> TRUE]
MetadataFilter(allowedGlobal, allowedByEntryPoint) ==
    [nil |-> FALSE, global |-> allowedGlobal, byEntryPoint |-> allowedByEntryPoint]

\* The headers of this framework for every method, and for "A" one more, which
\* the application spelled its way.
TenantFilter ==
    MetadataFilter(NewStringSet(MetaDataFilter), WithAllowedMetadataHeader(<<>>, "A", <<"X-Tenant">>))

Passes(f, method, header) ==
    \/ StringSetContains(f.global, <<header>>)
    \/ method \in DOMAIN f.byEntryPoint /\ StringSetContains(f.byEntryPoint[method], <<LowerCase(header)>>)

\* The header of each id.
HeaderOf == [correlation |-> "x-correlation-id", span |-> "x-span", parent |-> "x-parent"]

TrailInit ==
    /\ chain \in Chains
    /\ filter \in IF chain \in OfEcho THEN {NilFilter} ELSE Filters
    /\ loggers = <<NoFields>>
    /\ call = [c \in Calls |-> Waiting]
    /\ bag = [c \in Calls |-> {}]
    /\ lines = {} /\ ids = 0

-----------------------------------------------------------------------------
(* Loggers.                                                                *)

\* The fields that are given are added; the others stay.
With(fields, given) ==
    LET Given(f) == IF given[f] # None0 THEN given[f] ELSE fields[f]
    IN  Fields(Given("correlation"), Given("span"), Given("parent"))

\* baseLogger: the logger on the context, or the global one.
baseLogger(c) == IF call[c].logger = NoLogger THEN Global ELSE call[c].logger

\* What becomes of the logger objects, and which one is on the context.
Child(c, given) ==
    [loggers |-> Append(loggers, With(loggers[baseLogger(c)], given)), logger |-> Len(loggers) + 1]

\* UpdateContext works in place; on a context without a logger it is lost.
UpdateContext(c, given) ==
    [loggers |-> IF call[c].logger = NoLogger THEN loggers
                 ELSE [loggers EXCEPT ![call[c].logger] = With(@, given)],
     logger |-> call[c].logger]

\* Mutant: the base logger is updated in place.
withLoggerFieldsInPlace(c, given) ==
    [loggers |-> [loggers EXCEPT ![baseLogger(c)] = With(@, given)], logger |-> baseLogger(c)]

\* A child of the base logger.
withLoggerFields(c, given) == Child(c, given)

-----------------------------------------------------------------------------
(* Middleware.                                                             *)

\* A call comes in with what its caller sent.
Accept(c, method, headers, md, caller) ==
    /\ call[c].at = "idle"
    /\ call' = [call EXCEPT ![c] = Called(IF chain \in OfEcho THEN "logging" ELSE "filtering",
                                          method, headers, md, NoLogger, None0, caller)]
    /\ UNCHANGED <<chain, filter, loggers, bag, lines>>

\* Anything may come with it, a header the service is not meant to see too.
Come(c, method, n) ==
    /\ ids + n <= MaxTrailIDs /\ ids' = ids + n
    /\ Accept(c, method, {"authorization", "x-tenant", "x-other"},
              Fields(IF n = 0 THEN None0 ELSE ids + 1, IF n = 2 THEN ids + 2 ELSE None0, None0), {})

\* metadataFilterMiddleware.GetUnaryServerInterceptor: what passes neither for
\* all methods nor for this one is dropped.
FilterMetadata(c) ==
    /\ call[c].at = "filtering"
    /\ LET old == call[c]
           Seen(f) == IF filter.nil \/ Passes(filter, old.method, HeaderOf[f]) THEN old.md[f] ELSE None0
       IN  call' = [call EXCEPT ![c] =
             Called("correlating", old.method, {h \in old.headers : filter.nil \/ Passes(filter, old.method, h)},
                    Fields(Seen("correlation"), Seen("span"), Seen("parent")), old.logger, old.header, old.caller)]
    /\ UNCHANGED <<chain, filter, loggers, bag, lines, ids>>

\* The call goes on to the next of its chain.
Onward(c, at, md, logger, header) ==
    call' = [call EXCEPT ![c] = Called(at, call[c].method, call[c].headers, md, logger, header, call[c].caller)]

\* The ids a call goes on with: those it came with and new ones.
Corr(c) == IF call[c].md.correlation = None0 THEN ids + 1 ELSE call[c].md.correlation
Correlated(c) == Fields(Corr(c), call[c].md.span, call[c].md.parent)
Drawn(c) == IF call[c].md.correlation = None0 THEN ids + 1 ELSE ids

\* EnsureCorrelationIDUnaryServerInterceptor, and with UpdateContext
\* EnsureOpenTelemetryUnaryServerInterceptor: the span that came in is the
\* parent, this call has a span of its own; the header says which call it was.
EnsureCorrelationID(c) ==
    /\ chain \in {"correlation", "openTelemetry"} /\ call[c].at = "correlating" /\ Drawn(c) + 1 <= MaxTrailIDs
    /\ LET md == Fields(Corr(c), Drawn(c) + 1, call[c].md.span)
           log == IF chain = "correlation" THEN withLoggerFields(c, md) ELSE UpdateContext(c, md)
       IN  /\ Onward(c, "logging", With(call[c].md, md), log.logger, md.correlation)
           /\ loggers' = log.loggers
    /\ ids' = Drawn(c) + 1
    /\ UNCHANGED <<chain, filter, bag, lines>>

\* EnsureOTELCorrelationIDUnaryServerInterceptor leaves the spans to otel.
EnsureOTELCorrelationID(c) ==
    /\ chain = "otelCorrelation" /\ call[c].at = "correlating" /\ Drawn(c) <= MaxTrailIDs
    /\ LET log == withLoggerFields(c, Fields(Corr(c), None0, None0))
       IN  /\ Onward(c, "logging", Correlated(c), log.logger, Corr(c))
           /\ loggers' = log.loggers
    /\ ids' = Drawn(c)
    /\ UNCHANGED <<chain, filter, bag, lines>>

\* EnsureContextLoggingUnaryServerInterceptor: a child of the base logger whose
\* hook reads the property bag of the call's scope.
EnsureContextLogging(c) ==
    /\ chain \notin OfEcho /\ call[c].at = "logging"
    /\ loggers' = Child(c, NoFields).loggers
    /\ Onward(c, "handling", call[c].md, Child(c, NoFields).logger, call[c].header)
    /\ UNCHANGED <<chain, filter, bag, lines, ids>>

\* EnsureContextLogger of echo: a new child of the global logger.
EnsureContextLogger(c) ==
    /\ chain \in OfEcho /\ call[c].at = "logging"
    /\ loggers' = Append(loggers, loggers[Global])
    /\ Onward(c, "correlating", call[c].md, Len(loggers) + 1, call[c].header)
    /\ UNCHANGED <<chain, filter, bag, lines, ids>>

\* EnsureContextLoggerOTEL: the correlation id goes to the context and to the
\* logger, but not into the headers.
EnsureContextLoggerOTEL(c) ==
    /\ chain = "echo" /\ call[c].at = "correlating" /\ Drawn(c) <= MaxTrailIDs
    /\ loggers' = UpdateContext(c, Fields(Corr(c), None0, None0)).loggers
    /\ Onward(c, "handling", Correlated(c), call[c].logger, call[c].header)
    /\ ids' = Drawn(c)
    /\ UNCHANGED <<chain, filter, bag, lines>>

\* EnsureContextLoggerCorrelation: a span and a parent for the logger; the
\* context it builds is dropped, and the request stays as it came.
EnsureContextLoggerCorrelation(c) ==
    /\ chain = "echoCorrelation" /\ call[c].at = "correlating" /\ Drawn(c) + 1 <= MaxTrailIDs
    /\ loggers' = UpdateContext(c, Fields(Corr(c), Drawn(c) + 1, call[c].md.span)).loggers
    /\ Onward(c, "handling", call[c].md, call[c].logger, call[c].header)
    /\ ids' = Drawn(c) + 1
    /\ UNCHANGED <<chain, filter, bag, lines>>

-----------------------------------------------------------------------------
(* Handlers.                                                               *)

\* IRequestContextLoggingPropertyBag.Set.
SetProperty(c) ==
    /\ call[c].at = "handling" /\ bag' = [bag EXCEPT ![c] = @ \union {c}]
    /\ UNCHANGED <<chain, filter, loggers, call, lines, ids>>

\* A line: the logger's fields and, through PropertyBagHook, the bag.
Log(c) ==
    /\ call[c].at = "handling"
    /\ lines' = lines \union {[of |-> c, fields |-> loggers[call[c].logger], bag |-> bag[c]]}
    /\ UNCHANGED <<chain, filter, loggers, call, bag, ids>>

\* EnsureOutboundSpanTracing of the NATS client: the correlation id goes on, or
\* a new one is drawn; the span becomes the parent of a new span.
EnsureOutboundSpanTracing(md, new) ==
    Fields(IF md.correlation = None0 THEN new ELSE md.correlation, new + 1,
           IF md.span = None0 THEN md.parent ELSE md.span)

\* A handler that passes its metadata on calls another service, here another
\* call of the same chain.
CallOn(c, d) ==
    /\ call[c].at = "handling" /\ chain \notin OfEcho /\ c # d
    /\ ids + 2 <= MaxTrailIDs /\ ids' = ids + 2
    /\ Accept(d, "B", {"authorization"}, EnsureOutboundSpanTracing(call[c].md, ids + 1), {c})

TrailNext ==
    \E c \in Calls :
      \/ \E n \in 0 .. 2, m \in {"A", "B"} : Come(c, m, n)
      \/ FilterMetadata(c)
      \/ EnsureCorrelationID(c) \/ EnsureOTELCorrelationID(c) \/ EnsureContextLogging(c)
      \/ EnsureContextLogger(c) \/ EnsureContextLoggerOTEL(c) \/ EnsureContextLoggerCorrelation(c)
      \/ SetProperty(c) \/ Log(c)
      \/ \E d \in Calls : CallOn(c, d)

TrailSpec == TrailInit /\ [][TrailNext]_trailVars

-----------------------------------------------------------------------------
(* Properties                                                              *)

\* Every line carries the ids of the call that wrote it and the properties of
\* its scope, never those of a call beside it ("it would have mutated a logger
\* shared across requests"); the answer names the correlation id of the lines;
\* and the calls a call makes carry on its correlation id, with its span as
\* the parent of theirs, past the metadata filter too, which keeps from a method
\* what only others are allowed to see.  (The interceptor of middleware/otel,
\* which works in place before there is a logger, promises no more than the
\* header.)
TrailIsConnected ==
    /\ \A c \in Calls : call[c].at \notin {"idle", "filtering"} /\ ~filter.nil =>
         /\ "x-other" \notin call[c].headers
         /\ "x-tenant" \in call[c].headers => call[c].method = "A"
    /\ \A l \in lines :
         /\ l.bag \subseteq {l.of}
         /\ chain \notin {"openTelemetry", "echoCorrelation"} =>
              l.fields.correlation = call[l.of].md.correlation /\ l.fields.correlation # None0
         /\ chain = "correlation" => l.fields.span = call[l.of].md.span /\ l.fields.parent = call[l.of].md.parent
         /\ chain = "echoCorrelation" => l.fields.parent = call[l.of].md.span /\ l.fields.correlation # None0
    /\ \A c \in Calls : call[c].header # None0 => call[c].header = call[c].md.correlation
    /\ \A c \in Calls : \A up \in call[c].caller :
         /\ call[c].md.correlation = call[up].md.correlation
         /\ call[c].at = "correlating" => call[c].md.parent = call[up].md.span
    /\ loggers[Global] = NoFields
=============================================================================
