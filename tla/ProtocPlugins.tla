--------------------------- MODULE ProtocPlugins ----------------------------
(***************************************************************************)
(* The two protoc plugins of the repository: what protoc-gen-go-           *)
(* fluffycore-di and protoc-gen-go-fluffycore-nats make of the description *)
(* of a service.  A description is a record of what the plugins look at;   *)
(* what they write is a record of what the written code does.              *)
(***************************************************************************)
EXTENDS Naturals, Sequences, SequencesExt, FiniteSets

\* A handler rule of the method's nats.api.handler option, none by default.
NoRule == [wildcard |-> <<>>, parameterized |-> <<>>]
Rule(wildcard, parameterized) == [wildcard |-> wildcard, parameterized |-> parameterized]

\* A method: its kind, the tags in its comments, its rule and its HTTP path.
Rpc(name, kind, rule, path) ==
    [name |-> name, kind |-> kind, tags |-> {}, rule |-> rule, path |-> path]

\* A service: the tags of its leading comment, in order, and of the comments
\* detached from it.
Described(package, name, leading, detached, methods) ==
    [package |-> package, name |-> name, leading |-> leading, detached |-> detached,
     methods |-> methods]

IsStreamingClient(m) == m.kind \in {"client stream", "both"}
IsStreamingServer(m) == m.kind \in {"server stream", "both"}
IsUnary(m) == ~IsStreamingClient(m) /\ ~IsStreamingServer(m)

OnMethods(ms, Op(_)) == [n \in {m.name : m \in ms} |-> Op(CHOOSE m \in ms : m.name = n)]

-----------------------------------------------------------------------------
(* protoc-gen-go-fluffycore-di                                             *)

isServiceIgnored(svc, plugin) ==
    <<plugin, "ignore">> \in Range(svc.leading) \union svc.detached

Signature(args, ret) == [args |-> args, returns |-> ret]
If(cond, arg) == IF cond THEN <<arg>> ELSE <<>>

unaryMethodSignature(m) ==
    Signature(If(IsUnary(m), "ctx") \o If(~IsStreamingClient(m), "request"),
              IF IsUnary(m) THEN "response, error" ELSE "error")

streamMethodSignature(m) ==
    Signature(If(~IsStreamingClient(m), "request")
                \o If(IsStreamingClient(m) \/ IsStreamingServer(m), "stream"), "error")

\* The shims look the scoped service up in the container of the call's own
\* context and hand on what they were called with.
generateUnaryServerMethodShim(m) ==
    [method |-> m.name, signature |-> unaryMethodSignature(m), scope |-> "ctx",
     handsOn |-> <<"ctx", "request">>]

generateStreamServerMethodShim(m) ==
    [method |-> m.name, signature |-> streamMethodSignature(m), scope |-> "stream.Context()",
     handsOn |-> IF Len(streamMethodSignature(m).args) = 1 THEN <<"stream">>
                 ELSE <<"request", "stream">>]

genServerMethodShim(m) ==
    IF IsUnary(m) THEN generateUnaryServerMethodShim(m) ELSE generateStreamServerMethodShim(m)

\* The accessor of the service's client (GrpcClients has its steps), with the
\* options it asks the factory for.
genClientAccessor(svc) ==
    [client |-> svc.name, options |-> <<"WithTarget", "WithTokenSource", "WithInsecure">>]

\* The server with a shim for every method, and an empty gateway registration.
genServer(svc) ==
    [accessor |-> genClientAccessor(svc), registers |-> svc.name, gateway |-> {},
     server |-> OnMethods(svc.methods, genServerMethodShim)]

\* generateFile: without a service that is not ignored the file is skipped.
generateFileDI(file) == {genServer(svc) : svc \in {s \in file : ~isServiceIgnored(s, "di")}}

-----------------------------------------------------------------------------
(* protoc-gen-go-fluffycore-nats                                           *)

isMethodIgnored(m) == <<"nats", "ignore">> \in m.tags

\* The last part of the first namespace tag of the leading comment.
extractNatsNamespaces(svc) == SelectSeq(svc.leading, LAMBDA t : Len(t) > 2 /\ t[1] = "nats" /\ t[2] = "namespace")
getServiceNamespace(svc) ==
    LET tags == extractNatsNamespaces(svc)
    IN  IF tags = <<>> THEN <<>> ELSE <<Last(Head(tags))>>

groupName(svc) == getServiceNamespace(svc) \o <<svc.package, svc.name>>

hrvFromMethod(m) ==
    [WildcardToken |-> <<m.name>> \o m.rule.wildcard,
     ParameterizedToken |-> <<m.name>> \o m.rule.parameterized]

Included(svc) == {m \in svc.methods : ~isMethodIgnored(m)}
Endpoints(svc) == {m \in Included(svc) : IsUnary(m)}
atLeastOneMethod(svc) == Endpoints(svc) # {}

\* The endpoint of a method: its subject under the group, what the handler
\* reads the route's parameters by, and the client method it calls.
generateNATSMethodGRPCGateway(m) ==
    [subject |-> hrvFromMethod(m).WildcardToken, info |-> hrvFromMethod(m), calls |-> m.name]

grpcClientMethodSignature(m) ==
    Signature(<<"ctx">> \o If(~IsStreamingClient(m), "in") \o <<"opts">>,
              CASE m.kind = "unary" -> "response, error"
                [] m.kind = "server stream" -> "ServerStreamingClient, error"
                [] m.kind = "client stream" -> "ClientStreamingClient, error"
                [] OTHER -> "BidiStreamingClient, error")

NoSubject == <<>>   \* "streaming not supported via NATS"
generateStreamingClientMethodStub(m) ==
    [signature |-> grpcClientMethodSignature(m), subject |-> NoSubject]
generateClientMethodShim(svc, m) ==
    [signature |-> grpcClientMethodSignature(m),
     subject |-> groupName(svc) \o hrvFromMethod(m).ParameterizedToken]

\* A service with no endpoint has no client; an ignored method has no place in
\* the client of one that has.
genClient(svc) ==
    IF ~atLeastOneMethod(svc) THEN <<>>
    ELSE OnMethods(Included(svc), LAMBDA m :
           IF IsUnary(m) THEN generateClientMethodShim(svc, m) ELSE generateStreamingClientMethodStub(m))

\* The rules for the interceptor of gRPC clients, streams included.
HandlerRuleMap(svc) ==
    IF atLeastOneMethod(svc) THEN OnMethods(Included(svc), hrvFromMethod) ELSE <<>>

\* The micro service with its group and its endpoints; it is added to NATS only
\* if it has one.
genService(svc) ==
    [group |-> groupName(svc), rules |-> HandlerRuleMap(svc), added |-> atLeastOneMethod(svc),
     endpoints |-> OnMethods(Endpoints(svc), generateNATSMethodGRPCGateway)]

generateFileContent(svc) == [service |-> genService(svc), client |-> genClient(svc)]
Skipped == [service |-> [group |-> <<>>, rules |-> <<>>, added |-> FALSE, endpoints |-> <<>>], client |-> <<>>]
generateFileNATS(svc) == IF isServiceIgnored(svc, "nats") THEN Skipped ELSE generateFileContent(svc)

-----------------------------------------------------------------------------
(* What the Go compiler asks of the written code: grpc-go's interfaces.    *)

ServerInterface(m) ==
    CASE m.kind = "unary" -> Signature(<<"ctx", "request">>, "response, error")
      [] m.kind = "server stream" -> Signature(<<"request", "stream">>, "error")
      [] OTHER -> Signature(<<"stream">>, "error")

\* Every method of the server's interface is written as the interface has it,
\* and a client, if there is one, has all the methods of the client's.
Compiles(svc) ==
    /\ ~isServiceIgnored(svc, "di") => \A m \in svc.methods :
         /\ genServerMethodShim(m).signature = ServerInterface(m)
         /\ genServerMethodShim(m).handsOn = ServerInterface(m).args
    /\ LET client == generateFileNATS(svc).client
       IN  client # <<>> => DOMAIN client = {m.name : m \in svc.methods}
=============================================================================
