--------------------------- MODULE ServiceRoutes ----------------------------
(***************************************************************************)
(* How the services of one process are put together at startup, and where  *)
(* a call then ends up: the generated gRPC services, their scoped servers, *)
(* the HTTP gateway's routes and the NATS subjects.  Each generated        *)
(* section of proto/ is one record here; what the sections have in common  *)
(* is an operator.  Services that are not in the repository are what the   *)
(* plugins make of their descriptions.                                     *)
(***************************************************************************)
EXTENDS ProtocPlugins

CONSTANTS Registrations,   \* what an application may add to its container
          Drafts,          \* descriptions of services of its own, by name
          MaxServices      \* bound: how many it adds

ASSUME RoutesAssumption == MaxServices \in Nat

VARIABLES added,     \* the registrations, in the container's order
          phase,     \* "building", "registering", "serving", "fatal"
          grpcReg,   \* how many endpoints have been registered with gRPC
          gwReg,     \* how many with the gateway
          natsReg,   \* how many with NATS
          healthy,   \* the services the health server calls SERVING
          last       \* the last call and what came of it

routeVars == <<added, phase, grpcReg, gwReg, natsReg, healthy, last>>

-----------------------------------------------------------------------------
(* The generated services.                                                 *)

Desc(package, name, unary, streams) ==
    [ServiceName |-> <<package, name>>, Methods |-> unary, Streams |-> streams]

Greeter_ServiceDesc ==
    Desc("helloworld", "Greeter",
         {"SayHello", "SayHelloAuth", "SayHelloDownstream", "SetSecret", "GetSecret"}, {})
Greeter2_ServiceDesc == Desc("helloworld", "Greeter2", {"SayHello"}, {"RequestPoints", "StreamPoints"})
MyStreamService_ServiceDesc == Desc("helloworld", "MyStreamService", {}, {"RequestPoints", "StreamPoints"})
SomeService_ServiceDesc == Desc("someservice", "SomeService", {"SayHello"}, {})
SomeService2_ServiceDesc == Desc("someservice", "SomeService2", {"SayHello"}, {})

\* The checked-in sections, and those of the application's own services.
Beside(sections, drafts) ==
    [s \in DOMAIN sections \union DOMAIN drafts |->
        IF s \in DOMAIN sections THEN sections[s] ELSE drafts[s]]

\* protoc-gen-go-grpc's descriptor of a service.
Draft_ServiceDesc(d) ==
    Desc(d.package, d.name, {m.name : m \in {x \in d.methods : IsUnary(x)}},
         {m.name : m \in {x \in d.methods : ~IsUnary(x)}})

ServiceDesc ==
    Beside(
      [Greeter |-> Greeter_ServiceDesc, Greeter2 |-> Greeter2_ServiceDesc,
       MyStreamService |-> MyStreamService_ServiceDesc,
       SomeService |-> SomeService_ServiceDesc, SomeService2 |-> SomeService2_ServiceDesc],
      [s \in DOMAIN Drafts |-> Draft_ServiceDesc(Drafts[s])])

Services == DOMAIN ServiceDesc
MethodsOf(s) == ServiceDesc[s].Methods \union ServiceDesc[s].Streams
MethodsAnywhere == UNION {MethodsOf(s) : s \in Services}

\* The methods a XFluffyCoreServer hands on to the scoped service.
GreeterFluffyCoreServer == {"SayHello", "SayHelloAuth", "SayHelloDownstream", "SetSecret", "GetSecret"}
Greeter2FluffyCoreServer == {"SayHello", "RequestPoints", "StreamPoints"}
MyStreamServiceFluffyCoreServer == {"RequestPoints", "StreamPoints"}
SomeServiceFluffyCoreServer == {"SayHello"}
\* Mutant: a method the generator forgot.
SomeService2FluffyCoreServerForgets == {}
SomeService2FluffyCoreServer == {"SayHello"}

FluffyCoreServer ==
    Beside(
      [Greeter |-> GreeterFluffyCoreServer, Greeter2 |-> Greeter2FluffyCoreServer,
       MyStreamService |-> MyStreamServiceFluffyCoreServer,
       SomeService |-> SomeServiceFluffyCoreServer, SomeService2 |-> SomeService2FluffyCoreServer],
      [s \in DOMAIN Drafts |-> DOMAIN genServer(Drafts[s]).server])

\* The gateway's routes, all of them POST.
pattern_Greeter ==
    [SayHello |-> <<"v1", "greeter", "sayhello">>, SayHelloAuth |-> <<"v1", "greeter", "sayhello-auth">>,
     SayHelloDownstream |-> <<"v1", "greeter", "sayhellodownstream">>,
     SetSecret |-> <<"v1", "greeter", "set-secret">>, GetSecret |-> <<"v1", "greeter", "get-secret">>]
pattern_Greeter2 ==
    [SayHello |-> <<"v2", "example", "echo">>,
     RequestPoints |-> <<"v1", "mystreamservice", "request-points">>,
     StreamPoints |-> <<"v1", "mystreamservice", "upload-points">>]
pattern_MyStreamService ==
    [RequestPoints |-> <<"v1", "mystreamservice", "request-points">>,
     StreamPoints |-> <<"v1", "mystreamservice", "upload-points">>]
pattern_SomeService == [SayHello |-> <<"v1", "someservice", "echo">>]
pattern_SomeService2 == [SayHello |-> <<"v2", "someservice", "echo">>]

\* protoc-gen-grpc-gateway's routes of a service.
pattern_Draft(d) == OnMethods(d.methods, LAMBDA m : m.path)

pattern ==
    Beside(
      [Greeter |-> pattern_Greeter, Greeter2 |-> pattern_Greeter2,
       MyStreamService |-> pattern_MyStreamService,
       SomeService |-> pattern_SomeService, SomeService2 |-> pattern_SomeService2],
      [s \in DOMAIN Drafts |-> pattern_Draft(Drafts[s])])

\* A NATS micro service: its group, the subjects of its endpoints under the
\* group and the subjects its client sends to; proto/someservice has none.
GreeterNATS ==
    LET group == <<"roger", "helloworld", "Greeter">>
        plain == {"SayHelloAuth", "SayHelloDownstream", "SetSecret", "GetSecret"}
    IN  [group |-> group,
         endpoints |-> [SayHello |-> <<"SayHello", "org", "*">>] @@ [m \in plain |-> <<m>>],
         client |-> [SayHello |-> group \o <<"SayHello", "org", "${orgId}">>]
                    @@ [m \in plain |-> group \o <<m>>]]
Greeter2NATS ==
    [group |-> <<"roger", "helloworld", "Greeter2">>, endpoints |-> [SayHello |-> <<"SayHello">>],
     client |-> [SayHello |-> <<"roger", "helloworld", "Greeter2", "SayHello">>,
                 RequestPoints |-> NoSubject, StreamPoints |-> NoSubject]]
MyStreamServiceNATS ==
    [group |-> <<"helloworld", "MyStreamService">>, endpoints |-> <<>>, client |-> <<>>]
DraftNATS(d) ==
    LET g == generateFileNATS(d)
    IN  [group |-> g.service.group,
         endpoints |-> [m \in DOMAIN g.service.endpoints |-> g.service.endpoints[m].subject],
         client |-> [m \in DOMAIN g.client |-> g.client[m].subject]]

NATSMicro ==
    Beside(
      [Greeter |-> GreeterNATS, Greeter2 |-> Greeter2NATS, MyStreamService |-> MyStreamServiceNATS],
      [s \in {x \in DOMAIN Drafts : ~isServiceIgnored(Drafts[x], "nats")} |-> DraftNATS(Drafts[s])])

-----------------------------------------------------------------------------
(* The .proto files, and the sections as the plugins make them of these.   *)

Greeter_proto ==
    Described("helloworld", "Greeter", <<<<"nats", "namespace", "roger">>>>, {},
      {Rpc("SayHello", "unary", Rule(<<"org", "*">>, <<"org", "${orgId}">>), <<"v1", "greeter", "sayhello">>),
       Rpc("SayHelloAuth", "unary", NoRule, <<"v1", "greeter", "sayhello-auth">>),
       Rpc("SayHelloDownstream", "unary", Rule(<<>>, <<>>), <<"v1", "greeter", "sayhellodownstream">>),
       Rpc("SetSecret", "unary", NoRule, <<"v1", "greeter", "set-secret">>),
       Rpc("GetSecret", "unary", NoRule, <<"v1", "greeter", "get-secret">>)})
Points_proto ==
    {Rpc("RequestPoints", "server stream", NoRule, <<"v1", "mystreamservice", "request-points">>),
     Rpc("StreamPoints", "client stream", NoRule, <<"v1", "mystreamservice", "upload-points">>)}
Greeter2_proto ==
    Described("helloworld", "Greeter2", <<<<"nats", "namespace", "roger">>>>, {},
      Points_proto \union {Rpc("SayHello", "unary", NoRule, <<"v2", "example", "echo">>)})
MyStreamService_proto ==
    Described("helloworld", "MyStreamService", <<<<"nats", "dddd">>>>, {}, Points_proto)
SomeService_proto ==
    Described("someservice", "SomeService", <<>>, {},
      {Rpc("SayHello", "unary", NoRule, <<"v1", "someservice", "echo">>)})
SomeService2_proto ==
    Described("someservice", "SomeService2", <<>>, {},
      {Rpc("SayHello", "unary", NoRule, <<"v2", "someservice", "echo">>)})

proto ==
    [Greeter |-> Greeter_proto, Greeter2 |-> Greeter2_proto, MyStreamService |-> MyStreamService_proto,
     SomeService |-> SomeService_proto, SomeService2 |-> SomeService2_proto]

CheckedInIsGenerated ==
    \A s \in DOMAIN proto :
      /\ ServiceDesc[s] = Draft_ServiceDesc(proto[s])
      /\ FluffyCoreServer[s] = DOMAIN genServer(proto[s]).server
      /\ pattern[s] = pattern_Draft(proto[s])
      /\ s \in DOMAIN NATSMicro => NATSMicro[s] = DraftNATS(proto[s])
      /\ Compiles(proto[s])

-----------------------------------------------------------------------------
(* Putting them together.  A registration: the service, the methods its    *)
(* scoped implementation overrides, whether its IEndpointRegistration      *)
(* implements RegisterFluffyCoreHandler itself, and whether the service's  *)
(* NATS registration is added too.                                         *)

Registration(s, overrides, gateway, nats) ==
    [service |-> s, overrides |-> overrides, gateway |-> gateway, nats |-> nats]

ASSUME RegistrationsAssumption ==
    \A r \in Registrations :
      /\ r = Registration(r.service, r.overrides, r.gateway, r.nats)
      /\ r.service \in Services /\ r.gateway \in BOOLEAN /\ r.nats \in BOOLEAN
      /\ r.nats => r.service \in DOMAIN NATSMicro

\* AddGreeterService and AddMyStreamService of the example: their registration
\* servers have a RegisterHandler, which is no method of IEndpointRegistration,
\* so the embedded RegisterFluffyCoreHandler, which does nothing, stays.
AddGreeterService(nats) == Registration("Greeter", MethodsOf("Greeter"), FALSE, nats)
AddMyStreamService == Registration("MyStreamService", MethodsOf("MyStreamService"), FALSE, FALSE)

NoCall == [via |-> "none"]

RoutesInit ==
    /\ added = <<>> /\ phase = "building"
    /\ grpcReg = 0 /\ gwReg = 0 /\ natsReg = 0
    /\ healthy = {} /\ last = NoCall

\* AddXServerWithExternalRegistration.
AddServerWithExternalRegistration(r) ==
    /\ phase = "building" /\ Len(added) < MaxServices
    /\ added' = Append(added, r)
    /\ UNCHANGED <<phase, grpcReg, gwReg, natsReg, healthy, last>>

BuildContainer ==
    /\ phase = "building" /\ phase' = "registering"
    /\ UNCHANGED <<added, grpcReg, gwReg, natsReg, healthy, last>>

Known(n) == {added[i].service : i \in 1 .. n}

\* A service is registered with gRPC once; the second time is fatal.
RegisterFluffyCoreGRPCService ==
    /\ phase = "registering" /\ grpcReg < Len(added)
    /\ IF added[grpcReg + 1].service \in Known(grpcReg)
       THEN phase' = "fatal" /\ UNCHANGED grpcReg
       ELSE grpcReg' = grpcReg + 1 /\ UNCHANGED phase
    /\ UNCHANGED <<added, gwReg, natsReg, healthy, last>>

\* The rest of StartWithListenter: every service is marked as serving.
StartServing ==
    /\ phase = "registering" /\ grpcReg = Len(added)
    /\ phase' = "serving" /\ healthy' = Known(grpcReg)
    /\ UNCHANGED <<added, grpcReg, gwReg, natsReg, last>>

\* Gateway and NATS are set up while the server already serves; a call and its
\* answer are one step here.
RegisterFluffyCoreHandler ==
    /\ phase = "serving" /\ last = NoCall /\ gwReg < Len(added)
    /\ gwReg' = gwReg + 1
    /\ UNCHANGED <<added, phase, grpcReg, natsReg, healthy, last>>

RegisterFluffyCoreNATSHandler ==
    /\ phase = "serving" /\ last = NoCall /\ natsReg < Len(added)
    /\ natsReg' = natsReg + 1
    /\ UNCHANGED <<added, phase, grpcReg, gwReg, healthy, last>>

-----------------------------------------------------------------------------
(* Calls.                                                                  *)

Result(code, gate, ran) == [code |-> code, gate |-> gate, ran |-> ran]
Refused(code) == Result(code, <<>>, <<>>)

FullMethodName(s, m) == <<ServiceDesc[s].ServiceName, m>>

\* The gRPC server: the handler of the full method name, the interceptors,
\* which know the call by it, the scoped server, the application's service.
Invoke(full) ==
    LET regs == {i \in DOMAIN added : ServiceDesc[added[i].service].ServiceName = full[1]}
    IN  IF regs = {} THEN Refused("Unimplemented")
        ELSE LET r == added[CHOOSE i \in regs : TRUE] IN
             IF full[2] \notin MethodsOf(r.service) THEN Refused("Unimplemented")
             ELSE IF full[2] \notin FluffyCoreServer[r.service] \intersect r.overrides
               THEN Result("Unimplemented", full, <<>>)
             ELSE Result("OK", full, <<r.service, full[2]>>)

\* The gateway: the handler registered last for a path comes first.
Routed(path) ==
    LET here == {i \in 1 .. gwReg : added[i].gateway /\
                   \E m \in DOMAIN pattern[added[i].service] : pattern[added[i].service][m] = path}
    IN  IF gwReg < Len(added) THEN Refused("no listener")
        ELSE IF here = {} THEN Refused("404")
        ELSE LET s == added[CHOOSE i \in here : \A j \in here : j <= i].service
                 m == CHOOSE x \in DOMAIN pattern[s] : pattern[s][x] = path
             IN  Invoke(FullMethodName(s, m))

\* What is sent for a route's parameter, and the subjects of an endpoint.
Filled(subject) == [i \in DOMAIN subject |-> IF subject[i] = "${orgId}" THEN "acme" ELSE subject[i]]
Covers(wildcard, subject) ==
    /\ Len(wildcard) = Len(subject)
    /\ \A i \in DOMAIN wildcard : wildcard[i] \in {"*", subject[i]}

SentTo(s, m) == Filled(NATSMicro[s].client[m])
ListensTo(s, e) == NATSMicro[s].group \o NATSMicro[s].endpoints[e]

\* A NATS client of the service: streams are refused by the client itself.
Requested(s, m) ==
    LET here == {i \in 1 .. natsReg : added[i].nats}
        endpoints == {x \in here \X MethodsAnywhere :
                        /\ x[2] \in DOMAIN NATSMicro[added[x[1]].service].endpoints
                        /\ Covers(ListensTo(added[x[1]].service, x[2]), SentTo(s, m))}
    IN  IF SentTo(s, m) = NoSubject THEN Refused("streaming not supported via NATS")
        ELSE IF endpoints = {} THEN Refused("Unavailable")
        ELSE LET to == CHOOSE x \in endpoints : TRUE
             IN  Invoke(FullMethodName(added[to[1]].service, to[2]))

Call(via, s, m) ==
    /\ phase = "serving" /\ last = NoCall
    /\ last' = [via |-> via, service |-> s, method |-> m,
                result |-> IF via = "grpc" THEN Invoke(FullMethodName(s, m))
                           ELSE IF via = "http" THEN Routed(pattern[s][m])
                           ELSE Requested(s, m)]
    /\ UNCHANGED <<added, phase, grpcReg, gwReg, natsReg, healthy>>

Answered ==
    /\ last # NoCall /\ last' = NoCall
    /\ UNCHANGED <<added, phase, grpcReg, gwReg, natsReg, healthy>>

RoutesNext ==
    \/ \E r \in Registrations : AddServerWithExternalRegistration(r)
    \/ BuildContainer \/ RegisterFluffyCoreGRPCService \/ StartServing
    \/ RegisterFluffyCoreHandler \/ RegisterFluffyCoreNATSHandler
    \/ \E s \in Services : \E m \in MethodsOf(s) :
         \/ Call("grpc", s, m) \/ Call("http", s, m)
         \/ s \in DOMAIN NATSMicro /\ m \in DOMAIN NATSMicro[s].client /\ Call("nats", s, m)
    \/ Answered

RoutesSpec == RoutesInit /\ [][RoutesNext]_routeVars

-----------------------------------------------------------------------------
(* Properties                                                              *)

\* Greeter2 and MyStreamService declare the same two paths.
SharesARoute(s, m) == s \in {"Greeter2", "MyStreamService"} /\ m \in {"RequestPoints", "StreamPoints"}

\* What the sections of one process have to be for calls to find their way:
\* services have names of their own, methods have paths of their own but for the
\* shared ones, and a NATS client's subject is that of the method's endpoint.
NamesApart ==
    \A s, t \in Services : ServiceDesc[s].ServiceName = ServiceDesc[t].ServiceName => s = t
PathsApart ==
    \A s, t \in Services : \A m \in DOMAIN pattern[s], n \in DOMAIN pattern[t] :
      pattern[s][m] = pattern[t][n] =>
        <<s, m>> = <<t, n>> \/ (SharesARoute(s, m) /\ SharesARoute(t, n))
SubjectsApart ==
    \A s \in DOMAIN NATSMicro : \A m \in DOMAIN NATSMicro[s].client :
      /\ m \in ServiceDesc[s].Methods =>
           /\ m \in DOMAIN NATSMicro[s].endpoints
           /\ Covers(ListensTo(s, m), SentTo(s, m)) /\ SentTo(s, m) # NoSubject
      /\ \A t \in DOMAIN NATSMicro : \A e \in DOMAIN NATSMicro[t].endpoints :
           Covers(ListensTo(t, e), SentTo(s, m)) => <<t, e>> = <<s, m>>
SectionsApart == NamesApart /\ PathsApart /\ SubjectsApart

Offered(call) ==
    \E i \in DOMAIN added :
      /\ added[i].service = call.service /\ call.method \in added[i].overrides
      /\ \/ call.via = "grpc"
         \/ call.via = "http" /\ gwReg = Len(added) /\ added[i].gateway
         \/ /\ call.via = "nats" /\ i <= natsReg /\ added[i].nats
            /\ call.method \in ServiceDesc[call.service].Methods

\* Whatever services are put together in whatever order, a call by any
\* transport runs the method it names and no other, and does run it if some
\* registration offers it; the gate decided on the name of the method that ran;
\* only a service that is marked as serving answers (the generated clients,
\* handlers, routes, endpoints and scoped servers).  And the sections that are
\* checked in are those the plugins make of the .proto files.
RunsWhatWasCalled ==
    /\ CheckedInIsGenerated
    /\ last # NoCall =>
         LET r == last.result
             meant == <<last.service, last.method>>
             shared == last.via = "http" /\ SharesARoute(last.service, last.method)
         IN  /\ r.ran # <<>> =>
                  /\ r.gate = <<ServiceDesc[r.ran[1]].ServiceName, r.ran[2]>>
                  /\ r.ran[1] \in healthy
                  /\ r.ran = meant \/ (shared /\ SharesARoute(r.ran[1], r.ran[2]))
             /\ Offered(last) /\ ~shared => r.ran = meant
=============================================================================
