----------------------------- MODULE GreeterApp -----------------------------
(***************************************************************************)
(* One service behind three transports: direct gRPC, the HTTP gateway and  *)
(* the NATS bridge, which both call back into the gRPC server of the same  *)
(* process.  Whatever way a call comes, it passes the same interceptors.   *)
(*                                                                         *)
(* A micro endpoint serves its requests one at a time with a context of    *)
(* its own; its caller may be gone when the service answers.               *)
(***************************************************************************)
EXTENDS NatsBridge, FiniteSets, Functions

CONSTANTS Callers,        \* programs that call the service
          Requests,       \* the requests they may make
          Writers,        \* users whose token has permissions=write
          Endpoints,      \* the methods offered over NATS, in their order
          GrpcFailures,   \* statuses the gRPC runtime itself may end a call with
          ClientTimeout,  \* ticks a NATS client waits at most
          MaxCalls        \* how many calls are made

ASSUME AppAssumption ==
    /\ ClientTimeout \in Nat \ {0} /\ MaxCalls \in Nat
    /\ ToSet(Endpoints) \subseteq DOMAIN methodGreeterHandlerRuleMap
    /\ Callers \intersect ToSet(Endpoints) = {}
    /\ \A s \in GrpcFailures : s.message \in Seq(STRING)

\* A user is not called like what stands for no user, nor a certificate like a
\* token that is refused.
ASSUME IdentityAssumption ==
    \A r \in Requests : r.tok # "anonymous" /\ r.src # "anonymous" /\ r.cert # "bad"

VARIABLES call,      \* per caller: what it waits for, or what came of it
          rpc,       \* gRPC calls on the server, by who made them
          scopes,    \* request scopes that are open
          secrets,   \* the secret store: <<owner, org>> to value
          inbox,     \* per endpoint: requests not yet looked at
          serving,   \* per endpoint: the request its handler works on
          bridge,    \* the NATS side of the server
          calls      \* how many calls were made

appVars == <<call, rpc, scopes, secrets, inbox, serving, bridge, calls>>

Forever == ClientTimeout + 1     \* stands for no limit

\* A request: how it is sent, the method, its org as the caller meant it (and
\* as its subject says, when the caller writes the subject itself), the token
\* in its context, its token source's, its certificate, its context's deadline,
\* and whether its body can be decoded.
Identities(r) == {r.tok, r.src, r.cert} \ {"none", "bad"}
Template(r) == ParameterizedToken(r.method)

\* The subject a request is sent to (a raw publisher writes its own; the
\* interceptor's has no group), and what the service's side makes of it.
Subject(r) ==
    IF r.via = "raw" THEN [code |-> "OK", subject |-> ReplaceTokens(Template(r), r.subjectOrg).subject]
    ELSE IF r.via = "intercepted" THEN [code |-> "OK", subject |-> methodGreeterHandlerRuleMap[r.method]]
    ELSE ReplaceTokens(Template(r), r.org)

Injected ==
    [r \in Requests |->
       InjectParameterizedRoutesIntoProtoMessage(Subject(r).subject, Template(r), r.org)]

\* The server's calls: one of each caller, one of each endpoint's handler, and
\* the downstream call that each of them may make.
Origins == Callers \union ToSet(Endpoints)
Down(o) == <<o, "down">>
Direct(o) == <<o, "call">>
Keys == Origins \X {"call", "down"}

NoRpc == [st |-> "none"]
NoRequest == [id |-> 0]

\* secretStore.Get's second result is FALSE.
NoSecret == {}

AppInit ==
    /\ call = [c \in Callers |-> [st |-> "idle"]]
    /\ rpc = [k \in Keys |-> NoRpc]
    /\ scopes = {}
    /\ secrets = [k \in {} |-> NoSecret]
    /\ inbox = [e \in ToSet(Endpoints) |-> <<>>]
    /\ serving = [e \in ToSet(Endpoints) |-> NoRequest]
    /\ bridge = [st |-> "settling", listening |-> 0, container |-> FALSE]
    /\ calls = 0

Waiting(c) == call[c].st \in {"http", "wait"}
WaitsFor(c, id) == Waiting(c) /\ call[c].id = id

\* What a caller is left with.
Done(c, status, value) ==
    [st |-> "done", id |-> call[c].id, req |-> call[c].req, status |-> status, value |-> value]

-----------------------------------------------------------------------------
(* The callers. *)

\* context.WithTimeout(ctx, s.timeout): the earlier of the two.
RequestTimeout(r) == IF r.deadline < ClientTimeout THEN r.deadline ELSE ClientTimeout

NewRpc(r, id, tokens, cert, org) ==
    [st |-> "pending", req |-> r, id |-> id, method |-> r.method, tokens |-> tokens,
     cert |-> cert, org |-> org]

\* A generated gRPC client, or the HTTP gateway's listener.
CallDirectly(c, r) ==
    /\ r.via \in {"grpc", "http"}
    /\ call' = [call EXCEPT ![c] =
                   [st |-> IF r.via = "http" THEN "http" ELSE "wait", id |-> calls + 1,
                    req |-> r, waited |-> 0, due |-> r.deadline]]
    /\ rpc' = IF r.via = "http" THEN rpc
              ELSE [rpc EXCEPT ![Direct(c)] = NewRpc(r, calls + 1, {r.tok}, r.cert, r.org)]
    /\ UNCHANGED inbox

Listening(method) ==
    \E i \in DOMAIN Endpoints : Endpoints[i] = method /\ i <= bridge.listening

\* HandleNATSClientRequest up to the wait: no subject, no token, nobody
\* listening (the interceptor's subject has no group, so nobody ever is), or a
\* message in the endpoint's queue.
HandleNATSClientRequest(c, r) ==
    LET to == Subject(r)
        fails == IF to.code # "OK" THEN Status(to.code, <<"subject">>)
                 ELSE IF r.src = "bad" THEN statusFromTransportError("no token")
                 ELSE IF r.via = "intercepted" \/ ~Listening(r.method)
                      THEN statusFromTransportError("ErrNoResponders")
                 ELSE OK
        waits == [st |-> "wait", id |-> calls + 1, req |-> r, waited |-> 0, due |-> RequestTimeout(r)]
    IN  /\ r.via \in {"nats", "raw", "intercepted"}
        /\ IF fails = OK
           THEN /\ call' = [call EXCEPT ![c] = waits]
                /\ inbox' = [inbox EXCEPT ![r.method] =
                               Append(@, [id |-> calls + 1, from |-> c, req |-> r,
                                          headers |-> createNATSRequestHeaders(r.tok, r.src)])]
           ELSE /\ call' = [call EXCEPT ![c] = [st |-> "done", id |-> calls + 1, req |-> r,
                                                status |-> fails, value |-> NoSecret]]
                /\ UNCHANGED inbox
        /\ UNCHANGED rpc

\* A caller has one call at a time; the server may still work on its last one.
Send(c, r) ==
    /\ ~Waiting(c) /\ calls < MaxCalls
    /\ rpc[Direct(c)] = NoRpc /\ rpc[Down(c)] = NoRpc
    /\ calls' = calls + 1
    /\ CallDirectly(c, r) \/ HandleNATSClientRequest(c, r)
    /\ UNCHANGED <<scopes, secrets, serving, bridge>>

\* The gateway's request functions: a body that cannot be decoded, or the
\* call.  The HTTP client's certificate is not the gateway's.
request_Greeter(c, r) ==
    IF r.body = "bad"
    THEN /\ call' = [call EXCEPT ![c] = Done(c, Status("InvalidArgument", <<"body">>), NoSecret)]
         /\ UNCHANGED rpc
    ELSE /\ call' = [call EXCEPT ![c] = [st |-> "wait", id |-> @.id, req |-> @.req,
                                         waited |-> @.waited, due |-> @.due]]
         /\ rpc' = [rpc EXCEPT ![Direct(c)] = NewRpc(r, call[c].id, {r.tok}, "none", r.org)]

RegisterGreeterHandlerClient(c) ==
    /\ call[c].st = "http"
    /\ request_Greeter(c, call[c].req)
    /\ UNCHANGED <<scopes, secrets, inbox, serving, bridge, calls>>

\* The wait ends before an answer comes.
GiveUp(c, code) ==
    /\ call' = [call EXCEPT ![c] = Done(c, statusFromTransportError(code), NoSecret)]
    /\ UNCHANGED <<rpc, scopes, secrets, inbox, serving, bridge, calls>>

\* Mutant: the timer fires a tick late, and then never.
TimeOutLate(c) == Waiting(c) /\ call[c].waited > call[c].due /\ call[c].due < Forever
                    /\ GiveUp(c, "DeadlineExceeded")

TimeOut(c) == Waiting(c) /\ call[c].waited >= call[c].due /\ call[c].due < Forever
                /\ GiveUp(c, "DeadlineExceeded")
Cancel(c) == Waiting(c) /\ GiveUp(c, "Canceled")

\* Time passes for everybody who waits, and a timer that is due fires first.
Tick ==
    /\ \E c \in Callers : Waiting(c) /\ call[c].due < Forever
    /\ \A c \in Callers : Waiting(c) => call[c].waited < call[c].due \/ call[c].due = Forever
    /\ call' = [c \in Callers |->
                   IF Waiting(c) /\ call[c].waited < Forever
                   THEN [st |-> call[c].st, id |-> call[c].id, req |-> call[c].req,
                         waited |-> call[c].waited + 1, due |-> call[c].due]
                   ELSE call[c]]
    /\ UNCHANGED <<rpc, scopes, secrets, inbox, serving, bridge, calls>>

-----------------------------------------------------------------------------
(* The gRPC server. *)

\* BuildGrpcEntrypointPermissionsClaimsMap.
Allowed(method, sub, cert) ==
    \/ method \in {"SayHello", "SayHelloDownstream"}
    \/ method = "SayHelloAuth" /\ sub \in Writers
    \/ method \in {"SetSecret", "GetSecret"} /\ (sub # "anonymous" \/ cert # "none")

Answer(k, status, value) ==
    [rpc EXCEPT ![k] = [st |-> "out", req |-> @.req, id |-> @.id, status |-> status, value |-> value]]

\* ConfigureServerOpts' chain: scope, mTLS, JWT, gate.  Without a token the
\* subject is anonymous; of two, the first counts.
Intercept(k) ==
    /\ rpc[k].st = "pending"
    /\ scopes' = scopes \union {k}
    /\ \E token \in rpc[k].tokens :
         LET sub == IF token = "none" THEN "anonymous" ELSE token
         IN  rpc' = IF token = "bad" THEN Answer(k, Status("Unauthenticated", <<"token">>), NoSecret)
                    ELSE IF ~Allowed(rpc[k].method, sub, rpc[k].cert)
                         THEN Answer(k, Status("PermissionDenied", <<"claims">>), NoSecret)
                    ELSE [rpc EXCEPT ![k] =
                            [st |-> "in", req |-> @.req, id |-> @.id, method |-> @.method,
                             org |-> @.org, sub |-> sub, cert |-> @.cert]]
    /\ UNCHANGED <<call, secrets, inbox, serving, bridge, calls>>

\* The runtime ends a call it could not deliver.
RuntimeFails(k) ==
    /\ rpc[k].st = "pending"
    /\ \E s \in GrpcFailures : rpc' = Answer(k, s, NoSecret)
    /\ UNCHANGED <<call, scopes, secrets, inbox, serving, bridge, calls>>

\* Mutant: the org of the request is all that names a secret's owner.
secretOwnerByOrg(p) == <<"org", "any">>

\* secretOwner: the authenticated subject, else the certificate.
secretOwner(p) ==
    IF p.sub # "anonymous" THEN <<"jwt", p.sub>>
    ELSE IF p.cert # "none" THEN <<"mtls", p.cert>>
    ELSE <<>>

\* The methods of the service, each in the scope of its call.
SayHello(k) ==
    /\ rpc[k].method \in {"SayHello", "SayHelloAuth"}
    /\ rpc' = [rpc EXCEPT ![k] = [st |-> "down", req |-> @.req, id |-> @.id],
                          ![Down(k[1])] = [st |-> "pending", req |-> rpc[k].req, id |-> rpc[k].id,
                                           method |-> "SayHelloDownstream", tokens |-> {"none"},
                                           cert |-> "none", org |-> rpc[k].org]]
    /\ UNCHANGED secrets

SayHelloDownstream(k) ==
    /\ rpc[k].method = "SayHelloDownstream"
    /\ rpc' = Answer(k, OK, NoSecret)
    /\ UNCHANGED secrets

NoOwner == Status("PermissionDenied", <<"no", "identity">>)

SetSecret(k) ==
    LET owner == secretOwner(rpc[k])
    IN  /\ rpc[k].method = "SetSecret"
        /\ IF owner = <<>> THEN rpc' = Answer(k, NoOwner, NoSecret) /\ UNCHANGED secrets
           ELSE /\ secrets' = [x \in DOMAIN secrets \union {<<owner, rpc[k].org>>} |->
                                  IF x = <<owner, rpc[k].org>> THEN Identities(rpc[k].req)
                                  ELSE secrets[x]]
                /\ rpc' = Answer(k, OK, NoSecret)

GetSecret(k) ==
    LET owner == secretOwner(rpc[k])
        at == <<owner, rpc[k].org>>
    IN  /\ rpc[k].method = "GetSecret"
        /\ rpc' = IF owner = <<>> THEN Answer(k, NoOwner, NoSecret)
                  ELSE IF at \notin DOMAIN secrets
                       THEN Answer(k, Status("NotFound", <<"no", "secret">>), NoSecret)
                  ELSE Answer(k, OK, secrets[at])
        /\ UNCHANGED secrets

Serve(k) ==
    /\ rpc[k].st = "in"
    /\ SayHello(k) \/ SayHelloDownstream(k) \/ SetSecret(k) \/ GetSecret(k)
    /\ UNCHANGED <<call, scopes, inbox, serving, bridge, calls>>

\* The caller of a downstream call may be gone: its context ends the wait.
Abandon(o) ==
    /\ o \in Callers /\ rpc[Direct(o)].st = "down" /\ ~WaitsFor(o, rpc[Direct(o)].id)
    /\ rpc' = Answer(Direct(o), statusFromTransportError("Canceled"), NoSecret)
    /\ UNCHANGED <<call, scopes, secrets, inbox, serving, bridge, calls>>

\* The interceptors return: the scope is disposed of and the answer delivered,
\* to the handler above, to the caller if it still waits, or to the endpoint.
Return(k) ==
    LET o == k[1] r == rpc[k]
        free == [rpc EXCEPT ![k] = NoRpc]
        above == rpc[Direct(o)]
    IN  /\ r.st = "out"
        /\ scopes' = scopes \ {k}
        /\ \/ /\ k = Down(o)
              /\ rpc' = IF above.st = "down" /\ above.id = r.id
                        THEN [free EXCEPT ![Direct(o)] =
                                [st |-> "out", req |-> @.req, id |-> @.id, status |-> r.status, value |-> r.value]]
                        ELSE free
              /\ UNCHANGED call
           \/ /\ k = Direct(o) /\ o \in Callers
              /\ rpc' = free
              /\ call' = IF WaitsFor(o, r.id) THEN [call EXCEPT ![o] = Done(o, r.status, r.value)] ELSE call
           \/ /\ k = Direct(o) /\ o \notin Callers
              /\ rpc' = [rpc EXCEPT ![k] = [st |-> "back", req |-> r.req, id |-> r.id,
                                           status |-> r.status, value |-> r.value]]
              /\ UNCHANGED call
        /\ UNCHANGED <<secrets, inbox, serving, bridge, calls>>

-----------------------------------------------------------------------------
(* The NATS bridge. *)

\* A reply reaches a caller that still waits for it, while there is a connection.
Reply(e, m, reply, value) ==
    /\ serving' = [serving EXCEPT ![e] = NoRequest]
    /\ call' = IF reply.sent /\ bridge.st # "closed" /\ WaitsFor(m.from, m.id)
               THEN [call EXCEPT ![m.from] = Done(m.from, statusFromNATSResponse(reply), value)]
               ELSE call

\* HandleRequest up to the service's method: undecodable body, a route that
\* does not match, a field that is not there, or the call, whose context is
\* the request's headers and nothing else.
HandleRequest(e) ==
    LET m == Head(inbox[e])
        r == Injected[m.req]
    IN  /\ inbox[e] # <<>> /\ serving[e] = NoRequest
        /\ inbox' = [inbox EXCEPT ![e] = Tail(@)]
        /\ IF m.req.body = "bad" \/ ~r.ok
           THEN Reply(e, m, respondError(Status("InvalidArgument", <<"request">>)), NoSecret) /\ UNCHANGED rpc
           ELSE /\ serving' = [serving EXCEPT ![e] = m]
                /\ rpc' = [rpc EXCEPT ![Direct(e)] =
                              NewRpc(m.req, m.id, ConvertToStringMap(m.headers), "none", r.org)]
                /\ UNCHANGED call
        /\ UNCHANGED <<scopes, secrets, bridge, calls>>

\* HandleRequest once the method returned.
HandleResponse(e) ==
    LET k == Direct(e)
    IN  /\ rpc[k].st = "back"
        /\ rpc' = [rpc EXCEPT ![k] = NoRpc]
        /\ Reply(e, serving[e], IF rpc[k].status.code = "OK" THEN Respond ELSE respondError(rpc[k].status),
                 rpc[k].value)
        /\ UNCHANGED <<scopes, secrets, inbox, bridge, calls>>

\* A panic on the subscription's goroutine is answered too.
HandlePanic(e) ==
    LET m == Head(inbox[e])
    IN  /\ inbox[e] # <<>> /\ serving[e] = NoRequest
        /\ inbox' = [inbox EXCEPT ![e] = Tail(@)]
        /\ Reply(e, m, respondError(Status("Internal", <<"internal error">>)), NoSecret)
        /\ UNCHANGED <<rpc, scopes, secrets, bridge, calls>>

\* StartNATSHandlerGateway's goroutine, after its second's pause: connect, or give up.
StartNATSHandlerGateway ==
    /\ bridge.st = "settling"
    /\ \E st \in {"registering", "failed"} : bridge' = [bridge EXCEPT !.st = st]
    /\ UNCHANGED <<call, rpc, scopes, secrets, inbox, serving, calls>>

\* Register: an endpoint listens as soon as it is added.  When one cannot be
\* added, the ones before it stay.
RegisterGreeterNATSHandlerClient ==
    /\ bridge.st = "registering" /\ bridge.listening < Len(Endpoints)
    /\ \/ bridge' = [bridge EXCEPT !.listening = @ + 1]
       \/ bridge' = [bridge EXCEPT !.st = "failed"]
    /\ UNCHANGED <<call, rpc, scopes, secrets, inbox, serving, calls>>

SetNATSMicroServicesContainer ==
    /\ bridge.st = "registering" /\ bridge.listening = Len(Endpoints)
    /\ bridge' = [bridge EXCEPT !.st = "up", !.container = TRUE]
    /\ UNCHANGED <<call, rpc, scopes, secrets, inbox, serving, calls>>

\* Shutdown stops the services and closes the connection; handlers at work go on.
Shutdown ==
    /\ bridge.container /\ bridge.st = "up"
    /\ bridge' = [st |-> "closed", listening |-> 0, container |-> TRUE]
    /\ inbox' = [e \in ToSet(Endpoints) |-> <<>>]
    /\ UNCHANGED <<call, rpc, scopes, secrets, serving, calls>>

-----------------------------------------------------------------------------
Serving ==
    \/ \E k \in Keys : Intercept(k) \/ RuntimeFails(k) \/ Serve(k) \/ Return(k)
    \/ \E c \in Callers : RegisterGreeterHandlerClient(c) \/ TimeOut(c) \/ Abandon(c)
    \/ \E e \in ToSet(Endpoints) : HandleRequest(e) \/ HandleResponse(e) \/ HandlePanic(e)

AppNext ==
    \/ \E c \in Callers, r \in Requests : Send(c, r)
    \/ \E c \in Callers : Cancel(c)
    \/ Serving \/ Tick
    \/ StartNATSHandlerGateway \/ RegisterGreeterNATSHandlerClient
    \/ SetNATSMicroServicesContainer \/ Shutdown

\* Goroutines are scheduled and timers fire.
AppSpec == AppInit /\ [][AppNext]_appVars /\ WF_appVars(Serving) /\ WF_appVars(Tick)

-----------------------------------------------------------------------------
\* A secret is read by an identity it was set with: however the calls of
\* several users cross on the endpoints, and whatever became of their callers.
SecretsAreOwned ==
    \A c \in Callers :
      call[c].st = "done" /\ call[c].value # NoSecret =>
        call[c].value \intersect Identities(call[c].req) # {}

\* The org a request is about: the subject's, where there is one and it differs.
OrgOf(r) == IF r.via = "raw" /\ r.method = "SayHello" THEN r.subjectOrg ELSE r.org

\* What the subjects have to do with it: a route that matches gives it back.
RoutesCarryOrg ==
    \A r \in Requests :
      r.via \in {"nats", "raw"} /\ Subject(r).code = "OK" /\ Injected[r].ok => Injected[r].org = OrgOf(r)

\* A call is served as it was sent: the service sees the method and the org of
\* the request and one of its identities, or nobody only where it carried none.
ServedAsSent ==
    \A o \in Origins :
      LET p == rpc[Direct(o)]
      IN  p.st = "in" =>
            /\ p.method = p.req.method /\ p.org = OrgOf(p.req)
            /\ IF p.sub = "anonymous" THEN {p.req.tok, p.req.src} = {"none"} \/ (p.req.via \in {"grpc", "http"} /\ p.req.tok = "none")
               ELSE p.sub \in Identities(p.req)

\* The status a service ends a NATS call with is the one the handler returned,
\* and it has a message whenever it is an error.
StatusSurvives ==
    [][\A e \in ToSet(Endpoints) :
         LET m == serving[e]
             was == rpc[Direct(e)].status
             got == call'[m.from].status
         IN  rpc[Direct(e)].st = "back" /\ serving'[e] = NoRequest /\ WaitsFor(m.from, m.id)
               /\ call'[m.from].st = "done" /\ was.code \in Canonical \union {"OK"} =>
             got.code = was.code /\ (got.code # "OK" => got.message # <<>>)]_appVars

\* A handler that is through has answered: its caller does not wait for a
\* timeout while the connection is there.
HandlersAnswer ==
    \A c \in Callers :
      call[c].st = "wait" /\ call[c].req.via \in {"nats", "raw"} =>
        \/ bridge.st = "closed"
        \/ \E e \in ToSet(Endpoints) :
             \/ serving[e].id = call[c].id
             \/ \E i \in DOMAIN inbox[e] : inbox[e][i].id = call[c].id

\* Every call ends, also the ones whose service is gone.
CallsEnd == \A c \in Callers : Waiting(c) ~> ~Waiting(c)
=============================================================================
