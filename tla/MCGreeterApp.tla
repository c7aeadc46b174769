---------------------------- MODULE MCGreeterApp ----------------------------
(* Two callers, two users, one certificate, calls by every transport. *)
EXTENDS GreeterApp

A == <<"a">>
MCCallers == {"c1", "c2"}
MCEndpoints == <<"SayHello", "SetSecret", "GetSecret">>
MCWriters == {"bob"}
MCGrpcFailures == {Status("Unknown", <<>>)}

R(via, method, org, tok, src) ==
    [via |-> via, method |-> method, org |-> org, subjectOrg |-> org, tok |-> tok, src |-> src,
     cert |-> "none", deadline |-> Forever, body |-> "ok"]

MCRequests ==
    {[R("grpc", "SetSecret", A, "none", "none") EXCEPT !.cert = "cert1"],
     [R("grpc", "SayHelloAuth", A, "bob", "none") EXCEPT !.deadline = 0],
     R("http", "SetSecret", A, "alice", "none"),
     [R("http", "SayHello", A, "none", "none") EXCEPT !.body = "bad"],
     [R("nats", "SetSecret", A, "none", "alice") EXCEPT !.deadline = 0],
     R("nats", "GetSecret", A, "alice", "bob"),
     R("nats", "SayHello", A, "bad", "none"),
     R("nats", "SayHello", <<"a", ".", "b">>, "none", "none"),
     R("intercepted", "SayHello", A, "none", "none"),
     R("nats", "GetSecret", A, "none", "bad"),
     [R("raw", "SayHello", A, "none", "none") EXCEPT !.subjectOrg = <<"b">>],
     [R("raw", "SetSecret", A, "none", "none") EXCEPT !.body = "bad"]}

ASSUME MCRoutes == RoutesCarryOrg
=============================================================================
