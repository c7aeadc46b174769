---------------------------- MODULE GrpcClients -----------------------------
(***************************************************************************)
(* gRPC clients: what a list of options makes of a connection, and the     *)
(* generated accessors, which make one client on first use, by double-     *)
(* checked locking, and hand it to everybody.                              *)
(***************************************************************************)
EXTENDS Naturals, Sequences, FiniteSets
LOCAL SeqExt == INSTANCE SequencesExt

CONSTANTS Users,          \* goroutines that ask the accessor for its client
          OptionLists,    \* the option lists programs build clients with
          Programs,       \* the sets of accessors a program may have
          MaxDials        \* bound: connections a program makes of its own

VARIABLES conns,          \* the connections that were made
          accessor,       \* per accessor: its client (0: none) and its lock
          user            \* per user: where it is in which GetClient, and what it got
clientVars == <<conns, accessor, user>>

Accessors == DOMAIN accessor

Defaults == [insecure |-> TRUE, insecureSet |-> FALSE, sidecar |-> TRUE, bundle |-> "none",
             certs |-> 0, tokens |-> FALSE, otel |-> TRUE, datadog |-> FALSE]

\* One option applied; the last one of a kind counts.
Apply(c, o) ==
    CASE o.kind = "WithInsecure" -> [c EXCEPT !.insecure = o.on, !.insecureSet = TRUE]
      [] o.kind = "WithSidecarSecured" ->
           [c EXCEPT !.insecure = o.on, !.insecureSet = TRUE, !.sidecar = o.on]
      [] o.kind = "WithCertBundle" -> [c EXCEPT !.bundle = IF o.on THEN "file" ELSE "unreadable"]
      [] o.kind = "WithClientCert" -> [c EXCEPT !.certs = @ + 1]
      [] o.kind = "WithTokenSource" -> [c EXCEPT !.tokens = o.on]
      [] o.kind = "WithOTELTracer" -> [c EXCEPT !.otel = o.on]
      [] o.kind = "WithDataDogTracer" -> [c EXCEPT !.datadog = o.on]

\* All of them, in the order they are given.
Configured(opts) == SeqExt!FoldLeft(Apply, Defaults, opts)

\* tracingDialOptions: both may be on.
tracingDialOptions(c) == (IF c.otel THEN {"otel"} ELSE {}) \union (IF c.datadog THEN {"datadog"} ELSE {})

\* tlsConfig: the bundle's roots, or the system's, and the client's certificates.
tlsConfig(c) == [roots |-> IF c.bundle # "none" THEN "bundle" ELSE "system", certs |-> c.certs]

\* The credentials of each call, and what their security check does about a
\* transport without TLS: a warning, unless a sidecar is trusted to encrypt.
NewOauthAccessFromTokenSource(c) == [sent |-> TRUE, warns |-> ~c.sidecar]
NoCredentials == [sent |-> FALSE, warns |-> FALSE]

Refused == [ok |-> FALSE]
Connection(c, tls) ==
    [ok |-> TRUE, given |-> c, plaintext |-> tls.roots = "none", tls |-> tls,
     tracing |-> tracingDialOptions(c),
     creds |-> IF ~c.tokens THEN NoCredentials
               ELSE IF tls.roots # "none" THEN [sent |-> TRUE, warns |-> FALSE]
               ELSE NewOauthAccessFromTokenSource(c)]

\* NewGRPCClient: a bundle or a certificate means TLS, against which an
\* explicit WithInsecure(true) is a conflict.
NewGRPCClient(opts) ==
    LET c == Configured(opts)
        asksTLS == c.bundle # "none" \/ c.certs > 0
        plain == c.insecure /\ ~asksTLS
    IN  IF asksTLS /\ c.insecureSet /\ c.insecure THEN Refused
        ELSE IF plain THEN Connection(c, [roots |-> "none", certs |-> 0])
        ELSE IF c.bundle = "unreadable" THEN Refused
        ELSE Connection(c, tlsConfig(c))

\* A generated accessor: the service its client calls, at the Url of a
\* configuration of its own, and the options it asks the factory for.
Accessor(service) ==
    [service |-> service, url |-> <<"url of", service>>,
     options |-> <<[kind |-> "WithTokenSource", on |-> TRUE], [kind |-> "WithInsecure", on |-> TRUE]>>]
AppGreeterClientAccessor == Accessor("Greeter")
AppGreeter2ClientAccessor == Accessor("Greeter2")
AppMyStreamServiceClientAccessor == Accessor("MyStreamService")
AppSomeServiceClientAccessor == Accessor("SomeService")
AppSomeService2ClientAccessor == Accessor("SomeService2")

NewGrpcClient(a) == [client |-> a.service, url |-> a.url, conn |-> NewGRPCClient(a.options)]
OwnClient(opts) == [client |-> "own", url |-> <<"url of", "own">>, conn |-> NewGRPCClient(opts)]

ClientInit ==
    /\ conns = <<>>
    /\ \E p \in Programs :
         /\ accessor = [a \in p |-> [client |-> 0, readers |-> {}, writer |-> {}]]
         /\ user = [u \in Users |-> [pc |-> "idle", of |-> CHOOSE a \in p : TRUE, got |-> 0]]

\* A program makes a client of its own.
Dial(u) ==
    /\ user[u].pc = "idle" /\ Len(conns) < MaxDials
    /\ \E opts \in OptionLists :
         conns' = IF NewGRPCClient(opts).ok THEN Append(conns, OwnClient(opts)) ELSE conns
    /\ UNCHANGED <<accessor, user>>

To(u, pc, a, got) == user' = [user EXCEPT ![u] = [pc |-> pc, of |-> a, got |-> got]]
Holds(a, client, readers, writer) ==
    accessor' = [accessor EXCEPT ![a] = [client |-> client, readers |-> readers, writer |-> writer]]
Stands(u, pc, a) == user[u].pc = pc /\ user[u].of = a

\* doGetClient: the read lock, then the look, then the lock is given back.
RLock(u, a) ==
    /\ user[u].pc = "idle" /\ accessor[a].writer = {}
    /\ Holds(a, accessor[a].client, accessor[a].readers \union {u}, {})
    /\ To(u, "reading", a, 0) /\ UNCHANGED conns

doGetClient(u, a) ==
    /\ Stands(u, "reading", a)
    /\ Holds(a, accessor[a].client, accessor[a].readers \ {u}, accessor[a].writer)
    /\ To(u, IF accessor[a].client # 0 THEN "idle" ELSE "missed", a, accessor[a].client)
    /\ UNCHANGED conns

\* No lock is held while the token source is asked for; without one there is
\* no client.
GetTokenSource(u, a) ==
    /\ Stands(u, "missed", a)
    /\ To(u, "idle", a, 0) \/ To(u, "has a token source", a, 0)
    /\ UNCHANGED <<conns, accessor>>

Lock(u, a) ==
    /\ Stands(u, "has a token source", a) /\ accessor[a].writer = {} /\ accessor[a].readers = {}
    /\ Holds(a, accessor[a].client, {}, {u})
    /\ To(u, "writing", a, 0) /\ UNCHANGED conns

\* Mutant: no second look.
GetClientNoRecheck(u, a) ==
    /\ Stands(u, "writing", a)
    /\ conns' = Append(conns, NewGrpcClient(a))
    /\ Holds(a, Len(conns) + 1, accessor[a].readers, {})
    /\ To(u, "idle", a, Len(conns) + 1)

\* The second look under the lock, the new client otherwise; the factory may
\* fail, and then the next caller tries again.
GetClient(u, a) ==
    /\ Stands(u, "writing", a)
    /\ \/ /\ accessor[a].client # 0
          /\ Holds(a, accessor[a].client, accessor[a].readers, {})
          /\ To(u, "idle", a, accessor[a].client) /\ UNCHANGED conns
       \/ /\ accessor[a].client = 0 /\ NewGRPCClient(a.options).ok
          /\ conns' = Append(conns, NewGrpcClient(a))
          /\ Holds(a, Len(conns) + 1, accessor[a].readers, {})
          /\ To(u, "idle", a, Len(conns) + 1)
       \/ /\ accessor[a].client = 0
          /\ Holds(a, accessor[a].client, accessor[a].readers, {})
          /\ To(u, "idle", a, 0) /\ UNCHANGED conns

ClientNext ==
    \E u \in Users :
      \/ Dial(u)
      \/ \E a \in Accessors : \/ RLock(u, a) \/ doGetClient(u, a) \/ GetTokenSource(u, a)
                               \/ Lock(u, a) \/ GetClient(u, a)

ClientSpec == ClientInit /\ [][ClientNext]_clientVars

\* Whoever gives a CA bundle or a client certificate never talks in plaintext,
\* whatever other options come before or after, and its certificates are used
\* (NewGRPCClient); and everybody who got a client from an accessor, while
\* others asked for it too, got the same one, of the accessor's service and at
\* its Url (GetClient).
ClientsAreAsAsked ==
    /\ \A i \in DOMAIN conns :
         LET c == conns[i].conn
         IN  c.given.bundle # "none" \/ c.given.certs > 0 =>
               /\ ~c.plaintext /\ c.tls.certs = c.given.certs
               /\ c.given.bundle # "none" => c.tls.roots = "bundle"
    /\ \A u \in Users : user[u].got # 0 =>
         /\ conns[user[u].got].client = user[u].of.service /\ conns[user[u].got].url = user[u].of.url
         /\ \A v \in Users : user[v].got # 0 /\ user[u].of = user[v].of => user[u].got = user[v].got
=============================================================================
