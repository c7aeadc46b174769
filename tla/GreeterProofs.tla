--------------------------- MODULE GreeterProofs ----------------------------
(***************************************************************************)
(* What holds of the greeter service behind its three transports for any   *)
(* callers, requests, users, endpoints and failures of the gRPC runtime.   *)
(* The last part is about the claims principal of a request.               *)
(*                                                                         *)
(* The argument follows a request by its id: whoever holds a piece of it   *)
(* (the caller, a message in an inbox, the handler at work, the gRPC call) *)
(* holds the same request, and the identities the server acts for are the  *)
(* request's own.                                                          *)
(***************************************************************************)
EXTENDS GreeterApp, ClaimsPrincipal, TLAPS

Messages ==
    [id : Nat, from : Callers, req : Requests,
     headers : {createNATSRequestHeaders(r.tok, r.src) : r \in Requests}]

\* A message of the bridge stands for a call that was made, and for no other.
MessageOK(m) ==
    /\ m.id \in 1 .. calls /\ m.from \in Callers /\ m.req \in Requests
    /\ m.req.via \in {"nats", "raw"} /\ Subject(m.req).code = "OK"
    /\ m.headers = createNATSRequestHeaders(m.req.tok, m.req.src)
    /\ \A c \in Callers : call[c].st # "idle" /\ call[c].id = m.id => m.from = c /\ call[c].req = m.req

\* What is handed on is a secret the request's own identities share, or nothing.
ValueOK(value, r) == value = NoSecret \/ value \intersect Identities(r) # {}

\* A status has no message or one with something in it.
Worded(s) == s.message = <<>> \/ DOMAIN s.message # {}

\* A caller that is not idle has a call, and what it was given is its own.
CallOK(c) ==
    \/ call[c].st = "idle"
    \/ /\ call[c].st \in {"http", "wait", "done"}
       /\ call[c].id \in 1 .. calls /\ call[c].req \in Requests
       /\ call[c].st = "http" => call[c].req.via = "http"
       /\ call[c].st = "done" => ValueOK(call[c].value, call[c].req)

\* The tokens a gRPC call may be authenticated with, by its request.
TokensOf(r) ==
    IF r.via \in {"grpc", "http"} THEN {r.tok}
    ELSE ConvertToStringMap(createNATSRequestHeaders(r.tok, r.src))

\* A gRPC call in each of its states.  A downstream call carries no identity.
PendingOK(k) ==
    /\ rpc[k].tokens = IF k[2] = "call" THEN TokensOf(rpc[k].req) ELSE {"none"}
    /\ rpc[k].cert \in {"none", rpc[k].req.cert}
    /\ rpc[k].method = IF k[2] = "call" THEN rpc[k].req.method ELSE "SayHelloDownstream"

InOK(k) ==
    /\ rpc[k].sub = "anonymous" \/ rpc[k].sub \in Identities(rpc[k].req)
    /\ k[2] = "call" /\ rpc[k].sub = "anonymous" => "none" \in TokensOf(rpc[k].req)
    /\ rpc[k].cert \in {"none", rpc[k].req.cert}
    /\ rpc[k].method = IF k[2] = "call" THEN rpc[k].req.method ELSE "SayHelloDownstream"

AnswerOK(k) ==
    /\ Worded(rpc[k].status)
    /\ ValueOK(rpc[k].value, rpc[k].req)
    /\ k[2] = "down" => rpc[k].value = NoSecret

RpcOK(k) ==
    \/ rpc[k] = NoRpc
    \/ /\ rpc[k].st \in {"pending", "in", "down", "out", "back"}
       /\ rpc[k].req \in Requests /\ rpc[k].id \in 1 .. calls
       /\ rpc[k].st = "pending" => PendingOK(k)
       /\ rpc[k].st = "in" => InOK(k)
       /\ rpc[k].st \in {"out", "back"} => AnswerOK(k)

\* The gRPC call of a caller is the call the caller made last.
CallerHolds(c) ==
    rpc[Direct(c)] # NoRpc =>
      /\ call[c].st \in {"wait", "done"}
      /\ rpc[Direct(c)].id = call[c].id /\ rpc[Direct(c)].req = call[c].req

\* The gRPC call of an endpoint's handler is the one of the message it works on.
HandlerHolds(e) ==
    \/ serving[e] = NoRequest /\ rpc[Direct(e)] = NoRpc
    \/ /\ MessageOK(serving[e])
       /\ rpc[Direct(e)] # NoRpc
       /\ rpc[Direct(e)].id = serving[e].id /\ rpc[Direct(e)].req = serving[e].req

\* A secret holds the identity it is kept under.
StoreOK == \A x \in DOMAIN secrets : x[1][2] \in secrets[x]

\* The inductive invariant, part by part.
Shape ==
    /\ calls \in Nat
    /\ DOMAIN call = Callers /\ DOMAIN rpc = Keys
    /\ DOMAIN serving = ToSet(Endpoints) /\ inbox \in [ToSet(Endpoints) -> Seq(Messages)]

CallsOK == \A c \in Callers : CallOK(c)
CallersHold == \A c \in Callers : CallerHolds(c)
RpcsOK == \A k \in Keys : RpcOK(k)
HandlersHold == \A e \in ToSet(Endpoints) : HandlerHolds(e)
InboxesOK == \A e \in ToSet(Endpoints) : \A m \in ToSet(inbox[e]) : MessageOK(m)

AppInv ==
    /\ Shape /\ CallsOK /\ CallersHold /\ RpcsOK /\ HandlersHold /\ InboxesOK /\ StoreOK

-----------------------------------------------------------------------------
(* Queues and keys. *)

\* What is appended joins what is queued.
LEMMA QueueAppend ==
    ASSUME NEW M, NEW s \in Seq(M), NEW m \in M
    PROVE  Append(s, m) \in Seq(M) /\ ToSet(Append(s, m)) = ToSet(s) \union {m}
<1>1. /\ Append(s, m) \in Seq(M) /\ Len(Append(s, m)) = Len(s) + 1
      /\ \A i \in 1 .. Len(s) : Append(s, m)[i] = s[i]
      /\ Append(s, m)[Len(s) + 1] = m
  OBVIOUS
<1>2. DOMAIN s = 1 .. Len(s) /\ DOMAIN Append(s, m) = 1 .. Len(s) + 1 /\ Len(s) \in Nat
  BY <1>1
<1>3. ToSet(s) = {s[i] : i \in 1 .. Len(s)}
      /\ ToSet(Append(s, m)) = {Append(s, m)[i] : i \in 1 .. Len(s) + 1}
  BY <1>2 DEF ToSet
<1>4. QED BY <1>1, <1>2, <1>3

\* The head and the tail of a queue are what is queued.
LEMMA QueueTail ==
    ASSUME NEW M, NEW s \in Seq(M), s # <<>>
    PROVE  /\ Head(s) \in M /\ Tail(s) \in Seq(M)
           /\ ToSet(s) = ToSet(Tail(s)) \union {Head(s)}
<1>1. /\ Tail(s) \in Seq(M) /\ Len(s) \in Nat \ {0} /\ Len(Tail(s)) = Len(s) - 1
      /\ Head(s) = s[1] /\ Head(s) \in M
      /\ \A i \in 1 .. Len(s) - 1 : Tail(s)[i] = s[i + 1]
  OBVIOUS
<1>2. DOMAIN s = 1 .. Len(s) /\ DOMAIN Tail(s) = 1 .. Len(s) - 1
  BY <1>1
<1>3. ToSet(s) = {s[i] : i \in 1 .. Len(s)}
      /\ ToSet(Tail(s)) = {Tail(s)[i] : i \in 1 .. Len(s) - 1}
  BY <1>2 DEF ToSet
<1>4. ASSUME NEW x \in ToSet(s) PROVE x \in ToSet(Tail(s)) \union {Head(s)}
  <2>1. PICK i \in 1 .. Len(s) : x = s[i]
    BY <1>3
  <2>2. i = 1 \/ (i - 1 \in 1 .. Len(s) - 1 /\ Tail(s)[i - 1] = s[i])
    BY <1>1, <2>1
  <2>3. QED BY <1>1, <1>3, <2>1, <2>2
<1>5. ASSUME NEW x \in ToSet(Tail(s)) \union {Head(s)} PROVE x \in ToSet(s)
  BY <1>1, <1>3
<1>6. QED BY <1>1, <1>4, <1>5

LEMMA QueueEmpty == ToSet(<<>>) = {}
  BY DEF ToSet

\* A key is an origin's direct call or its downstream call.
LEMMA KeyFacts ==
    /\ Callers \subseteq Origins /\ ToSet(Endpoints) \subseteq Origins
    /\ \A o \in Origins : /\ Direct(o) \in Keys /\ Down(o) \in Keys
                          /\ Direct(o)[1] = o /\ Direct(o)[2] = "call"
                          /\ Down(o)[1] = o /\ Down(o)[2] = "down"
    /\ \A o \in Origins, p \in Origins : Direct(o) # Down(p) /\ (Direct(o) = Direct(p) => o = p)
    /\ \A k \in Keys : k[1] \in Origins /\ (k = Direct(k[1]) \/ k = Down(k[1]))
    /\ \A c \in Callers, e \in ToSet(Endpoints) : c # e
  BY AppAssumption DEF Origins, Keys, Direct, Down

\* The tokens a bridged call carries are its request's, and "none" only when
\* the request has neither.
LEMMA TokensFacts ==
    ASSUME NEW r, NEW t \in TokensOf(r)
    PROVE  /\ t \in {"none", r.tok, r.src}
           /\ t = "none" => r.tok = "none" /\ (r.src = "none" \/ r.via \in {"grpc", "http"})
<1> DEFINE headers == createNATSRequestHeaders(r.tok, r.src)
<1>1. CASE r.via \in {"grpc", "http"}
  BY <1>1 DEF TokensOf
<1>2. CASE r.via \notin {"grpc", "http"} /\ headers = {}
  <2>1. r.tok = "none" /\ r.src = "none"
    BY <1>2 DEF createNATSRequestHeaders
  <2>2. t = "none"
    BY <1>2 DEF TokensOf, ConvertToStringMap
  <2>3. QED BY <2>1, <2>2
<1>3. CASE r.via \notin {"grpc", "http"} /\ headers # {}
  <2>1. PICK h \in headers : t = h[2]
    BY <1>3 DEF TokensOf, ConvertToStringMap
  <2>2. (h[2] = r.tok /\ r.tok # "none") \/ (h[2] = r.src /\ r.src # "none")
    <3>1. CASE r.tok # "none" /\ h = <<"authorization", r.tok>>
      BY <3>1
    <3>2. CASE r.src # "none" /\ h = <<"Authorization", r.src>>
      BY <3>2
    <3>3. QED BY <3>1, <3>2 DEF createNATSRequestHeaders
  <2>3. QED BY <2>1, <2>2
<1>4. QED BY <1>1, <1>2, <1>3

\* The statuses of the interceptors and of the service.
LEMMA StatusFacts ==
    ASSUME NEW c, NEW m
    PROVE  Worded(Status(c, <<m>>))
<1>1. 1 \in DOMAIN <<m>>
  OBVIOUS
<1>2. QED BY <1>1 DEF Status, Worded

\* A status in a reply's headers: the reply is sent, it reads back as the
\* status, and an error has a message.
LEMMA RepliesSurvive ==
    ASSUME NEW s, Worded(s)
    PROVE  LET reply == IF s.code = "OK" THEN Respond ELSE respondError(s)
           IN  /\ reply.sent
               /\ s.code \in Canonical \union {"OK"} =>
                    /\ statusFromNATSResponse(reply).code = s.code
                    /\ s.code # "OK" => statusFromNATSResponse(reply).message # <<>>
<1> DEFINE message == IF s.message = <<>> THEN <<s.code>> ELSE s.message
<1>1. DOMAIN message # {}
  <2>1. CASE s.message = <<>>
    <3>1. 1 \in DOMAIN <<s.code>>
      OBVIOUS
    <3>2. QED BY <2>1, <3>1
  <2>2. CASE s.message # <<>>
    BY <2>2 DEF Worded
  <2>3. QED BY <2>1, <2>2
<1>2. headerSafe(message) # <<>>
  <2>1. DOMAIN headerSafe(message) = DOMAIN message
    BY DEF headerSafe
  <2>2. QED BY <1>1, <2>1
<1>3. respondError(s) = [sent |-> TRUE, serviceCode |-> grpcToServiceCode(s.code),
                         grpcCode |-> s.code, message |-> headerSafe(message)]
  BY <1>2 DEF respondError, RequestError
<1>4. CASE s.code = "OK"
  BY <1>4 DEF Respond, statusFromNATSResponse, OK, Status
<1>5. CASE s.code # "OK"
  BY <1>2, <1>3, <1>5 DEF statusFromNATSResponse, Status
<1>6. QED BY <1>4, <1>5

-----------------------------------------------------------------------------
(* Frames. *)

\* A call that was made keeps its id and its request until the next one.
CallsStay ==
    \A c \in Callers :
      call'[c].st # "idle" =>
        \/ call'[c].id = calls + 1
        \/ call[c].st # "idle" /\ call'[c].id = call[c].id /\ call'[c].req = call[c].req

\* Then every message keeps standing for the call it stood for.
LEMMA MessagesStay ==
    ASSUME AppInv, CallsStay, calls' \in Nat, calls' >= calls, NEW m, MessageOK(m)
    PROVE  MessageOK(m)'
<1>1. calls \in Nat
  BY DEF AppInv, Shape
<1>2. m.id \in 1 .. calls' /\ m.id # calls + 1
  BY <1>1 DEF MessageOK
<1>3. QED BY <1>2 DEF MessageOK, CallsStay

\* The messages at work and in the inboxes, where a step does not touch them.
LEMMA ServedStays ==
    ASSUME AppInv, CallsStay, calls' \in Nat, calls' >= calls,
           NEW e \in ToSet(Endpoints), serving'[e] = serving[e],
           rpc'[Direct(e)] # NoRpc <=> rpc[Direct(e)] # NoRpc,
           rpc'[Direct(e)].id = rpc[Direct(e)].id, rpc'[Direct(e)].req = rpc[Direct(e)].req
    PROVE  HandlerHolds(e)'
<1>1. HandlerHolds(e)
  BY DEF AppInv, HandlersHold
<1>2. CASE serving[e] = NoRequest /\ rpc[Direct(e)] = NoRpc
  BY <1>2 DEF HandlerHolds
<1>3. CASE serving[e] # NoRequest \/ rpc[Direct(e)] # NoRpc
  <2>1. PICK m : m = serving[e]
    OBVIOUS
  <2>2. MessageOK(m) /\ rpc[Direct(e)] # NoRpc
        /\ rpc[Direct(e)].id = m.id /\ rpc[Direct(e)].req = m.req
    BY <1>1, <1>3, <2>1 DEF HandlerHolds
  <2>3. MessageOK(m)'
    BY <2>2, MessagesStay
  <2>4. QED BY <2>1, <2>2, <2>3 DEF HandlerHolds, MessageOK
<1>4. QED BY <1>2, <1>3

LEMMA QueuedStays ==
    ASSUME AppInv, CallsStay, calls' \in Nat, calls' >= calls,
           NEW e \in ToSet(Endpoints), ToSet(inbox'[e]) \subseteq ToSet(inbox[e])
    PROVE  \A m \in ToSet(inbox'[e]) : MessageOK(m)'
<1>1. ASSUME NEW m \in ToSet(inbox'[e]) PROVE MessageOK(m)'
  <2>1. MessageOK(m)
    BY DEF AppInv, InboxesOK
  <2>2. QED BY <2>1, MessagesStay
<1>2. QED BY <1>1

\* One gRPC call goes on, and stays the call it was.
LEMMA RpcStep ==
    ASSUME AppInv, NEW k \in Keys, rpc[k] # NoRpc, DOMAIN rpc' = Keys,
           \A j \in Keys \ {k} : rpc'[j] = rpc[j],
           rpc'[k] # NoRpc, rpc'[k].id = rpc[k].id, rpc'[k].req = rpc[k].req,
           RpcOK(k)', StoreOK', UNCHANGED <<call, inbox, serving, calls>>
    PROVE  AppInv'
<1>1. Shape'
  BY DEF AppInv, Shape
<1>2. CallsOK'
  BY DEF AppInv, CallsOK, CallOK
<1>3. CallersHold'
  BY KeyFacts DEF AppInv, CallersHold, CallerHolds
<1>4. RpcsOK'
  <2>1. ASSUME NEW j \in Keys, j # k PROVE RpcOK(j)'
    BY <2>1 DEF AppInv, RpcsOK, RpcOK, PendingOK, InOK, AnswerOK
  <2>2. QED BY <2>1 DEF RpcsOK
<1>5. CallsStay /\ calls' \in Nat /\ calls' >= calls
  BY DEF AppInv, Shape, CallsStay
<1>6. HandlersHold'
  BY <1>5, KeyFacts, ServedStays DEF HandlersHold
<1>7. InboxesOK'
  BY <1>5, QueuedStays DEF InboxesOK
<1>8. QED BY <1>1, <1>2, <1>3, <1>4, <1>6, <1>7 DEF AppInv

\* A gRPC call that is not answered yet has a request.
LEMMA AtWork ==
    ASSUME AppInv, NEW k \in Keys, rpc[k].st \in {"pending", "in", "down", "out", "back"}
    PROVE  /\ DOMAIN rpc = Keys /\ rpc[k] # NoRpc
           /\ rpc[k].req \in Requests /\ rpc[k].id \in 1 .. calls
           /\ rpc[k].st = "pending" => PendingOK(k)
           /\ rpc[k].st = "in" => InOK(k)
           /\ rpc[k].st \in {"out", "back"} => AnswerOK(k)
<1>1. RpcOK(k) /\ DOMAIN rpc = Keys
  BY DEF AppInv, RpcsOK, Shape
<1>2. rpc[k] # NoRpc
  BY DEF NoRpc
<1>3. QED BY <1>1, <1>2 DEF RpcOK

\* A gRPC call is answered.
LEMMA AnswerStep ==
    ASSUME AppInv, NEW k \in Keys, rpc[k].st \in {"pending", "in", "down"},
           NEW s, Worded(s),
           NEW v, ValueOK(v, rpc[k].req), k[2] = "down" => v = NoSecret,
           rpc' = Answer(k, s, v), StoreOK', UNCHANGED <<call, inbox, serving, calls>>
    PROVE  AppInv'
<1>1. /\ DOMAIN rpc = Keys /\ rpc[k] # NoRpc
      /\ rpc[k].req \in Requests /\ rpc[k].id \in 1 .. calls
  BY AtWork
<1>2. /\ DOMAIN rpc' = Keys /\ \A j \in Keys \ {k} : rpc'[j] = rpc[j]
      /\ rpc'[k] = [st |-> "out", req |-> rpc[k].req, id |-> rpc[k].id, status |-> s, value |-> v]
  BY <1>1 DEF Answer
<1>3. rpc'[k] # NoRpc /\ rpc'[k].st = "out" /\ rpc'[k].id = rpc[k].id /\ rpc'[k].req = rpc[k].req
      /\ rpc'[k].status = s /\ rpc'[k].value = v
  BY <1>2 DEF NoRpc
<1>4. RpcOK(k)'
  BY <1>1, <1>3 DEF RpcOK, AnswerOK, ValueOK
<1>5. QED BY <1>1, <1>2, <1>3, <1>4, RpcStep

LEMMA StoreStays == ASSUME StoreOK, UNCHANGED secrets PROVE StoreOK'
  BY DEF StoreOK

-----------------------------------------------------------------------------
(* The gRPC server's steps. *)

LEMMA InterceptStep ==
    ASSUME AppInv, NEW k \in Keys, Intercept(k) PROVE AppInv'
<1>1. /\ DOMAIN rpc = Keys /\ rpc[k] # NoRpc /\ rpc[k].st = "pending"
      /\ rpc[k].req \in Requests /\ rpc[k].id \in 1 .. calls /\ PendingOK(k)
  BY AtWork DEF Intercept
<1>2. StoreOK'
  BY StoreStays DEF AppInv, Intercept
<1>3. PICK token \in rpc[k].tokens :
        LET sub == IF token = "none" THEN "anonymous" ELSE token
        IN  rpc' = IF token = "bad" THEN Answer(k, Status("Unauthenticated", <<"token">>), NoSecret)
                   ELSE IF ~Allowed(rpc[k].method, sub, rpc[k].cert)
                        THEN Answer(k, Status("PermissionDenied", <<"claims">>), NoSecret)
                   ELSE [rpc EXCEPT ![k] =
                           [st |-> "in", req |-> @.req, id |-> @.id, method |-> @.method,
                            org |-> @.org, sub |-> sub, cert |-> @.cert]]
  BY DEF Intercept
<1> DEFINE sub == IF token = "none" THEN "anonymous" ELSE token
<1>4. CASE rpc' = Answer(k, Status("Unauthenticated", <<"token">>), NoSecret)
  <2>1. PICK s : s = Status("Unauthenticated", <<"token">>)
    OBVIOUS
  <2>2. Worded(s)
    BY <2>1, StatusFacts
  <2>3. rpc' = Answer(k, s, NoSecret)
    BY <1>4, <2>1
  <2>4. QED BY <1>1, <1>2, <2>2, <2>3, AnswerStep DEF Intercept, ValueOK
<1>5. CASE rpc' = Answer(k, Status("PermissionDenied", <<"claims">>), NoSecret)
  <2>1. PICK s : s = Status("PermissionDenied", <<"claims">>)
    OBVIOUS
  <2>2. Worded(s)
    BY <2>1, StatusFacts
  <2>3. rpc' = Answer(k, s, NoSecret)
    BY <1>5, <2>1
  <2>4. QED BY <1>1, <1>2, <2>2, <2>3, AnswerStep DEF Intercept, ValueOK
<1>6. CASE /\ token # "bad"
           /\ rpc' = [rpc EXCEPT ![k] =
                        [st |-> "in", req |-> rpc[k].req, id |-> rpc[k].id, method |-> rpc[k].method,
                         org |-> rpc[k].org, sub |-> sub, cert |-> rpc[k].cert]]
  <2>1. /\ DOMAIN rpc' = Keys /\ \A j \in Keys \ {k} : rpc'[j] = rpc[j]
        /\ rpc'[k] = [st |-> "in", req |-> rpc[k].req, id |-> rpc[k].id, method |-> rpc[k].method,
                      org |-> rpc[k].org, sub |-> sub, cert |-> rpc[k].cert]
    BY <1>1, <1>6
  <2>2. /\ rpc'[k] # NoRpc /\ rpc'[k].st = "in"
        /\ rpc'[k].id = rpc[k].id /\ rpc'[k].req = rpc[k].req
        /\ rpc'[k].method = rpc[k].method /\ rpc'[k].cert = rpc[k].cert /\ rpc'[k].sub = sub
    BY <2>1 DEF NoRpc
  <2>3. sub = "anonymous" \/ sub \in Identities(rpc[k].req)
    <3>1. k[2] = "call" => token \in {"none", rpc[k].req.tok, rpc[k].req.src}
      BY <1>1, TokensFacts DEF PendingOK
    <3>2. k[2] # "call" => token = "none"
      BY <1>1 DEF PendingOK
    <3>3. QED BY <1>6, <3>1, <3>2 DEF Identities
  <2>4. k[2] = "call" /\ sub = "anonymous" => "none" \in TokensOf(rpc[k].req)
    <3>1. k[2] = "call" => token \in TokensOf(rpc[k].req) /\ token # "anonymous"
      BY <1>1, TokensFacts, IdentityAssumption DEF PendingOK
    <3>2. QED BY <3>1
  <2>5. InOK(k)'
    BY <1>1, <2>2, <2>3, <2>4 DEF InOK, PendingOK
  <2>6. RpcOK(k)'
    BY <1>1, <2>2, <2>5 DEF RpcOK, Intercept
  <2>7. QED BY <1>1, <1>2, <2>1, <2>2, <2>6, RpcStep DEF Intercept
<1>7. QED BY <1>3, <1>4, <1>5, <1>6

LEMMA RuntimeFailsStep ==
    ASSUME AppInv, NEW k \in Keys, RuntimeFails(k) PROVE AppInv'
<1>1. PICK s \in GrpcFailures : rpc' = Answer(k, s, NoSecret)
  BY DEF RuntimeFails
<1>2. StoreOK'
  BY StoreStays DEF AppInv, RuntimeFails
<1>3. Worded(s) /\ ValueOK(NoSecret, rpc[k].req)
  <2>1. s.message \in Seq(STRING)
    BY AppAssumption
  <2>2. s.message = <<>> \/ 1 \in DOMAIN s.message
    BY <2>1
  <2>3. QED BY <2>2 DEF Worded, ValueOK
<1>4. QED BY <1>1, <1>2, <1>3, AnswerStep DEF RuntimeFails

LEMMA AbandonStep ==
    ASSUME AppInv, NEW o \in Callers, Abandon(o) PROVE AppInv'
<1>1. StoreOK' /\ Direct(o) \in Keys /\ Direct(o)[2] = "call"
  BY StoreStays, KeyFacts DEF AppInv, Abandon
<1>2. PICK s : s = statusFromTransportError("Canceled")
  OBVIOUS
<1>3. Worded(s)
  BY <1>2, StatusFacts DEF statusFromTransportError
<1>4. rpc' = Answer(Direct(o), s, NoSecret)
  BY <1>2 DEF Abandon
<1>5. QED BY <1>1, <1>3, <1>4, AnswerStep DEF Abandon, ValueOK

\* The downstream call starts, and its caller waits for it.
LEMMA SayHelloStep ==
    ASSUME AppInv, NEW k \in Keys, Serve(k), SayHello(k) PROVE AppInv'
<1> DEFINE d == Down(k[1])
<1>1. /\ DOMAIN rpc = Keys /\ rpc[k] # NoRpc /\ rpc[k].st = "in"
      /\ rpc[k].req \in Requests /\ rpc[k].id \in 1 .. calls /\ InOK(k)
      /\ UNCHANGED <<call, inbox, serving, calls, secrets>>
  BY AtWork DEF Serve, SayHello
<1>2. k[2] = "call"
  BY <1>1, KeyFacts DEF InOK, SayHello
<1>3. k = Direct(k[1]) /\ k[1] \in Origins /\ d \in Keys /\ d # k /\ d[2] = "down"
  BY <1>2, KeyFacts
<1>4. /\ DOMAIN rpc' = Keys /\ \A j \in Keys \ {k, d} : rpc'[j] = rpc[j]
      /\ rpc'[k] = [st |-> "down", req |-> rpc[k].req, id |-> rpc[k].id]
      /\ rpc'[d] = [st |-> "pending", req |-> rpc[k].req, id |-> rpc[k].id,
                    method |-> "SayHelloDownstream", tokens |-> {"none"}, cert |-> "none",
                    org |-> rpc[k].org]
  BY <1>1, <1>3 DEF SayHello
<1>5. /\ rpc'[k] # NoRpc /\ rpc'[k].st = "down"
      /\ rpc'[k].id = rpc[k].id /\ rpc'[k].req = rpc[k].req
  BY <1>4 DEF NoRpc
<1>6. /\ rpc'[d] # NoRpc /\ rpc'[d].st = "pending"
      /\ rpc'[d].id = rpc[k].id /\ rpc'[d].req = rpc[k].req
      /\ rpc'[d].method = "SayHelloDownstream" /\ rpc'[d].tokens = {"none"} /\ rpc'[d].cert = "none"
  BY <1>4 DEF NoRpc
<1>7. \A o \in Origins : Direct(o) # d /\ Direct(o) \in Keys
  BY <1>3, KeyFacts
<1>8. Shape' /\ CallsOK' /\ StoreOK'
  BY <1>1, <1>4 DEF AppInv, Shape, CallsOK, CallOK, StoreOK
<1>9. CallersHold'
  BY <1>1, <1>4, <1>5, <1>7, KeyFacts DEF AppInv, CallersHold, CallerHolds
<1>10. RpcsOK'
  <2>1. RpcOK(k)'
    BY <1>1, <1>5 DEF RpcOK
  <2>2. RpcOK(d)'
    BY <1>1, <1>3, <1>6 DEF RpcOK, PendingOK
  <2>3. ASSUME NEW j \in Keys \ {k, d} PROVE RpcOK(j)'
    BY <1>1, <1>4 DEF AppInv, RpcsOK, RpcOK, PendingOK, InOK, AnswerOK
  <2>4. QED BY <2>1, <2>2, <2>3 DEF RpcsOK
<1>11. CallsStay /\ calls' \in Nat /\ calls' >= calls
  BY <1>1 DEF AppInv, Shape, CallsStay
<1>12. HandlersHold'
  BY <1>1, <1>4, <1>5, <1>7, <1>11, KeyFacts, ServedStays DEF HandlersHold
<1>13. InboxesOK'
  BY <1>1, <1>11, QueuedStays DEF InboxesOK
<1>14. QED BY <1>8, <1>9, <1>10, <1>12, <1>13 DEF AppInv

\* An owner is one of the request's identities.
LEMMA OwnerFacts ==
    ASSUME AppInv, NEW k \in Keys, rpc[k].st = "in", secretOwner(rpc[k]) # <<>>
    PROVE  secretOwner(rpc[k])[2] \in Identities(rpc[k].req)
<1>1. InOK(k) /\ rpc[k].req \in Requests
  BY AtWork
<1>2. CASE rpc[k].sub # "anonymous"
  BY <1>1, <1>2 DEF secretOwner, InOK
<1>3. CASE rpc[k].sub = "anonymous" /\ rpc[k].cert # "none"
  BY <1>1, <1>3, IdentityAssumption DEF secretOwner, InOK, Identities
<1>4. QED BY <1>2, <1>3 DEF secretOwner

\* A secret is stored under one of the identities it holds.
LEMMA SetSecretStep ==
    ASSUME AppInv, NEW k \in Keys, Serve(k), SetSecret(k) PROVE AppInv'
<1> DEFINE owner == secretOwner(rpc[k])
           at == <<owner, rpc[k].org>>
<1>1. /\ rpc[k].st = "in" /\ InOK(k) /\ rpc[k].method = "SetSecret"
      /\ UNCHANGED <<call, inbox, serving, calls>>
  BY AtWork DEF Serve, SetSecret
<1>2. CASE owner = <<>>
  <2>1. rpc' = Answer(k, NoOwner, NoSecret) /\ UNCHANGED secrets
    BY <1>2 DEF SetSecret
  <2>2. PICK s : s = NoOwner
    OBVIOUS
  <2>3. Worded(s)
    <3>1. 1 \in DOMAIN <<"no", "identity">>
      OBVIOUS
    <3>2. QED BY <2>2, <3>1 DEF NoOwner, Status, Worded
  <2>4. StoreOK'
    BY <2>1, StoreStays DEF AppInv
  <2>5. rpc' = Answer(k, s, NoSecret)
    BY <2>1, <2>2
  <2>6. QED BY <1>1, <2>3, <2>4, <2>5, AnswerStep DEF ValueOK
<1>3. CASE owner # <<>>
  <2>1. /\ rpc' = Answer(k, OK, NoSecret)
        /\ secrets' = [x \in DOMAIN secrets \union {at} |->
                          IF x = at THEN Identities(rpc[k].req) ELSE secrets[x]]
    BY <1>3 DEF SetSecret
  <2>2. owner[2] \in Identities(rpc[k].req)
    BY <1>1, <1>3, OwnerFacts
  <2>3. StoreOK'
    <3>1. ASSUME NEW x \in DOMAIN secrets' PROVE x[1][2] \in secrets'[x]
      <4>1. CASE x = at
        <5>1. x[1] = owner /\ secrets'[x] = Identities(rpc[k].req)
          BY <2>1, <4>1
        <5>2. QED BY <2>2, <5>1
      <4>2. CASE x # at
        BY <2>1, <4>2 DEF AppInv, StoreOK
      <4>3. QED BY <4>1, <4>2
    <3>2. QED BY <3>1 DEF StoreOK
  <2>4. Worded(OK)
    BY DEF OK, Status, Worded
  <2>5. QED BY <1>1, <2>1, <2>3, <2>4, AnswerStep DEF ValueOK
<1>4. QED BY <1>2, <1>3

\* A secret is read by one of the identities it holds.
LEMMA GetSecretStep ==
    ASSUME AppInv, NEW k \in Keys, Serve(k), GetSecret(k) PROVE AppInv'
<1> DEFINE owner == secretOwner(rpc[k])
           at == <<owner, rpc[k].org>>
<1>1. /\ rpc[k].st = "in" /\ InOK(k) /\ rpc[k].method = "GetSecret"
      /\ UNCHANGED <<call, inbox, serving, calls, secrets>>
  BY AtWork DEF Serve, GetSecret
<1>2. StoreOK /\ StoreOK'
  BY <1>1, StoreStays DEF AppInv
<1>3. k[2] = "call"
  BY <1>1, KeyFacts DEF InOK
<1>4. CASE owner = <<>>
  <2>1. PICK s : s = NoOwner
    OBVIOUS
  <2>2. Worded(s)
    <3>1. 1 \in DOMAIN <<"no", "identity">>
      OBVIOUS
    <3>2. QED BY <2>1, <3>1 DEF NoOwner, Status, Worded
  <2>3. rpc' = Answer(k, s, NoSecret)
    BY <1>4, <2>1 DEF GetSecret
  <2>4. QED BY <1>1, <1>2, <2>2, <2>3, AnswerStep DEF ValueOK
<1>5. CASE owner # <<>> /\ at \notin DOMAIN secrets
  <2>1. PICK s : s = Status("NotFound", <<"no", "secret">>)
    OBVIOUS
  <2>2. Worded(s)
    <3>1. 1 \in DOMAIN <<"no", "secret">>
      OBVIOUS
    <3>2. QED BY <2>1, <3>1 DEF Status, Worded
  <2>3. rpc' = Answer(k, s, NoSecret)
    BY <1>5, <2>1 DEF GetSecret
  <2>4. QED BY <1>1, <1>2, <2>2, <2>3, AnswerStep DEF ValueOK
<1>6. CASE owner # <<>> /\ at \in DOMAIN secrets
  <2>1. rpc' = Answer(k, OK, secrets[at])
    BY <1>6 DEF GetSecret
  <2>2. owner[2] \in Identities(rpc[k].req)
    BY <1>1, <1>6, OwnerFacts
  <2>3. owner[2] \in secrets[at]
    <3>1. at[1] = owner
      OBVIOUS
    <3>2. QED BY <1>2, <1>6, <3>1 DEF StoreOK
  <2>4. PICK v : v = secrets[at]
    OBVIOUS
  <2>5. ValueOK(v, rpc[k].req)
    BY <2>2, <2>3, <2>4 DEF ValueOK
  <2>6. Worded(OK)
    BY DEF OK, Status, Worded
  <2>7. rpc' = Answer(k, OK, v)
    BY <2>1, <2>4
  <2>8. QED BY <1>1, <1>2, <1>3, <2>5, <2>6, <2>7, AnswerStep
<1>7. QED BY <1>4, <1>5, <1>6

LEMMA ServeStep ==
    ASSUME AppInv, NEW k \in Keys, Serve(k) PROVE AppInv'
<1>1. CASE SayHelloDownstream(k)
  <2>1. /\ rpc[k].st = "in" /\ rpc' = Answer(k, OK, NoSecret)
        /\ UNCHANGED <<call, inbox, serving, calls, secrets>>
    BY <1>1 DEF Serve, SayHelloDownstream
  <2>2. StoreOK'
    BY <2>1, StoreStays DEF AppInv
  <2>3. Worded(OK)
    BY DEF OK, Status, Worded
  <2>4. QED BY <2>1, <2>2, <2>3, AnswerStep DEF ValueOK
<1>2. QED BY <1>1, SayHelloStep, SetSecretStep, GetSecretStep DEF Serve

-----------------------------------------------------------------------------
(* The end of a call, for its caller and on the server. *)

\* A caller that waits is given something of its own, and holds the call it held.
LEMMA DoneStep ==
    ASSUME AppInv, NEW c \in Callers, Waiting(c), NEW s, NEW v, ValueOK(v, call[c].req),
           call' = [call EXCEPT ![c] = Done(c, s, v)], UNCHANGED calls
    PROVE  /\ DOMAIN call' = Callers /\ CallsOK' /\ CallsStay
           /\ \A d \in Callers \ {c} : call'[d] = call[d]
           /\ call'[c].st = "done" /\ call'[c].id = call[c].id /\ call'[c].req = call[c].req
           /\ call'[c].status = s
<1>1. DOMAIN call = Callers /\ CallsOK
  BY DEF AppInv, Shape
<1>2. /\ DOMAIN call' = Callers /\ \A d \in Callers \ {c} : call'[d] = call[d]
      /\ call'[c] = [st |-> "done", id |-> call[c].id, req |-> call[c].req, status |-> s, value |-> v]
  BY <1>1 DEF Done
<1>3. /\ call'[c].st = "done" /\ call'[c].id = call[c].id /\ call'[c].req = call[c].req
      /\ call'[c].value = v /\ call'[c].status = s
  BY <1>2
<1>4. CallsOK'
  <2>1. CallOK(c)'
    BY <1>1, <1>3 DEF CallsOK, CallOK, Waiting
  <2>2. ASSUME NEW d \in Callers, d # c PROVE CallOK(d)'
    BY <1>1, <1>2, <2>2 DEF CallsOK, CallOK
  <2>3. QED BY <2>1, <2>2 DEF CallsOK
<1>5. CallsStay
  BY <1>2, <1>3 DEF CallsStay, Waiting
<1>6. QED BY <1>2, <1>3, <1>4, <1>5

LEMMA GiveUpStep ==
    ASSUME AppInv, NEW c \in Callers, Waiting(c), NEW code, GiveUp(c, code) PROVE AppInv'
<1>1. PICK s : s = statusFromTransportError(code)
  OBVIOUS
<1>2. /\ call' = [call EXCEPT ![c] = Done(c, s, NoSecret)]
      /\ UNCHANGED <<rpc, secrets, inbox, serving, calls>>
  BY <1>1 DEF GiveUp
<1>3. ValueOK(NoSecret, call[c].req)
  BY DEF ValueOK
<1>4. /\ DOMAIN call' = Callers /\ CallsOK' /\ CallsStay
      /\ \A d \in Callers \ {c} : call'[d] = call[d]
      /\ call'[c].st = "done" /\ call'[c].id = call[c].id /\ call'[c].req = call[c].req
  BY <1>2, <1>3, DoneStep
<1>5. Shape' /\ StoreOK'
  BY <1>2, <1>4 DEF AppInv, Shape, StoreOK
<1>6. CallersHold'
  BY <1>2, <1>4 DEF AppInv, CallersHold, CallerHolds
<1>7. RpcsOK'
  BY <1>2 DEF AppInv, RpcsOK, RpcOK, PendingOK, InOK, AnswerOK
<1>8. calls' \in Nat /\ calls' >= calls
  BY <1>2 DEF AppInv, Shape
<1>9. HandlersHold'
  BY <1>2, <1>4, <1>8, ServedStays DEF HandlersHold
<1>10. InboxesOK'
  BY <1>2, <1>4, <1>8, QueuedStays DEF InboxesOK
<1>11. QED BY <1>4, <1>5, <1>6, <1>7, <1>9, <1>10 DEF AppInv

\* The interceptors of a downstream call return.
LEMMA ReturnDown ==
    ASSUME AppInv, NEW k \in Keys, Return(k), k = Down(k[1]) PROVE AppInv'
<1> DEFINE o == k[1]
           a == Direct(o)
<1>1. /\ DOMAIN rpc = Keys /\ rpc[k] # NoRpc /\ rpc[k].st = "out" /\ AnswerOK(k)
  BY AtWork DEF Return
<1>2. o \in Origins /\ a \in Keys /\ a # k /\ k[2] = "down" /\ a[2] = "call"
  BY KeyFacts
<1>3. /\ UNCHANGED <<call, secrets, inbox, serving, calls>>
      /\ rpc' = IF rpc[a].st = "down" /\ rpc[a].id = rpc[k].id
                THEN [[rpc EXCEPT ![k] = NoRpc] EXCEPT ![a] =
                        [st |-> "out", req |-> @.req, id |-> @.id,
                         status |-> rpc[k].status, value |-> rpc[k].value]]
                ELSE [rpc EXCEPT ![k] = NoRpc]
  BY <1>2, KeyFacts DEF Return
<1>4. DOMAIN rpc' = Keys /\ rpc'[k] = NoRpc /\ \A j \in Keys \ {k, a} : rpc'[j] = rpc[j]
  BY <1>1, <1>2, <1>3
<1>5. rpc'[a] = rpc[a] \/ (rpc[a].st = "down"
        /\ rpc'[a] = [st |-> "out", req |-> rpc[a].req, id |-> rpc[a].id,
                      status |-> rpc[k].status, value |-> rpc[k].value])
  BY <1>1, <1>2, <1>3
<1>6. rpc'[a] = rpc[a] \/ ( /\ rpc[a].st = "down" /\ rpc'[a].st = "out"
                            /\ rpc'[a].req = rpc[a].req /\ rpc'[a].id = rpc[a].id
                            /\ rpc'[a].status = rpc[k].status /\ rpc'[a].value = NoSecret)
  BY <1>1, <1>2, <1>5 DEF AnswerOK
<1>7. (rpc'[a] # NoRpc <=> rpc[a] # NoRpc) /\ rpc'[a].id = rpc[a].id /\ rpc'[a].req = rpc[a].req
  BY <1>6 DEF NoRpc
<1>8. \A p \in Origins : Direct(p) \in Keys /\ Direct(p) # k
  BY KeyFacts
<1>9. Shape' /\ CallsOK' /\ StoreOK'
  BY <1>3, <1>4 DEF AppInv, Shape, CallsOK, CallOK, StoreOK
<1>10. CallersHold'
  <2>1. ASSUME NEW c \in Callers PROVE CallerHolds(c)'
    <3>1. Direct(c) \in Keys \ {k} /\ CallerHolds(c)
      BY <1>8, KeyFacts DEF AppInv, CallersHold
    <3>2. CASE Direct(c) = a
      BY <1>3, <1>7, <3>1, <3>2 DEF CallerHolds
    <3>3. CASE Direct(c) # a
      BY <1>3, <1>4, <3>1, <3>3 DEF CallerHolds
    <3>4. QED BY <3>2, <3>3
  <2>2. QED BY <2>1 DEF CallersHold
<1>11. RpcsOK'
  <2>1. RpcOK(k)'
    BY <1>4 DEF RpcOK
  <2>2. RpcOK(a)'
    <3>1. CASE rpc'[a] = rpc[a]
      BY <1>2, <1>3, <3>1 DEF AppInv, RpcsOK, RpcOK, PendingOK, InOK, AnswerOK
    <3>2. CASE rpc'[a] # rpc[a]
      <4>1. rpc[a].req \in Requests /\ rpc[a].id \in 1 .. calls
        BY <1>2, <1>6, <3>2, AtWork
      <4>2. QED BY <1>1, <1>2, <1>3, <1>6, <3>2, <4>1 DEF RpcOK, AnswerOK, ValueOK
    <3>3. QED BY <3>1, <3>2
  <2>3. ASSUME NEW j \in Keys \ {k, a} PROVE RpcOK(j)'
    BY <1>3, <1>4 DEF AppInv, RpcsOK, RpcOK, PendingOK, InOK, AnswerOK
  <2>4. QED BY <2>1, <2>2, <2>3 DEF RpcsOK
<1>12. CallsStay /\ calls' \in Nat /\ calls' >= calls
  BY <1>3 DEF AppInv, Shape, CallsStay
<1>13. HandlersHold'
  <2>1. ASSUME NEW e \in ToSet(Endpoints) PROVE HandlerHolds(e)'
    <3>1. Direct(e) \in Keys \ {k}
      BY <1>8, KeyFacts
    <3>2. (rpc'[Direct(e)] # NoRpc <=> rpc[Direct(e)] # NoRpc)
          /\ rpc'[Direct(e)].id = rpc[Direct(e)].id /\ rpc'[Direct(e)].req = rpc[Direct(e)].req
      BY <1>4, <1>7, <3>1
    <3>3. QED BY <1>3, <1>12, <3>2, ServedStays
  <2>2. QED BY <2>1 DEF HandlersHold
<1>14. InboxesOK'
  BY <1>3, <1>12, QueuedStays DEF InboxesOK
<1>15. QED BY <1>9, <1>10, <1>11, <1>13, <1>14 DEF AppInv

\* The interceptors of a caller's call return, to a caller that may be gone.
LEMMA ReturnToCaller ==
    ASSUME AppInv, NEW k \in Keys, Return(k), k = Direct(k[1]), k[1] \in Callers PROVE AppInv'
<1> DEFINE c == k[1]
<1>1. /\ DOMAIN rpc = Keys /\ rpc[k] # NoRpc /\ rpc[k].st = "out" /\ AnswerOK(k)
  BY AtWork DEF Return
<1>2. /\ UNCHANGED <<secrets, inbox, serving, calls>>
      /\ rpc' = [rpc EXCEPT ![k] = NoRpc]
      /\ call' = IF WaitsFor(c, rpc[k].id) THEN [call EXCEPT ![c] = Done(c, rpc[k].status, rpc[k].value)]
                 ELSE call
  BY KeyFacts DEF Return
<1>3. call[c].req = rpc[k].req
  BY <1>1 DEF AppInv, CallersHold, CallerHolds
<1>4. ValueOK(rpc[k].value, call[c].req)
  BY <1>1, <1>3 DEF AnswerOK
<1>5. /\ DOMAIN call' = Callers /\ CallsOK' /\ CallsStay
      /\ \A d \in Callers \ {c} : call'[d] = call[d]
  <2>1. CASE WaitsFor(c, rpc[k].id)
    BY <1>2, <1>4, <2>1, DoneStep DEF WaitsFor
  <2>2. CASE ~WaitsFor(c, rpc[k].id)
    BY <1>2, <2>2 DEF AppInv, Shape, CallsOK, CallOK, CallsStay
  <2>3. QED BY <2>1, <2>2
<1>6. DOMAIN rpc' = Keys /\ rpc'[k] = NoRpc /\ \A j \in Keys \ {k} : rpc'[j] = rpc[j]
  BY <1>1, <1>2
<1>7. Shape' /\ StoreOK'
  BY <1>2, <1>5, <1>6 DEF AppInv, Shape, StoreOK
<1>8. CallersHold'
  <2>1. ASSUME NEW d \in Callers, d # c PROVE CallerHolds(d)'
    <3>1. Direct(d) \in Keys \ {k}
      BY <2>1, KeyFacts
    <3>2. QED BY <1>5, <1>6, <2>1, <3>1 DEF AppInv, CallersHold, CallerHolds
  <2>2. CallerHolds(c)'
    BY <1>6 DEF CallerHolds
  <2>3. QED BY <2>1, <2>2 DEF CallersHold
<1>9. RpcsOK'
  <2>1. RpcOK(k)'
    BY <1>6 DEF RpcOK
  <2>2. ASSUME NEW j \in Keys \ {k} PROVE RpcOK(j)'
    BY <1>2, <1>6 DEF AppInv, RpcsOK, RpcOK, PendingOK, InOK, AnswerOK
  <2>3. QED BY <2>1, <2>2 DEF RpcsOK
<1>10. calls' \in Nat /\ calls' >= calls
  BY <1>2 DEF AppInv, Shape
<1>11. HandlersHold'
  <2>1. ASSUME NEW e \in ToSet(Endpoints) PROVE HandlerHolds(e)'
    <3>1. Direct(e) \in Keys \ {k}
      BY KeyFacts
    <3>2. QED BY <1>2, <1>5, <1>6, <1>10, <3>1, ServedStays
  <2>2. QED BY <2>1 DEF HandlersHold
<1>12. InboxesOK'
  BY <1>2, <1>5, <1>10, QueuedStays DEF InboxesOK
<1>13. QED BY <1>5, <1>7, <1>8, <1>9, <1>11, <1>12 DEF AppInv

LEMMA ReturnStep ==
    ASSUME AppInv, NEW k \in Keys, Return(k) PROVE AppInv'
<1>1. CASE k = Direct(k[1]) /\ k[1] \notin Callers
  <2>1. /\ DOMAIN rpc = Keys /\ rpc[k] # NoRpc /\ rpc[k].st = "out" /\ AnswerOK(k)
        /\ rpc[k].req \in Requests /\ rpc[k].id \in 1 .. calls
    BY AtWork DEF Return
  <2>2. /\ UNCHANGED <<call, secrets, inbox, serving, calls>>
        /\ rpc' = [rpc EXCEPT ![k] = [st |-> "back", req |-> rpc[k].req, id |-> rpc[k].id,
                                      status |-> rpc[k].status, value |-> rpc[k].value]]
    BY <1>1, KeyFacts DEF Return
  <2>3. /\ DOMAIN rpc' = Keys /\ \A j \in Keys \ {k} : rpc'[j] = rpc[j]
        /\ rpc'[k] = [st |-> "back", req |-> rpc[k].req, id |-> rpc[k].id,
                      status |-> rpc[k].status, value |-> rpc[k].value]
    BY <2>1, <2>2
  <2>4. /\ rpc'[k] # NoRpc /\ rpc'[k].st = "back" /\ rpc'[k].req = rpc[k].req /\ rpc'[k].id = rpc[k].id
        /\ rpc'[k].status = rpc[k].status /\ rpc'[k].value = rpc[k].value
    BY <2>3 DEF NoRpc
  <2>5. RpcOK(k)'
    BY <2>1, <2>2, <2>4 DEF RpcOK, AnswerOK
  <2>6. StoreOK'
    BY <2>2, StoreStays DEF AppInv
  <2>7. QED BY <2>1, <2>2, <2>3, <2>4, <2>5, <2>6, RpcStep
<1>2. QED BY <1>1, ReturnDown, ReturnToCaller, KeyFacts

-----------------------------------------------------------------------------
(* The callers' steps. *)

\* A gRPC call of a caller starts: by the generated client or by the gateway.
LEMMA DialStep ==
    ASSUME AppInv, NEW c \in Callers, NEW r \in Requests, r.via \in {"grpc", "http"},
           NEW cert, cert \in {"none", r.cert},
           calls' \in Nat, calls' >= calls, CallsStay, DOMAIN call' = Callers,
           \A d \in Callers \ {c} : call'[d] = call[d],
           call'[c].st = "wait", call'[c].id \in 1 .. calls', call'[c].req = r,
           rpc' = [rpc EXCEPT ![Direct(c)] = NewRpc(r, call'[c].id, {r.tok}, cert, r.org)],
           UNCHANGED <<secrets, inbox, serving>>
    PROVE  AppInv'
<1> DEFINE k == Direct(c)
<1>1. k \in Keys /\ k[2] = "call" /\ DOMAIN rpc = Keys /\ calls \in Nat
  BY KeyFacts DEF AppInv, Shape
<1>2. /\ DOMAIN rpc' = Keys /\ \A j \in Keys \ {k} : rpc'[j] = rpc[j]
      /\ rpc'[k] = [st |-> "pending", req |-> r, id |-> call'[c].id, method |-> r.method,
                    tokens |-> {r.tok}, cert |-> cert, org |-> r.org]
  BY <1>1 DEF NewRpc
<1>3. /\ rpc'[k].st = "pending" /\ rpc'[k].req = r /\ rpc'[k].id = call'[c].id
      /\ rpc'[k].method = r.method /\ rpc'[k].tokens = {r.tok} /\ rpc'[k].cert = cert
  BY <1>2
<1>4. Shape' /\ StoreOK'
  BY <1>2 DEF AppInv, Shape, StoreOK
<1>5. CallsOK'
  BY <1>1 DEF AppInv, CallsOK, CallOK
<1>6. CallersHold'
  <2>1. ASSUME NEW d \in Callers, d # c PROVE CallerHolds(d)'
    <3>1. Direct(d) \in Keys \ {k}
      BY <2>1, KeyFacts
    <3>2. QED BY <1>2, <2>1, <3>1 DEF AppInv, CallersHold, CallerHolds
  <2>2. CallerHolds(c)'
    BY <1>3 DEF CallerHolds
  <2>3. QED BY <2>1, <2>2 DEF CallersHold
<1>7. RpcsOK'
  <2>1. RpcOK(k)'
    BY <1>1, <1>3 DEF RpcOK, PendingOK, TokensOf
  <2>2. ASSUME NEW j \in Keys \ {k} PROVE RpcOK(j)'
    BY <1>1, <1>2 DEF AppInv, RpcsOK, RpcOK, PendingOK, InOK, AnswerOK
  <2>3. QED BY <2>1, <2>2 DEF RpcsOK
<1>8. HandlersHold'
  <2>1. ASSUME NEW e \in ToSet(Endpoints) PROVE HandlerHolds(e)'
    <3>1. Direct(e) \in Keys \ {k}
      BY KeyFacts
    <3>2. QED BY <1>2, <3>1, ServedStays
  <2>2. QED BY <2>1 DEF HandlersHold
<1>9. InboxesOK'
  BY QueuedStays DEF InboxesOK
<1>10. QED BY <1>4, <1>5, <1>6, <1>7, <1>8, <1>9 DEF AppInv

\* A call changes what its caller holds and nothing of the server.
LEMMA CallerStep ==
    ASSUME AppInv, NEW c \in Callers,
           calls' \in Nat, calls' >= calls, CallsStay, DOMAIN call' = Callers,
           \A d \in Callers \ {c} : call'[d] = call[d], CallOK(c)', CallerHolds(c)',
           UNCHANGED <<rpc, secrets, serving>>
    PROVE  /\ CallsOK' /\ CallersHold' /\ RpcsOK' /\ HandlersHold' /\ StoreOK'
           /\ \A e \in ToSet(Endpoints) :
                ToSet(inbox'[e]) \subseteq ToSet(inbox[e]) => \A m \in ToSet(inbox'[e]) : MessageOK(m)'
<1>1. CallsOK'
  BY DEF AppInv, Shape, CallsOK, CallOK
<1>2. CallersHold'
  BY DEF AppInv, CallersHold, CallerHolds
<1>3. RpcsOK'
  BY DEF AppInv, Shape, RpcsOK, RpcOK, PendingOK, InOK, AnswerOK
<1>4. HandlersHold'
  BY ServedStays DEF HandlersHold
<1>5. StoreOK'
  BY DEF AppInv, StoreOK
<1>6. QED BY <1>1, <1>2, <1>3, <1>4, <1>5, QueuedStays

LEMMA CallDirectlyStep ==
    ASSUME AppInv, NEW c \in Callers, NEW r \in Requests, Send(c, r), CallDirectly(c, r)
    PROVE  AppInv'
<1>1. /\ calls \in Nat /\ DOMAIN call = Callers /\ rpc[Direct(c)] = NoRpc
      /\ calls' = calls + 1 /\ UNCHANGED <<secrets, inbox, serving>>
  BY DEF AppInv, Shape, Send, CallDirectly
<1>2. /\ DOMAIN call' = Callers /\ \A d \in Callers \ {c} : call'[d] = call[d]
      /\ call'[c] = [st |-> IF r.via = "http" THEN "http" ELSE "wait", id |-> calls + 1,
                     req |-> r, waited |-> 0, due |-> r.deadline]
  BY <1>1 DEF CallDirectly
<1>3. /\ call'[c].st = (IF r.via = "http" THEN "http" ELSE "wait")
      /\ call'[c].id = calls + 1 /\ call'[c].req = r
  BY <1>2
<1>4. CallsStay
  BY <1>2, <1>3 DEF CallsStay
<1>5. CASE r.via = "http"
  <2>1. UNCHANGED rpc
    BY <1>5 DEF CallDirectly
  <2>2. CallOK(c)'
    BY <1>1, <1>3, <1>5 DEF CallOK
  <2>3. CallerHolds(c)'
    BY <1>1, <2>1 DEF CallerHolds
  <2>4. CallsOK' /\ CallersHold' /\ RpcsOK' /\ HandlersHold' /\ StoreOK' /\ InboxesOK'
    BY <1>1, <1>2, <1>4, <2>1, <2>2, <2>3, CallerStep DEF InboxesOK
  <2>5. Shape'
    BY <1>1, <1>2, <2>1 DEF AppInv, Shape
  <2>6. QED BY <2>4, <2>5 DEF AppInv
<1>6. CASE r.via = "grpc"
  <2>1. rpc' = [rpc EXCEPT ![Direct(c)] = NewRpc(r, call'[c].id, {r.tok}, r.cert, r.org)]
    BY <1>3, <1>6 DEF CallDirectly
  <2>2. call'[c].id \in 1 .. calls'
    BY <1>1, <1>3
  <2>3. calls' \in Nat /\ calls' >= calls
    BY <1>1
  <2>4. QED BY <1>1, <1>2, <1>3, <1>4, <1>6, <2>1, <2>2, <2>3, DialStep
<1>7. QED BY <1>5, <1>6 DEF CallDirectly

\* A NATS call that is under way is a message in the inbox of its method.
LEMMA HandleNATSClientRequestStep ==
    ASSUME AppInv, NEW c \in Callers, NEW r \in Requests, Send(c, r), HandleNATSClientRequest(c, r)
    PROVE  /\ AppInv'
           /\ \A d \in Callers \ {c} : call'[d] = call[d]
           /\ \A e \in ToSet(Endpoints) : ToSet(inbox[e]) \subseteq ToSet(inbox'[e])
           /\ call'[c].st = "wait" => \E e \in ToSet(Endpoints) : \E m \in ToSet(inbox'[e]) : m.id = call'[c].id
<1>1. /\ calls \in Nat /\ DOMAIN call = Callers /\ rpc[Direct(c)] = NoRpc
      /\ calls' = calls + 1 /\ UNCHANGED <<secrets, serving, rpc>>
      /\ inbox \in [ToSet(Endpoints) -> Seq(Messages)]
      /\ calls' \in Nat /\ calls' >= calls
  <2>1. /\ rpc[Direct(c)] = NoRpc /\ calls' = calls + 1 /\ UNCHANGED <<secrets, serving>>
    BY DEF Send
  <2>2. UNCHANGED rpc
    BY DEF HandleNATSClientRequest
  <2>3. calls \in Nat /\ DOMAIN call = Callers /\ inbox \in [ToSet(Endpoints) -> Seq(Messages)]
    BY DEF AppInv, Shape
  <2>4. QED BY <2>1, <2>2, <2>3
<1> DEFINE m == [id |-> calls + 1, from |-> c, req |-> r,
                 headers |-> createNATSRequestHeaders(r.tok, r.src)]
<1>2. CASE /\ UNCHANGED inbox
           /\ \E s : call' = [call EXCEPT ![c] = [st |-> "done", id |-> calls + 1, req |-> r,
                                                 status |-> s, value |-> NoSecret]]
  <2>1. PICK s : call' = [call EXCEPT ![c] = [st |-> "done", id |-> calls + 1, req |-> r,
                                              status |-> s, value |-> NoSecret]]
    BY <1>2
  <2>2. /\ DOMAIN call' = Callers /\ \A d \in Callers \ {c} : call'[d] = call[d]
        /\ call'[c].st = "done" /\ call'[c].id = calls + 1 /\ call'[c].req = r
        /\ call'[c].value = NoSecret
    BY <1>1, <2>1
  <2>3. CallsStay
    BY <2>2 DEF CallsStay
  <2>4. CallOK(c)'
    BY <1>1, <2>2 DEF CallOK, ValueOK
  <2>5. CallerHolds(c)'
    BY <1>1 DEF CallerHolds
  <2>6. CallsOK' /\ CallersHold' /\ RpcsOK' /\ HandlersHold' /\ StoreOK' /\ InboxesOK'
    BY <1>1, <1>2, <2>2, <2>3, <2>4, <2>5, CallerStep DEF InboxesOK
  <2>7. Shape'
    BY <1>1, <1>2, <2>2 DEF AppInv, Shape
  <2>8. QED BY <1>2, <2>2, <2>6, <2>7 DEF AppInv
<1>3. CASE /\ Subject(r).code = "OK" /\ Listening(r.method) /\ r.via \in {"nats", "raw"}
           /\ call' = [call EXCEPT ![c] = [st |-> "wait", id |-> calls + 1, req |-> r, waited |-> 0,
                                           due |-> RequestTimeout(r)]]
           /\ inbox' = [inbox EXCEPT ![r.method] = Append(@, m)]
  <2>1. r.method \in ToSet(Endpoints)
    BY <1>3 DEF Listening, ToSet
  <2>2. /\ DOMAIN call' = Callers /\ \A d \in Callers \ {c} : call'[d] = call[d]
        /\ call'[c].st = "wait" /\ call'[c].id = calls + 1 /\ call'[c].req = r
    BY <1>1, <1>3
  <2>3. CallsStay
    BY <2>2 DEF CallsStay
  <2>4. CallOK(c)'
    BY <1>1, <2>2 DEF CallOK
  <2>5. CallerHolds(c)'
    BY <1>1 DEF CallerHolds
  <2>6. m \in Messages
    BY <1>1 DEF Messages
  <2>7. /\ Append(inbox[r.method], m) \in Seq(Messages)
        /\ ToSet(Append(inbox[r.method], m)) = ToSet(inbox[r.method]) \union {m}
    BY <1>1, <2>1, <2>6, QueueAppend
  <2>8. /\ inbox' \in [ToSet(Endpoints) -> Seq(Messages)]
        /\ inbox'[r.method] = Append(inbox[r.method], m)
        /\ \A e \in ToSet(Endpoints) : e # r.method => inbox'[e] = inbox[e]
    BY <1>1, <1>3, <2>1, <2>7
  <2>9. CallsOK' /\ CallersHold' /\ RpcsOK' /\ HandlersHold' /\ StoreOK'
    BY <1>1, <2>2, <2>3, <2>4, <2>5, CallerStep
  <2>10. Shape'
    BY <1>1, <2>2, <2>8 DEF AppInv, Shape
  <2>11. InboxesOK'
    <3>1. PICK n : n = m
      OBVIOUS
    <3>2. /\ n.id = calls + 1 /\ n.from = c /\ n.req = r
          /\ n.headers = createNATSRequestHeaders(r.tok, r.src)
      BY <3>1
    <3>3. ASSUME NEW d \in Callers, call'[d].st # "idle", call'[d].id = calls + 1
          PROVE  d = c
      BY <1>1, <2>2, <3>3 DEF AppInv, CallsOK, CallOK
    <3>4. MessageOK(n)'
      BY <1>1, <1>3, <2>2, <3>2, <3>3 DEF MessageOK
    <3>5. ASSUME NEW x, MessageOK(x) PROVE MessageOK(x)'
      BY <1>1, <2>3, <3>5, MessagesStay
    <3>6. ASSUME NEW e \in ToSet(Endpoints), NEW x \in ToSet(inbox'[e]) PROVE MessageOK(x)'
      <4>1. x = n \/ x \in ToSet(inbox[e])
        BY <2>7, <2>8, <3>1
      <4>2. CASE x \in ToSet(inbox[e])
        <5>1. MessageOK(x)
          BY <4>2 DEF AppInv, InboxesOK
        <5>2. QED BY <3>5, <5>1
      <4>3. QED BY <3>4, <4>1, <4>2
    <3>7. QED BY <3>6 DEF InboxesOK
  <2>12. \A e \in ToSet(Endpoints) : ToSet(inbox[e]) \subseteq ToSet(inbox'[e])
    BY <2>7, <2>8
  <2>13. m \in ToSet(inbox'[r.method]) /\ m.id = call'[c].id
    BY <2>2, <2>7, <2>8
  <2>14. QED BY <2>1, <2>2, <2>9, <2>10, <2>11, <2>12, <2>13 DEF AppInv
<1>4. QED
  <2>1. CASE Subject(r).code = "OK" /\ Listening(r.method) /\ r.via # "intercepted" /\ r.src # "bad"
    BY <1>3, <2>1 DEF HandleNATSClientRequest
  <2>2. CASE ~(Subject(r).code = "OK" /\ Listening(r.method) /\ r.via # "intercepted" /\ r.src # "bad")
    <3>1. PICK s : s = (IF Subject(r).code # "OK" THEN Status(Subject(r).code, <<"subject">>)
                        ELSE IF r.src = "bad" THEN statusFromTransportError("no token")
                        ELSE statusFromTransportError("ErrNoResponders"))
      OBVIOUS
    <3>2. s # OK
      BY <2>2, <3>1 DEF OK, Status, statusFromTransportError
    <3>3. UNCHANGED inbox /\ call' = [call EXCEPT ![c] = [st |-> "done", id |-> calls + 1, req |-> r,
                                                          status |-> s, value |-> NoSecret]]
      BY <2>2, <3>1, <3>2 DEF HandleNATSClientRequest
    <3>4. QED BY <1>2, <3>3
  <2>3. QED BY <2>1, <2>2

LEMMA RegisterGreeterHandlerClientStep ==
    ASSUME AppInv, NEW c \in Callers, RegisterGreeterHandlerClient(c) PROVE AppInv'
<1> DEFINE r == call[c].req
<1>1. /\ call[c].st = "http" /\ r \in Requests /\ r.via = "http" /\ call[c].id \in 1 .. calls
      /\ DOMAIN call = Callers /\ calls \in Nat
      /\ UNCHANGED <<secrets, inbox, serving, calls, bridge, scopes>>
  BY DEF AppInv, Shape, CallsOK, CallOK, RegisterGreeterHandlerClient
<1>2. CASE r.body = "bad"
  <2>1. PICK s : s = Status("InvalidArgument", <<"body">>)
    OBVIOUS
  <2>2. call' = [call EXCEPT ![c] = Done(c, s, NoSecret)] /\ UNCHANGED rpc
    BY <1>2, <2>1 DEF RegisterGreeterHandlerClient, request_Greeter
  <2>3. /\ DOMAIN call' = Callers /\ CallsOK' /\ CallsStay
        /\ \A d \in Callers \ {c} : call'[d] = call[d]
        /\ call'[c].st = "done" /\ call'[c].id = call[c].id /\ call'[c].req = call[c].req
    BY <1>1, <2>2, DoneStep DEF Waiting, ValueOK
  <2>4. CallOK(c)' /\ CallerHolds(c)'
    BY <2>2, <2>3 DEF CallsOK, AppInv, CallersHold, CallerHolds
  <2>5. CallsOK' /\ CallersHold' /\ RpcsOK' /\ HandlersHold' /\ StoreOK' /\ InboxesOK'
    BY <1>1, <2>2, <2>3, <2>4, CallerStep DEF InboxesOK
  <2>6. Shape'
    BY <1>1, <2>2, <2>3 DEF AppInv, Shape
  <2>7. QED BY <2>5, <2>6 DEF AppInv
<1>3. CASE r.body # "bad"
  <2>1. /\ call' = [call EXCEPT ![c] = [st |-> "wait", id |-> call[c].id, req |-> r,
                                        waited |-> call[c].waited, due |-> call[c].due]]
        /\ rpc' = [rpc EXCEPT ![Direct(c)] = NewRpc(r, call[c].id, {r.tok}, "none", r.org)]
    BY <1>3 DEF RegisterGreeterHandlerClient, request_Greeter
  <2>2. /\ DOMAIN call' = Callers /\ \A d \in Callers \ {c} : call'[d] = call[d]
        /\ call'[c].st = "wait" /\ call'[c].id = call[c].id /\ call'[c].req = r
    BY <1>1, <2>1
  <2>3. CallsStay
    BY <1>1, <2>2 DEF CallsStay
  <2>4. calls' \in Nat /\ calls' >= calls /\ call'[c].id \in 1 .. calls'
    BY <1>1, <2>2
  <2>5. rpc' = [rpc EXCEPT ![Direct(c)] = NewRpc(r, call'[c].id, {r.tok}, "none", r.org)]
    BY <2>1, <2>2
  <2>6. QED BY <1>1, <2>2, <2>3, <2>4, <2>5, DialStep
<1>4. QED BY <1>2, <1>3

LEMMA TickStep ==
    ASSUME AppInv, Tick PROVE AppInv'
<1>1. /\ calls \in Nat /\ UNCHANGED <<rpc, secrets, inbox, serving, calls>>
      /\ call' = [c \in Callers |->
                    IF Waiting(c) /\ call[c].waited < Forever
                    THEN [st |-> call[c].st, id |-> call[c].id, req |-> call[c].req,
                          waited |-> call[c].waited + 1, due |-> call[c].due]
                    ELSE call[c]]
  BY DEF AppInv, Shape, Tick
<1>2. ASSUME NEW c \in Callers
      PROVE  call'[c] = call[c] \/ ( /\ Waiting(c) /\ call'[c].st = call[c].st
                                     /\ call'[c].id = call[c].id /\ call'[c].req = call[c].req)
  BY <1>1
<1>3. DOMAIN call' = Callers /\ CallsStay
  BY <1>1, <1>2 DEF CallsStay, Waiting
<1>4. CallsOK'
  BY <1>1, <1>2 DEF AppInv, CallsOK, CallOK, Waiting
<1>5. CallersHold'
  BY <1>1, <1>2 DEF AppInv, CallersHold, CallerHolds
<1>6. Shape' /\ StoreOK'
  BY <1>1, <1>3 DEF AppInv, Shape, StoreOK
<1>7. RpcsOK'
  BY <1>1 DEF AppInv, RpcsOK, RpcOK, PendingOK, InOK, AnswerOK
<1>8. calls' \in Nat /\ calls' >= calls
  BY <1>1
<1>9. HandlersHold'
  BY <1>1, <1>3, <1>8, ServedStays DEF HandlersHold
<1>10. InboxesOK'
  BY <1>1, <1>3, <1>8, QueuedStays DEF InboxesOK
<1>11. QED BY <1>4, <1>5, <1>6, <1>7, <1>9, <1>10 DEF AppInv

-----------------------------------------------------------------------------
(* The bridge's steps. *)

\* A reply is the caller's own, if the caller still waits for it.
LEMMA ReplyStep ==
    ASSUME AppInv, NEW e \in ToSet(Endpoints), NEW m, MessageOK(m), NEW reply, NEW value,
           ValueOK(value, m.req), Reply(e, m, reply, value), UNCHANGED <<calls>>
    PROVE  /\ DOMAIN call' = Callers /\ CallsOK' /\ CallsStay
           /\ DOMAIN serving' = ToSet(Endpoints) /\ serving'[e] = NoRequest
           /\ \A f \in ToSet(Endpoints) \ {e} : serving'[f] = serving[f]
           /\ \A c \in Callers : \/ call'[c] = call[c]
                                 \/ /\ c = m.from /\ WaitsFor(c, m.id) /\ call'[c].st = "done"
                                    /\ call'[c].id = call[c].id /\ call'[c].req = call[c].req
           /\ reply.sent /\ bridge.st # "closed" /\ WaitsFor(m.from, m.id) =>
                call'[m.from].st = "done" /\ call'[m.from].status = statusFromNATSResponse(reply)
<1>1. DOMAIN call = Callers /\ DOMAIN serving = ToSet(Endpoints) /\ m.from \in Callers
  BY DEF AppInv, Shape, MessageOK
<1>2. /\ DOMAIN serving' = ToSet(Endpoints) /\ serving'[e] = NoRequest
      /\ \A f \in ToSet(Endpoints) \ {e} : serving'[f] = serving[f]
  BY <1>1 DEF Reply
<1>3. CASE reply.sent /\ bridge.st # "closed" /\ WaitsFor(m.from, m.id)
  <2>1. PICK s : s = statusFromNATSResponse(reply)
    OBVIOUS
  <2>2. call' = [call EXCEPT ![m.from] = Done(m.from, s, value)]
    BY <1>3, <2>1 DEF Reply
  <2>3. call[m.from].req = m.req
    BY <1>1, <1>3 DEF MessageOK, WaitsFor, Waiting
  <2>4. /\ DOMAIN call' = Callers /\ CallsOK' /\ CallsStay
        /\ \A d \in Callers \ {m.from} : call'[d] = call[d]
        /\ call'[m.from].st = "done" /\ call'[m.from].id = call[m.from].id
        /\ call'[m.from].req = call[m.from].req /\ call'[m.from].status = s
    BY <1>1, <1>3, <2>2, <2>3, DoneStep DEF WaitsFor
  <2>5. QED BY <1>2, <1>3, <2>1, <2>4
<1>4. CASE ~(reply.sent /\ bridge.st # "closed" /\ WaitsFor(m.from, m.id))
  <2>1. UNCHANGED call
    BY <1>4 DEF Reply
  <2>2. CallsOK' /\ CallsStay
    BY <2>1 DEF AppInv, CallsOK, CallOK, CallsStay
  <2>3. QED BY <1>1, <1>2, <1>4, <2>1, <2>2
<1>5. QED BY <1>3, <1>4

\* A message is taken and answered at once.
LEMMA AnswerAtOnce ==
    ASSUME AppInv, NEW e \in ToSet(Endpoints), inbox[e] # <<>>, serving[e] = NoRequest,
           inbox' = [inbox EXCEPT ![e] = Tail(@)], NEW reply,
           Reply(e, Head(inbox[e]), reply, NoSecret), UNCHANGED <<rpc, secrets, calls>>
    PROVE  AppInv'
<1>1. inbox \in [ToSet(Endpoints) -> Seq(Messages)] /\ inbox[e] \in Seq(Messages)
      /\ calls' \in Nat /\ calls' >= calls
  BY DEF AppInv, Shape
<1>2. PICK m : m = Head(inbox[e])
  OBVIOUS
<1>3. m \in ToSet(inbox[e]) /\ Tail(inbox[e]) \in Seq(Messages)
      /\ ToSet(Tail(inbox[e])) \subseteq ToSet(inbox[e])
  BY <1>1, <1>2, QueueTail
<1>4. MessageOK(m) /\ ValueOK(NoSecret, m.req) /\ Reply(e, m, reply, NoSecret)
  BY <1>2, <1>3 DEF AppInv, InboxesOK, ValueOK
<1>5. /\ DOMAIN call' = Callers /\ CallsOK' /\ CallsStay
      /\ DOMAIN serving' = ToSet(Endpoints) /\ serving'[e] = NoRequest
      /\ \A f \in ToSet(Endpoints) \ {e} : serving'[f] = serving[f]
      /\ \A c \in Callers : \/ call'[c] = call[c]
                            \/ /\ c = m.from /\ WaitsFor(c, m.id) /\ call'[c].st = "done"
                               /\ call'[c].id = call[c].id /\ call'[c].req = call[c].req
  BY <1>4, ReplyStep
<1>6. /\ inbox' \in [ToSet(Endpoints) -> Seq(Messages)]
      /\ \A f \in ToSet(Endpoints) : ToSet(inbox'[f]) \subseteq ToSet(inbox[f])
  BY <1>1, <1>3
<1>7. Shape' /\ StoreOK'
  BY <1>1, <1>5, <1>6 DEF AppInv, Shape, StoreOK
<1>8. CallersHold'
  BY <1>5 DEF AppInv, CallersHold, CallerHolds
<1>9. RpcsOK'
  BY DEF AppInv, RpcsOK, RpcOK, PendingOK, InOK, AnswerOK
<1>10. HandlersHold'
  <2>1. ASSUME NEW f \in ToSet(Endpoints) PROVE HandlerHolds(f)'
    BY <1>1, <1>5, ServedStays
  <2>2. QED BY <2>1 DEF HandlersHold
<1>11. InboxesOK'
  BY <1>1, <1>5, <1>6, QueuedStays DEF InboxesOK
<1>12. QED BY <1>5, <1>7, <1>8, <1>9, <1>10, <1>11 DEF AppInv

LEMMA HandlePanicStep ==
    ASSUME AppInv, NEW e \in ToSet(Endpoints), HandlePanic(e) PROVE AppInv'
<1>1. PICK reply : reply = respondError(Status("Internal", <<"internal error">>))
  OBVIOUS
<1>2. Reply(e, Head(inbox[e]), reply, NoSecret)
  BY <1>1 DEF HandlePanic
<1>3. /\ inbox[e] # <<>> /\ serving[e] = NoRequest /\ inbox' = [inbox EXCEPT ![e] = Tail(@)]
      /\ UNCHANGED <<rpc, secrets, calls>>
  BY DEF HandlePanic
<1>4. QED BY <1>2, <1>3, AnswerAtOnce

\* The handler calls the service with the headers of its message.
LEMMA HandleRequestStep ==
    ASSUME AppInv, NEW e \in ToSet(Endpoints), HandleRequest(e) PROVE AppInv'
<1>1. /\ inbox \in [ToSet(Endpoints) -> Seq(Messages)] /\ inbox[e] \in Seq(Messages)
      /\ calls' \in Nat /\ calls' >= calls /\ DOMAIN rpc = Keys
      /\ DOMAIN serving = ToSet(Endpoints)
      /\ inbox[e] # <<>> /\ serving[e] = NoRequest /\ inbox' = [inbox EXCEPT ![e] = Tail(@)]
      /\ UNCHANGED <<secrets, calls>>
  BY DEF AppInv, Shape, HandleRequest
<1>2. PICK m : m = Head(inbox[e])
  OBVIOUS
<1>3. m \in ToSet(inbox[e]) /\ Tail(inbox[e]) \in Seq(Messages)
      /\ ToSet(Tail(inbox[e])) \subseteq ToSet(inbox[e])
  BY <1>1, <1>2, QueueTail
<1>4. MessageOK(m)
  BY <1>3 DEF AppInv, InboxesOK
<1>5. CASE m.req.body = "bad" \/ ~Injected[m.req].ok
  <2>1. PICK reply : reply = respondError(Status("InvalidArgument", <<"request">>))
    OBVIOUS
  <2>2. Reply(e, Head(inbox[e]), reply, NoSecret) /\ UNCHANGED rpc
    BY <1>2, <1>5, <2>1 DEF HandleRequest
  <2>3. QED BY <1>1, <2>2, AnswerAtOnce
<1>6. CASE ~(m.req.body = "bad" \/ ~Injected[m.req].ok)
  <2> DEFINE k == Direct(e)
  <2>1. /\ serving' = [serving EXCEPT ![e] = m] /\ UNCHANGED call
        /\ rpc' = [rpc EXCEPT ![k] = NewRpc(m.req, m.id, ConvertToStringMap(m.headers), "none",
                                            Injected[m.req].org)]
    BY <1>2, <1>6 DEF HandleRequest
  <2>2. k \in Keys /\ k[2] = "call"
    BY KeyFacts
  <2>3. /\ DOMAIN rpc' = Keys /\ \A j \in Keys \ {k} : rpc'[j] = rpc[j]
        /\ rpc'[k] = [st |-> "pending", req |-> m.req, id |-> m.id, method |-> m.req.method,
                      tokens |-> ConvertToStringMap(m.headers), cert |-> "none",
                      org |-> Injected[m.req].org]
    BY <1>1, <2>1, <2>2 DEF NewRpc
  <2>4. /\ rpc'[k] # NoRpc /\ rpc'[k].st = "pending" /\ rpc'[k].req = m.req /\ rpc'[k].id = m.id
        /\ rpc'[k].method = m.req.method /\ rpc'[k].cert = "none"
        /\ rpc'[k].tokens = ConvertToStringMap(m.headers)
    BY <2>3 DEF NoRpc
  <2>5. /\ inbox' \in [ToSet(Endpoints) -> Seq(Messages)]
        /\ \A f \in ToSet(Endpoints) : ToSet(inbox'[f]) \subseteq ToSet(inbox[f])
        /\ DOMAIN serving' = ToSet(Endpoints) /\ serving'[e] = m
        /\ \A f \in ToSet(Endpoints) \ {e} : serving'[f] = serving[f]
    BY <1>1, <1>3, <2>1
  <2>6. CallsStay
    BY <2>1 DEF CallsStay
  <2>7. Shape' /\ StoreOK' /\ CallsOK'
    BY <1>1, <2>1, <2>3, <2>5 DEF AppInv, Shape, StoreOK, CallsOK, CallOK
  <2>8. CallersHold'
    <3>1. ASSUME NEW c \in Callers PROVE CallerHolds(c)'
      <4>1. Direct(c) \in Keys \ {k}
        BY KeyFacts
      <4>2. QED BY <2>1, <2>3, <4>1 DEF AppInv, CallersHold, CallerHolds
    <3>2. QED BY <3>1 DEF CallersHold
  <2>9. RpcsOK'
    <3>1. PendingOK(k)'
      BY <1>4, <2>2, <2>4 DEF PendingOK, TokensOf, MessageOK
    <3>2. RpcOK(k)'
      BY <1>1, <1>4, <2>4, <3>1 DEF RpcOK, MessageOK
    <3>3. ASSUME NEW j \in Keys \ {k} PROVE RpcOK(j)'
      BY <1>1, <2>3 DEF AppInv, RpcsOK, RpcOK, PendingOK, InOK, AnswerOK
    <3>4. QED BY <3>2, <3>3 DEF RpcsOK
  <2>10. HandlersHold'
    <3>1. HandlerHolds(e)'
      <4>1. MessageOK(m)'
        BY <1>1, <1>4, <2>6, MessagesStay
      <4>2. QED BY <2>4, <2>5, <4>1 DEF HandlerHolds, MessageOK
    <3>2. ASSUME NEW f \in ToSet(Endpoints), f # e PROVE HandlerHolds(f)'
      <4>1. Direct(f) \in Keys \ {k}
        BY <3>2, KeyFacts
      <4>2. QED BY <1>1, <2>3, <2>5, <2>6, <3>2, <4>1, ServedStays
    <3>3. QED BY <3>1, <3>2 DEF HandlersHold
  <2>11. InboxesOK'
    BY <1>1, <2>5, <2>6, QueuedStays DEF InboxesOK
  <2>12. QED BY <2>7, <2>8, <2>9, <2>10, <2>11 DEF AppInv
<1>7. QED BY <1>5, <1>6

\* The handler is through: its message is answered.
LEMMA HandleResponseStep ==
    ASSUME AppInv, NEW e \in ToSet(Endpoints), HandleResponse(e)
    PROVE  /\ AppInv'
           /\ serving[e] # NoRequest /\ serving[e].from \in Callers
           /\ \A f \in ToSet(Endpoints) \ {e} : serving'[f] = serving[f]
           /\ \A c \in Callers : call'[c] = call[c] \/ call'[c].st = "done"
           /\ bridge.st # "closed" /\ WaitsFor(serving[e].from, serving[e].id) =>
                call'[serving[e].from].st = "done"
           /\ WaitsFor(serving[e].from, serving[e].id) /\ call'[serving[e].from].st = "done"
                /\ rpc[Direct(e)].status.code \in Canonical \union {"OK"} =>
              LET got == call'[serving[e].from].status
              IN  /\ got.code = rpc[Direct(e)].status.code
                  /\ got.code # "OK" => got.message # <<>>
<1> DEFINE k == Direct(e)
<1>1. /\ k \in Keys /\ k[2] = "call" /\ rpc[k].st = "back" /\ AnswerOK(k) /\ rpc[k] # NoRpc
      /\ DOMAIN rpc = Keys
  BY KeyFacts, AtWork DEF HandleResponse
<1>2. PICK m : m = serving[e]
  OBVIOUS
<1>3. MessageOK(m) /\ rpc[k].id = m.id /\ rpc[k].req = m.req
  BY <1>1, <1>2 DEF AppInv, HandlersHold, HandlerHolds
<1>4. m # NoRequest /\ m.from \in Callers
  BY <1>3 DEF MessageOK, NoRequest
<1>5. PICK s : s = rpc[k].status
  OBVIOUS
<1>6. PICK reply : reply = IF s.code = "OK" THEN Respond ELSE respondError(s)
  OBVIOUS
<1>7. PICK v : v = rpc[k].value
  OBVIOUS
<1>8. /\ rpc' = [rpc EXCEPT ![k] = NoRpc] /\ Reply(e, m, reply, v)
      /\ UNCHANGED <<secrets, inbox, bridge, calls>>
  BY <1>2, <1>5, <1>6, <1>7 DEF HandleResponse
<1>9. ValueOK(v, m.req) /\ Worded(s)
  BY <1>1, <1>3, <1>5, <1>7 DEF AnswerOK
<1>10. /\ DOMAIN call' = Callers /\ CallsOK' /\ CallsStay
       /\ DOMAIN serving' = ToSet(Endpoints) /\ serving'[e] = NoRequest
       /\ \A f \in ToSet(Endpoints) \ {e} : serving'[f] = serving[f]
       /\ \A c \in Callers : \/ call'[c] = call[c]
                             \/ /\ c = m.from /\ WaitsFor(c, m.id) /\ call'[c].st = "done"
                                /\ call'[c].id = call[c].id /\ call'[c].req = call[c].req
       /\ reply.sent /\ bridge.st # "closed" /\ WaitsFor(m.from, m.id) =>
            call'[m.from].st = "done" /\ call'[m.from].status = statusFromNATSResponse(reply)
  BY <1>3, <1>8, <1>9, ReplyStep
<1>11. /\ reply.sent
       /\ s.code \in Canonical \union {"OK"} =>
            /\ statusFromNATSResponse(reply).code = s.code
            /\ s.code # "OK" => statusFromNATSResponse(reply).message # <<>>
  BY <1>6, <1>9, RepliesSurvive
<1>12. DOMAIN rpc' = Keys /\ rpc'[k] = NoRpc /\ \A j \in Keys \ {k} : rpc'[j] = rpc[j]
  BY <1>1, <1>8
<1>13. calls' \in Nat /\ calls' >= calls /\ Shape' /\ StoreOK'
  BY <1>8, <1>10, <1>12 DEF AppInv, Shape, StoreOK
<1>14. CallersHold'
  <2>1. ASSUME NEW c \in Callers PROVE CallerHolds(c)'
    <3>1. Direct(c) \in Keys \ {k}
      BY KeyFacts
    <3>2. QED BY <1>10, <1>12, <3>1 DEF AppInv, CallersHold, CallerHolds
  <2>2. QED BY <2>1 DEF CallersHold
<1>15. RpcsOK'
  <2>1. RpcOK(k)'
    BY <1>12 DEF RpcOK
  <2>2. ASSUME NEW j \in Keys \ {k} PROVE RpcOK(j)'
    BY <1>8, <1>12 DEF AppInv, RpcsOK, RpcOK, PendingOK, InOK, AnswerOK
  <2>3. QED BY <2>1, <2>2 DEF RpcsOK
<1>16. HandlersHold'
  <2>1. HandlerHolds(e)'
    BY <1>10, <1>12 DEF HandlerHolds
  <2>2. ASSUME NEW f \in ToSet(Endpoints), f # e PROVE HandlerHolds(f)'
    <3>1. Direct(f) \in Keys \ {k}
      BY <2>2, KeyFacts
    <3>2. QED BY <1>10, <1>12, <1>13, <2>2, <3>1, ServedStays
  <2>3. QED BY <2>1, <2>2 DEF HandlersHold
<1>17. InboxesOK'
  BY <1>8, <1>10, <1>13, QueuedStays DEF InboxesOK
<1>18. WaitsFor(m.from, m.id) /\ call'[m.from].st = "done" =>
         call'[m.from].status = statusFromNATSResponse(reply)
  <2>1. WaitsFor(m.from, m.id) /\ call'[m.from].st = "done" => call'[m.from] # call[m.from]
    BY DEF WaitsFor, Waiting
  <2>2. bridge.st = "closed" => UNCHANGED call
    BY <1>8 DEF Reply
  <2>3. QED BY <1>10, <1>11, <2>1, <2>2
<1>19. AppInv'
  BY <1>10, <1>13, <1>14, <1>15, <1>16, <1>17 DEF AppInv
<1>20. QED BY <1>2, <1>4, <1>5, <1>10, <1>11, <1>18, <1>19

LEMMA ShutdownStep ==
    ASSUME AppInv, Shutdown PROVE AppInv'
<1>1. /\ inbox' = [e \in ToSet(Endpoints) |-> <<>>]
      /\ UNCHANGED <<call, rpc, secrets, serving, calls>>
  BY DEF Shutdown
<1>2. inbox' \in [ToSet(Endpoints) -> Seq(Messages)]
  BY <1>1
<1>3. \A e \in ToSet(Endpoints) : ToSet(inbox'[e]) = {}
  BY <1>1, QueueEmpty
<1>4. Shape' /\ StoreOK' /\ CallsOK'
  BY <1>1, <1>2 DEF AppInv, Shape, StoreOK, CallsOK, CallOK
<1>5. CallersHold' /\ RpcsOK'
  BY <1>1 DEF AppInv, CallersHold, CallerHolds, RpcsOK, RpcOK, PendingOK, InOK, AnswerOK
<1>6. HandlersHold'
  BY <1>1 DEF AppInv, HandlersHold, HandlerHolds, MessageOK
<1>7. QED BY <1>3, <1>4, <1>5, <1>6 DEF AppInv, InboxesOK

-----------------------------------------------------------------------------
(* The invariant. *)

\* The server's steps leave the callers, the inboxes and the handlers alone,
\* or end the call of a caller.
Quiet ==
    /\ \A c \in Callers : call'[c].st = "wait" /\ call'[c].req.via \in {"nats", "raw"} =>
         call[c].st = "wait" /\ call'[c].id = call[c].id /\ call'[c].req = call[c].req
    /\ UNCHANGED <<inbox, serving, bridge>>

LEMMA ServerStep ==
    ASSUME AppInv, NEW k \in Keys, Intercept(k) \/ RuntimeFails(k) \/ Serve(k) \/ Return(k)
    PROVE  AppInv' /\ Quiet
<1>1. AppInv'
  BY InterceptStep, RuntimeFailsStep, ServeStep, ReturnStep
<1>2. CASE UNCHANGED <<call, inbox, serving, bridge>>
  BY <1>1, <1>2 DEF Quiet
<1>3. CASE Return(k) /\ ~UNCHANGED call
  <2>1. /\ k[1] \in Callers /\ WaitsFor(k[1], rpc[k].id) /\ UNCHANGED <<inbox, serving, bridge>>
        /\ call' = [call EXCEPT ![k[1]] = Done(k[1], rpc[k].status, rpc[k].value)]
    BY <1>3 DEF Return
  <2>2. DOMAIN call = Callers
    BY DEF AppInv, Shape
  <2>3. call'[k[1]].st = "done" /\ \A d \in Callers \ {k[1]} : call'[d] = call[d]
    BY <2>1, <2>2 DEF Done
  <2>4. QED BY <1>1, <2>1, <2>3 DEF Quiet
<1>4. UNCHANGED call \/ Return(k)
  BY DEF Intercept, RuntimeFails, Serve
<1>5. UNCHANGED <<inbox, serving, bridge>>
  BY DEF Intercept, RuntimeFails, Serve, Return
<1>6. QED BY <1>1, <1>2, <1>3, <1>4, <1>5

LEMMA EndStep ==
    ASSUME AppInv, NEW c \in Callers,
           RegisterGreeterHandlerClient(c) \/ TimeOut(c) \/ Cancel(c) \/ Abandon(c)
    PROVE  AppInv' /\ Quiet
<1>1. DOMAIN call = Callers /\ CallOK(c)
  BY DEF AppInv, Shape, CallsOK
<1>2. CASE Abandon(c)
  <2>1. UNCHANGED <<call, inbox, serving, bridge>>
    BY <1>2 DEF Abandon
  <2>2. QED BY <1>2, <2>1, AbandonStep DEF Quiet
<1>3. CASE TimeOut(c) \/ Cancel(c)
  <2>1. PICK code : Waiting(c) /\ GiveUp(c, code)
    BY <1>3 DEF TimeOut, Cancel
  <2>2. AppInv'
    BY <2>1, GiveUpStep
  <2>3. call'[c].st = "done" /\ \A d \in Callers \ {c} : call'[d] = call[d]
    BY <1>1, <2>1 DEF GiveUp, Done
  <2>4. UNCHANGED <<inbox, serving, bridge>>
    BY <2>1 DEF GiveUp
  <2>5. QED BY <2>2, <2>3, <2>4 DEF Quiet
<1>4. CASE RegisterGreeterHandlerClient(c)
  <2>1. AppInv' /\ UNCHANGED <<inbox, serving, bridge>>
    BY <1>4, RegisterGreeterHandlerClientStep DEF RegisterGreeterHandlerClient
  <2>2. call[c].st = "http" /\ call[c].req.via = "http"
    BY <1>1, <1>4 DEF RegisterGreeterHandlerClient, CallOK
  <2>3. /\ call'[c].req = call[c].req /\ \A d \in Callers \ {c} : call'[d] = call[d]
    <3>1. CASE call[c].req.body = "bad"
      BY <1>1, <1>4, <3>1 DEF RegisterGreeterHandlerClient, request_Greeter, Done
    <3>2. CASE call[c].req.body # "bad"
      BY <1>1, <1>4, <3>2 DEF RegisterGreeterHandlerClient, request_Greeter
    <3>3. QED BY <3>1, <3>2
  <2>4. QED BY <2>1, <2>2, <2>3 DEF Quiet
<1>5. QED BY <1>2, <1>3, <1>4

LEMMA TickQuiet ==
    ASSUME AppInv, Tick PROVE AppInv' /\ Quiet
<1>1. UNCHANGED <<inbox, serving, bridge>>
  BY DEF Tick
<1>2. ASSUME NEW c \in Callers
      PROVE  call'[c] = call[c] \/ ( /\ call'[c].st = call[c].st
                                     /\ call'[c].id = call[c].id /\ call'[c].req = call[c].req)
  BY DEF Tick
<1>3. QED BY <1>1, <1>2, TickStep DEF Quiet

\* A bridge that is closed stays so, and until then nothing is lost.
LEMMA BridgeStep ==
    ASSUME AppInv, \/ StartNATSHandlerGateway \/ RegisterGreeterNATSHandlerClient
                   \/ SetNATSMicroServicesContainer
    PROVE  AppInv' /\ UNCHANGED <<call, inbox, serving>> /\ bridge.st # "closed"
<1>1. UNCHANGED <<call, rpc, secrets, inbox, serving, calls>> /\ bridge.st # "closed"
  BY DEF StartNATSHandlerGateway, RegisterGreeterNATSHandlerClient, SetNATSMicroServicesContainer
<1>2. Shape' /\ StoreOK' /\ CallsOK'
  BY <1>1 DEF AppInv, Shape, StoreOK, CallsOK, CallOK
<1>3. CallersHold' /\ RpcsOK'
  BY <1>1 DEF AppInv, CallersHold, CallerHolds, RpcsOK, RpcOK, PendingOK, InOK, AnswerOK
<1>4. HandlersHold' /\ InboxesOK'
  BY <1>1 DEF AppInv, HandlersHold, HandlerHolds, InboxesOK, MessageOK
<1>5. QED BY <1>1, <1>2, <1>3, <1>4 DEF AppInv

LEMMA StutterStep ==
    ASSUME AppInv, UNCHANGED appVars PROVE AppInv'
<1>1. UNCHANGED <<call, rpc, secrets, inbox, serving, calls>>
  BY DEF appVars
<1>2. Shape' /\ StoreOK' /\ CallsOK'
  BY <1>1 DEF AppInv, Shape, StoreOK, CallsOK, CallOK
<1>3. CallersHold' /\ RpcsOK'
  BY <1>1 DEF AppInv, CallersHold, CallerHolds, RpcsOK, RpcOK, PendingOK, InOK, AnswerOK
<1>4. HandlersHold' /\ InboxesOK'
  BY <1>1 DEF AppInv, HandlersHold, HandlerHolds, InboxesOK, MessageOK
<1>5. QED BY <1>1, <1>2, <1>3, <1>4 DEF AppInv

LEMMA InitHolds == AppInit => AppInv
<1> SUFFICES ASSUME AppInit PROVE AppInv
  OBVIOUS
<1>1. Shape
  BY DEF AppInit, Shape
<1>2. CallsOK
  BY DEF AppInit, CallsOK, CallOK
<1>3. \A o \in Origins : rpc[Direct(o)] = NoRpc
  BY KeyFacts DEF AppInit
<1>4. CallersHold /\ RpcsOK
  BY <1>3, KeyFacts DEF AppInit, CallersHold, CallerHolds, RpcsOK, RpcOK
<1>5. HandlersHold
  BY <1>3, KeyFacts DEF AppInit, HandlersHold, HandlerHolds
<1>6. InboxesOK
  BY QueueEmpty DEF AppInit, InboxesOK
<1>7. StoreOK
  BY DEF AppInit, StoreOK
<1>8. QED BY <1>1, <1>2, <1>4, <1>5, <1>6, <1>7 DEF AppInv

LEMMA StepHolds == AppInv /\ [AppNext]_appVars => AppInv'
<1> SUFFICES ASSUME AppInv, [AppNext]_appVars PROVE AppInv'
  OBVIOUS
<1>1. ASSUME NEW c \in Callers, NEW r \in Requests, Send(c, r) PROVE AppInv'
  <2>1. CASE CallDirectly(c, r)
    BY <1>1, <2>1, CallDirectlyStep
  <2>2. CASE HandleNATSClientRequest(c, r)
    BY <1>1, <2>2, HandleNATSClientRequestStep
  <2>3. QED BY <1>1, <2>1, <2>2 DEF Send
<1>2. ASSUME NEW k \in Keys, Intercept(k) \/ RuntimeFails(k) \/ Serve(k) \/ Return(k) PROVE AppInv'
  BY <1>2, ServerStep
<1>3. ASSUME NEW c \in Callers,
             RegisterGreeterHandlerClient(c) \/ TimeOut(c) \/ Cancel(c) \/ Abandon(c) PROVE AppInv'
  BY <1>3, EndStep
<1>4. ASSUME NEW e \in ToSet(Endpoints), HandleRequest(e) \/ HandleResponse(e) \/ HandlePanic(e) PROVE AppInv'
  BY <1>4, HandleRequestStep, HandleResponseStep, HandlePanicStep
<1>5. CASE Tick
  BY <1>5, TickStep
<1>6. CASE StartNATSHandlerGateway \/ RegisterGreeterNATSHandlerClient \/ SetNATSMicroServicesContainer
  BY <1>6, BridgeStep
<1>7. CASE Shutdown
  BY <1>7, ShutdownStep
<1>8. CASE UNCHANGED appVars
  BY <1>8, StutterStep
<1>9. QED BY <1>1, <1>2, <1>3, <1>4, <1>5, <1>6, <1>7, <1>8 DEF AppNext, Serving

LEMMA InvariantHolds == AppSpec => []AppInv
  BY InitHolds, StepHolds, PTL DEF AppSpec

\* A secret is read by an identity it was set with (secretOwner, GetSecret), for
\* any callers, users, transports and interleaving of calls on the endpoints.
THEOREM SecretsTheorem == AppSpec => []SecretsAreOwned
<1>1. AppInv => SecretsAreOwned
  BY DEF AppInv, CallsOK, CallOK, ValueOK, SecretsAreOwned
<1>2. QED BY <1>1, InvariantHolds, PTL

\* The status a handler ends a NATS call with survives the bridge's headers
\* (respondError, statusFromNATSResponse), with a message whenever it is an error.
THEOREM StatusTheorem == AppSpec => StatusSurvives
<1> DEFINE A == \A e \in ToSet(Endpoints) :
                  LET m == serving[e]
                      was == rpc[Direct(e)].status
                      got == call'[m.from].status
                  IN  rpc[Direct(e)].st = "back" /\ serving'[e] = NoRequest /\ WaitsFor(m.from, m.id)
                        /\ call'[m.from].st = "done" /\ was.code \in Canonical \union {"OK"} =>
                      got.code = was.code /\ (got.code # "OK" => got.message # <<>>)
<1>1. AppInv /\ [AppNext]_appVars => [A]_appVars
  <2> SUFFICES ASSUME AppInv, AppNext, NEW e \in ToSet(Endpoints),
                      rpc[Direct(e)].st = "back", serving'[e] = NoRequest,
                      WaitsFor(serving[e].from, serving[e].id),
                      call'[serving[e].from].st = "done",
                      rpc[Direct(e)].status.code \in Canonical \union {"OK"}
               PROVE  /\ call'[serving[e].from].status.code = rpc[Direct(e)].status.code
                      /\ call'[serving[e].from].status.code # "OK" =>
                           call'[serving[e].from].status.message # <<>>
    OBVIOUS
  <2>1. serving[e] # NoRequest
    <3>1. rpc[Direct(e)] # NoRpc /\ HandlerHolds(e)
      BY DEF NoRpc, AppInv, HandlersHold
    <3>2. QED BY <3>1 DEF HandlerHolds, MessageOK, NoRequest
  <2>2. CASE HandleResponse(e)
    BY <2>2, HandleResponseStep
  <2>3. ASSUME NEW f \in ToSet(Endpoints), f # e, HandleResponse(f) PROVE FALSE
    BY <2>1, <2>3, HandleResponseStep
  <2>4. ASSUME NEW f \in ToSet(Endpoints), HandleRequest(f) \/ HandlePanic(f) PROVE FALSE
    <3>1. serving[f] = NoRequest /\ DOMAIN serving = ToSet(Endpoints)
      BY <2>4 DEF HandleRequest, HandlePanic, AppInv, Shape
    <3>2. \A g \in ToSet(Endpoints) \ {f} : serving'[g] = serving[g]
      BY <2>4, <3>1 DEF HandleRequest, HandlePanic, Reply
    <3>3. QED BY <2>1, <3>1, <3>2
  <2>5. CASE UNCHANGED serving
    BY <2>1, <2>5
  <2>6. UNCHANGED serving \/ \E f \in ToSet(Endpoints) : HandleRequest(f) \/ HandleResponse(f) \/ HandlePanic(f)
    BY DEF AppNext, Serving, Send, Cancel, TimeOut, GiveUp, Tick, Intercept, RuntimeFails, Serve, Return,
           Abandon, RegisterGreeterHandlerClient, StartNATSHandlerGateway,
           RegisterGreeterNATSHandlerClient, SetNATSMicroServicesContainer, Shutdown
  <2>7. QED BY <2>2, <2>3, <2>4, <2>5, <2>6
<1>2. QED BY <1>1, InvariantHolds, PTL DEF AppSpec, StatusSurvives

-----------------------------------------------------------------------------
(* Handlers answer. *)

\* A NATS call that waits is a message somewhere, or the connection is gone.
Keeps(c) ==
    \/ bridge.st = "closed"
    \/ \E e \in ToSet(Endpoints) :
         serving[e].id = call[c].id \/ \E m \in ToSet(inbox[e]) : m.id = call[c].id

Answered ==
    \A c \in Callers : call[c].st = "wait" /\ call[c].req.via \in {"nats", "raw"} => Keeps(c)

LEMMA QueuedMeans ==
    \A s, x : (\E i \in DOMAIN s : s[i].id = x) <=> (\E m \in ToSet(s) : m.id = x)
  BY DEF ToSet

LEMMA AnsweredMeans == Answered <=> HandlersAnswer
<1>1. ASSUME NEW c \in Callers
      PROVE  Keeps(c) <=> \/ bridge.st = "closed"
                         \/ \E e \in ToSet(Endpoints) :
                              \/ serving[e].id = call[c].id
                              \/ \E i \in DOMAIN inbox[e] : inbox[e][i].id = call[c].id
  <2>1. ASSUME NEW e \in ToSet(Endpoints)
        PROVE  (\E i \in DOMAIN inbox[e] : inbox[e][i].id = call[c].id)
                 <=> (\E m \in ToSet(inbox[e]) : m.id = call[c].id)
    BY QueuedMeans
  <2>2. QED BY <2>1 DEF Keeps
<1>2. QED BY <1>1 DEF Answered, HandlersAnswer

LEMMA QuietAnswers ==
    ASSUME Answered, Quiet PROVE Answered'
  BY DEF Answered, Keeps, Quiet

\* A message that is taken goes to the handler or is answered.
LEMMA TakenAnswers ==
    ASSUME AppInv, Answered, NEW e \in ToSet(Endpoints), NEW m, m = Head(inbox[e]),
           inbox[e] # <<>>, serving[e] = NoRequest, inbox' = [inbox EXCEPT ![e] = Tail(@)],
           \A f \in ToSet(Endpoints) \ {e} : serving'[f] = serving[f],
           bridge' = bridge,
           \A c \in Callers : call'[c] = call[c] \/ call'[c].st = "done",
           \/ serving'[e] = m
           \/ bridge.st # "closed" /\ WaitsFor(m.from, m.id) => call'[m.from].st = "done"
    PROVE  Answered'
<1>1. inbox \in [ToSet(Endpoints) -> Seq(Messages)] /\ inbox[e] \in Seq(Messages)
  BY DEF AppInv, Shape
<1>2. ToSet(inbox[e]) = ToSet(Tail(inbox[e])) \union {m}
  BY <1>1, QueueTail
<1>3. inbox'[e] = Tail(inbox[e]) /\ \A f \in ToSet(Endpoints) \ {e} : inbox'[f] = inbox[f]
  BY <1>1
<1>4. MessageOK(m)
  BY <1>2 DEF AppInv, InboxesOK
<1>5. ASSUME NEW c \in Callers, call'[c].st = "wait", call'[c].req.via \in {"nats", "raw"},
             bridge.st # "closed"
      PROVE  \E f \in ToSet(Endpoints) :
               serving'[f].id = call'[c].id \/ \E x \in ToSet(inbox'[f]) : x.id = call'[c].id
  <2>1. call'[c] = call[c]
    BY <1>5
  <2>2. PICK f \in ToSet(Endpoints) :
          serving[f].id = call[c].id \/ \E x \in ToSet(inbox[f]) : x.id = call[c].id
    BY <1>5, <2>1 DEF Answered, Keeps
  <2>3. call[c].id \in Nat \ {0}
    <3>1. call[c].id \in 1 .. calls /\ calls \in Nat
      BY <1>5, <2>1 DEF AppInv, CallsOK, CallOK, Shape
    <3>2. QED BY <3>1
  <2>4. CASE serving[f].id = call[c].id
    <3>1. f # e
      BY <2>3, <2>4 DEF NoRequest
    <3>2. QED BY <2>1, <2>4, <3>1
  <2>5. CASE \E x \in ToSet(inbox[f]) : x.id = call[c].id
    <3>1. PICK x \in ToSet(inbox[f]) : x.id = call[c].id
      BY <2>5
    <3>2. CASE x \in ToSet(inbox'[f])
      BY <2>1, <3>1, <3>2
    <3>3. CASE x \notin ToSet(inbox'[f])
      <4>1. f = e /\ x = m
        BY <1>2, <1>3, <3>1, <3>3
      <4>2. m.from = c /\ WaitsFor(m.from, m.id)
        BY <1>4, <1>5, <2>1, <3>1, <4>1 DEF MessageOK, WaitsFor, Waiting
      <4>3. serving'[e] = m
        BY <1>5, <4>2
      <4>4. QED BY <2>1, <3>1, <4>1, <4>3
    <3>4. QED BY <3>2, <3>3
  <2>6. QED BY <2>2, <2>4, <2>5
<1>6. QED BY <1>5 DEF Answered, Keeps

LEMMA HandlersStep ==
    ASSUME AppInv, Answered, NEW e \in ToSet(Endpoints),
           HandleRequest(e) \/ HandleResponse(e) \/ HandlePanic(e)
    PROVE  Answered'
<1>1. ASSUME NEW s, s.code # "OK", Worded(s) PROVE respondError(s).sent
  BY <1>1, RepliesSurvive
<1>2. PICK m : m = Head(inbox[e])
  OBVIOUS
<1>3. ASSUME inbox[e] # <<>>, serving[e] = NoRequest, inbox' = [inbox EXCEPT ![e] = Tail(@)],
             UNCHANGED <<bridge, calls>>, NEW s, s.code # "OK", Worded(s),
             Reply(e, m, respondError(s), NoSecret)
      PROVE  Answered'
  <2>1. inbox[e] \in Seq(Messages)
    BY DEF AppInv, Shape
  <2>2. m \in ToSet(inbox[e])
    BY <1>2, <1>3, <2>1, QueueTail
  <2>3. MessageOK(m) /\ ValueOK(NoSecret, m.req)
    BY <2>2 DEF AppInv, InboxesOK, ValueOK
  <2>4. PICK reply : reply = respondError(s)
    OBVIOUS
  <2>5. reply.sent /\ Reply(e, m, reply, NoSecret)
    BY <1>1, <1>3, <2>4
  <2>6. /\ \A f \in ToSet(Endpoints) \ {e} : serving'[f] = serving[f]
        /\ \A c \in Callers : call'[c] = call[c] \/ call'[c].st = "done"
        /\ reply.sent /\ bridge.st # "closed" /\ WaitsFor(m.from, m.id) => call'[m.from].st = "done"
    BY <1>3, <2>3, <2>5, ReplyStep
  <2>7. QED BY <1>2, <1>3, <2>5, <2>6, TakenAnswers
<1>4. CASE HandlePanic(e)
  <2>1. PICK s : s = Status("Internal", <<"internal error">>)
    OBVIOUS
  <2>2. s.code # "OK" /\ Worded(s)
    BY <2>1, StatusFacts DEF Status
  <2>3. Reply(e, m, respondError(s), NoSecret)
    BY <1>2, <1>4, <2>1 DEF HandlePanic
  <2>4. QED BY <1>3, <1>4, <2>2, <2>3 DEF HandlePanic
<1>5. CASE HandleRequest(e) /\ (m.req.body = "bad" \/ ~Injected[m.req].ok)
  <2>1. PICK s : s = Status("InvalidArgument", <<"request">>)
    OBVIOUS
  <2>2. s.code # "OK" /\ Worded(s)
    BY <2>1, StatusFacts DEF Status
  <2>3. Reply(e, m, respondError(s), NoSecret)
    BY <1>2, <1>5, <2>1 DEF HandleRequest
  <2>4. QED BY <1>3, <1>5, <2>2, <2>3 DEF HandleRequest
<1>6. CASE HandleRequest(e) /\ ~(m.req.body = "bad" \/ ~Injected[m.req].ok)
  <2>1. /\ inbox[e] # <<>> /\ serving[e] = NoRequest /\ inbox' = [inbox EXCEPT ![e] = Tail(@)]
        /\ UNCHANGED <<bridge, call>> /\ serving' = [serving EXCEPT ![e] = m]
    BY <1>2, <1>6 DEF HandleRequest
  <2>2. DOMAIN serving = ToSet(Endpoints)
    BY DEF AppInv, Shape
  <2>3. serving'[e] = m /\ \A f \in ToSet(Endpoints) \ {e} : serving'[f] = serving[f]
    BY <2>1, <2>2
  <2>4. QED BY <1>2, <2>1, <2>3, TakenAnswers
<1>7. CASE HandleResponse(e)
  <2>1. /\ UNCHANGED <<inbox, bridge>>
        /\ \A f \in ToSet(Endpoints) \ {e} : serving'[f] = serving[f]
        /\ \A c \in Callers : call'[c] = call[c] \/ call'[c].st = "done"
        /\ bridge.st # "closed" /\ WaitsFor(serving[e].from, serving[e].id) =>
             call'[serving[e].from].st = "done"
        /\ serving[e] # NoRequest
    BY <1>7, HandleResponseStep DEF HandleResponse
  <2>2. PICK n : n = serving[e]
    OBVIOUS
  <2>3. MessageOK(n)
    BY <2>1, <2>2 DEF AppInv, HandlersHold, HandlerHolds
  <2>4. ASSUME NEW c \in Callers, call'[c].st = "wait", call'[c].req.via \in {"nats", "raw"}
        PROVE  Keeps(c)'
    <3>1. call'[c] = call[c]
      BY <2>1, <2>4
    <3>2. CASE bridge.st # "closed" /\ serving[e].id = call[c].id
      <4>1. n.from = c /\ WaitsFor(n.from, n.id)
        BY <2>2, <2>3, <2>4, <3>1, <3>2 DEF MessageOK, WaitsFor, Waiting
      <4>2. QED BY <2>1, <2>2, <2>4, <3>2, <4>1
    <3>3. CASE bridge.st = "closed" \/ serving[e].id # call[c].id
      BY <2>1, <2>4, <3>1, <3>3 DEF Answered, Keeps
    <3>4. QED BY <3>2, <3>3
  <2>5. QED BY <2>4 DEF Answered
<1>8. QED BY <1>4, <1>5, <1>6, <1>7

LEMMA SendAnswers ==
    ASSUME AppInv, Answered, NEW c \in Callers, NEW r \in Requests, Send(c, r) PROVE Answered'
<1>1. UNCHANGED <<serving, bridge>> /\ DOMAIN call = Callers
  BY DEF Send, AppInv, Shape
<1>2. CASE CallDirectly(c, r)
  <2>1. /\ call'[c].req = r /\ r.via \in {"grpc", "http"} /\ UNCHANGED inbox
        /\ \A d \in Callers \ {c} : call'[d] = call[d]
    BY <1>1, <1>2 DEF CallDirectly
  <2>2. Quiet
    BY <1>1, <2>1 DEF Quiet
  <2>3. QED BY <2>2, QuietAnswers
<1>3. CASE HandleNATSClientRequest(c, r)
  <2>1. /\ \A d \in Callers \ {c} : call'[d] = call[d]
        /\ \A e \in ToSet(Endpoints) : ToSet(inbox[e]) \subseteq ToSet(inbox'[e])
        /\ call'[c].st = "wait" => \E e \in ToSet(Endpoints) : \E m \in ToSet(inbox'[e]) : m.id = call'[c].id
    BY <1>3, HandleNATSClientRequestStep
  <2>2. ASSUME NEW d \in Callers, call'[d].st = "wait", call'[d].req.via \in {"nats", "raw"}
        PROVE  Keeps(d)'
    <3>1. CASE d = c
      BY <2>1, <2>2, <3>1 DEF Keeps
    <3>2. CASE d # c
      BY <1>1, <2>1, <2>2, <3>2 DEF Keeps, Answered
    <3>3. QED BY <3>1, <3>2
  <2>3. QED BY <2>2 DEF Answered
<1>4. QED BY <1>2, <1>3 DEF Send

\* A handler that is through has answered (HandleRequest, respondError): as long
\* as the connection is there, a NATS call that waits is queued or being served.
THEOREM AnswersTheorem == AppSpec => []HandlersAnswer
<1>1. AppInit => Answered
  BY DEF AppInit, Answered
<1>2. AppInv /\ Answered /\ [AppNext]_appVars => Answered'
  <2> SUFFICES ASSUME AppInv, Answered, [AppNext]_appVars PROVE Answered'
    OBVIOUS
  <2>1. CASE Quiet
    BY <2>1, QuietAnswers
  <2>2. ASSUME NEW c \in Callers, NEW r \in Requests, Send(c, r) PROVE Answered'
    BY <2>2, SendAnswers
  <2>3. ASSUME NEW e \in ToSet(Endpoints), HandleRequest(e) \/ HandleResponse(e) \/ HandlePanic(e) PROVE Answered'
    BY <2>3, HandlersStep
  <2>4. ASSUME NEW k \in Keys, Intercept(k) \/ RuntimeFails(k) \/ Serve(k) \/ Return(k) PROVE Quiet
    BY <2>4, ServerStep
  <2>5. ASSUME NEW c \in Callers,
               RegisterGreeterHandlerClient(c) \/ TimeOut(c) \/ Cancel(c) \/ Abandon(c) PROVE Quiet
    BY <2>5, EndStep
  <2>6. CASE Tick
    BY <2>1, <2>6, TickQuiet
  <2>7. CASE StartNATSHandlerGateway \/ RegisterGreeterNATSHandlerClient \/ SetNATSMicroServicesContainer
    <3>1. UNCHANGED <<call, inbox, serving>> /\ bridge.st # "closed"
      BY <2>7, BridgeStep
    <3>2. QED BY <3>1 DEF Answered, Keeps
  <2>8. CASE Shutdown
    <3>1. bridge'.st = "closed"
      BY <2>8 DEF Shutdown
    <3>2. QED BY <3>1 DEF Answered, Keeps
  <2>9. CASE UNCHANGED appVars
    BY <2>9, QuietAnswers DEF appVars, Quiet
  <2>10. QED
    BY <2>1, <2>2, <2>3, <2>4, <2>5, <2>6, <2>7, <2>8, <2>9 DEF AppNext, Serving
<1>3. QED BY <1>1, <1>2, InvariantHolds, AnsweredMeans, PTL DEF AppSpec

-----------------------------------------------------------------------------
(* Calls are served as they were sent. *)

OrgOK(k) == rpc[k].st \in {"pending", "in"} => rpc[k].org = OrgOf(rpc[k].req)
OrgsOK == \A o \in Origins : OrgOK(Direct(o))

\* Where a gRPC call is not made anew, its org is the one it had.
LEMMA OrgStays ==
    ASSUME OrgsOK, NEW o \in Origins,
           \/ rpc'[Direct(o)] = rpc[Direct(o)]
           \/ rpc'[Direct(o)].st \notin {"pending", "in"}
           \/ /\ rpc[Direct(o)].st = "pending" /\ rpc'[Direct(o)].st = "in"
              /\ rpc'[Direct(o)].org = rpc[Direct(o)].org /\ rpc'[Direct(o)].req = rpc[Direct(o)].req
    PROVE  OrgOK(Direct(o))'
  BY DEF OrgsOK, OrgOK

\* The service's own steps make no gRPC call but the downstream one.
LEMMA OrgServer ==
    ASSUME AppInv, OrgsOK, NEW k \in Keys,
           Intercept(k) \/ RuntimeFails(k) \/ Serve(k) \/ Return(k)
    PROVE  OrgsOK'
<1>1. DOMAIN rpc = Keys
  BY DEF AppInv, Shape
<1>2. ASSUME NEW o \in Origins PROVE OrgOK(Direct(o))'
  <2> DEFINE d == Direct(o)
  <2>1. d \in Keys /\ \A p \in Origins : d # Down(p)
    BY KeyFacts
  <2>2. ASSUME NEW j \in Keys, NEW s, NEW v, rpc' = Answer(j, s, v) PROVE OrgOK(d)'
    <3>1. rpc'[d] = rpc[d] \/ rpc'[d].st = "out"
      BY <1>1, <2>1, <2>2 DEF Answer
    <3>2. QED BY <3>1, OrgStays
  <2>3. CASE Intercept(k)
    <3>1. PICK sub :
            \/ \E s : rpc' = Answer(k, s, NoSecret)
            \/ rpc' = [rpc EXCEPT ![k] =
                         [st |-> "in", req |-> rpc[k].req, id |-> rpc[k].id, method |-> rpc[k].method,
                          org |-> rpc[k].org, sub |-> sub, cert |-> rpc[k].cert]]
      BY <2>3 DEF Intercept
    <3>2. CASE \E s : rpc' = Answer(k, s, NoSecret)
      BY <2>2, <3>2
    <3>3. CASE rpc' = [rpc EXCEPT ![k] =
                         [st |-> "in", req |-> rpc[k].req, id |-> rpc[k].id, method |-> rpc[k].method,
                          org |-> rpc[k].org, sub |-> sub, cert |-> rpc[k].cert]]
      <4>1. \/ rpc'[d] = rpc[d]
            \/ d = k /\ rpc'[d].st = "in" /\ rpc'[d].org = rpc[d].org /\ rpc'[d].req = rpc[d].req
        BY <1>1, <2>1, <3>3
      <4>2. rpc[k].st = "pending"
        BY <2>3 DEF Intercept
      <4>3. QED BY <4>1, <4>2, OrgStays
    <3>4. QED BY <3>1, <3>2, <3>3
  <2>4. CASE RuntimeFails(k)
    BY <2>2, <2>4 DEF RuntimeFails
  <2>5. CASE Serve(k)
    <3>1. CASE SayHello(k)
      <4>1. Down(k[1]) \in Keys
        BY KeyFacts
      <4>2. rpc'[d] = rpc[d] \/ rpc'[d].st = "down"
        BY <1>1, <2>1, <3>1, <4>1, KeyFacts DEF SayHello
      <4>3. QED BY <4>2, OrgStays
    <3>2. CASE SayHelloDownstream(k) \/ SetSecret(k)
      BY <2>2, <3>2 DEF SayHelloDownstream, SetSecret
    <3>3. CASE GetSecret(k)
      BY <2>2, <3>3 DEF GetSecret
    <3>4. QED BY <2>5, <3>1, <3>2, <3>3 DEF Serve
  <2>6. CASE Return(k)
    <3>1. Direct(k[1]) \in Keys
      BY KeyFacts
    <3>2. rpc'[d] = rpc[d] \/ rpc'[d].st \in {"none", "out", "back"}
      <4>1. CASE k = Down(k[1])
        BY <1>1, <2>1, <2>6, <3>1, <4>1, KeyFacts DEF Return, NoRpc
      <4>2. CASE k = Direct(k[1])
        BY <1>1, <2>1, <2>6, <3>1, <4>2, KeyFacts DEF Return, NoRpc
      <4>3. QED BY <4>1, <4>2, KeyFacts
    <3>3. QED BY <3>2, OrgStays
  <2>7. QED BY <2>3, <2>4, <2>5, <2>6
<1>3. QED BY <1>2 DEF OrgsOK

\* A call of a caller is about the org the caller named.
LEMMA OrgDial ==
    ASSUME OrgsOK, NEW c \in Callers, \A j \in Keys \ {Direct(c)} : rpc'[j] = rpc[j],
           rpc'[Direct(c)].req.via \in {"grpc", "http"},
           rpc'[Direct(c)].org = rpc'[Direct(c)].req.org
    PROVE  OrgsOK'
<1>1. ASSUME NEW o \in Origins PROVE OrgOK(Direct(o))'
  <2>1. CASE Direct(o) = Direct(c)
    BY <2>1 DEF OrgOK, OrgOf
  <2>2. CASE Direct(o) # Direct(c)
    BY <2>2, KeyFacts, OrgStays
  <2>3. QED BY <2>1, <2>2
<1>2. QED BY <1>1 DEF OrgsOK

\* A call is served as it was sent (HandleRequest, ConvertToStringMap, the
\* interceptors): with its method and org, and for one of its identities, or
\* for nobody only where it carried none.  What is asked of the subjects is
\* that a route that matches gives the org back.
THEOREM ServedTheorem == RoutesCarryOrg => (AppSpec => []ServedAsSent)
<1> SUFFICES ASSUME RoutesCarryOrg PROVE AppSpec => []ServedAsSent
  OBVIOUS
<1>1. AppInit => OrgsOK
  BY KeyFacts DEF AppInit, OrgsOK, OrgOK, NoRpc
<1>2. AppInv /\ OrgsOK /\ [AppNext]_appVars => OrgsOK'
  <2> SUFFICES ASSUME AppInv, OrgsOK, [AppNext]_appVars PROVE OrgsOK'
    OBVIOUS
  <2>1. CASE UNCHANGED rpc
    BY <2>1, OrgStays DEF OrgsOK
  <2>2. ASSUME NEW k \in Keys, Intercept(k) \/ RuntimeFails(k) \/ Serve(k) \/ Return(k) PROVE OrgsOK'
    BY <2>2, OrgServer
  <2>3. ASSUME NEW c \in Callers, NEW r \in Requests, Send(c, r) PROVE OrgsOK'
    <3>1. CASE CallDirectly(c, r)
      <4>1. DOMAIN rpc = Keys /\ Direct(c) \in Keys /\ r.via \in {"grpc", "http"}
        BY <3>1, KeyFacts DEF AppInv, Shape, CallDirectly
      <4>2. CASE r.via = "http"
        BY <2>1, <3>1, <4>2 DEF CallDirectly
      <4>3. CASE r.via # "http"
        <5>1. rpc' = [rpc EXCEPT ![Direct(c)] = NewRpc(r, calls + 1, {r.tok}, r.cert, r.org)]
          BY <3>1, <4>3 DEF CallDirectly
        <5>2. QED BY <4>1, <5>1, OrgDial DEF NewRpc
      <4>4. QED BY <4>2, <4>3
    <3>2. CASE HandleNATSClientRequest(c, r)
      BY <2>1, <3>2 DEF HandleNATSClientRequest
    <3>3. QED BY <2>3, <3>1, <3>2 DEF Send
  <2>4. ASSUME NEW c \in Callers, RegisterGreeterHandlerClient(c) PROVE OrgsOK'
    <3>1. call[c].req.via = "http"
      BY <2>4 DEF RegisterGreeterHandlerClient, AppInv, CallsOK, CallOK
    <3>2. CASE call[c].req.body = "bad"
      BY <2>1, <2>4, <3>2 DEF RegisterGreeterHandlerClient, request_Greeter
    <3>3. CASE call[c].req.body # "bad"
      <4>1. DOMAIN rpc = Keys /\ Direct(c) \in Keys
        BY KeyFacts DEF AppInv, Shape
      <4>2. rpc' = [rpc EXCEPT ![Direct(c)] =
                      NewRpc(call[c].req, call[c].id, {call[c].req.tok}, "none", call[c].req.org)]
        BY <2>4, <3>3 DEF RegisterGreeterHandlerClient, request_Greeter
      <4>3. QED BY <3>1, <4>1, <4>2, OrgDial DEF NewRpc
    <3>4. QED BY <3>2, <3>3
  <2>5. ASSUME NEW c \in Callers, Abandon(c) PROVE OrgsOK'
    <3>1. DOMAIN rpc = Keys /\ Direct(c) \in Keys
      BY KeyFacts DEF AppInv, Shape
    <3>2. \A j \in Keys : rpc'[j] = rpc[j] \/ rpc'[j].st = "out"
      BY <2>5, <3>1 DEF Abandon, Answer
    <3>3. QED BY <3>2, KeyFacts, OrgStays DEF OrgsOK
  <2>6. ASSUME NEW e \in ToSet(Endpoints), HandleRequest(e) PROVE OrgsOK'
    <3>1. PICK m : m = Head(inbox[e])
      OBVIOUS
    <3>2. CASE m.req.body = "bad" \/ ~Injected[m.req].ok
      BY <2>1, <2>6, <3>1, <3>2 DEF HandleRequest
    <3>3. CASE ~(m.req.body = "bad" \/ ~Injected[m.req].ok)
      <4>1. rpc' = [rpc EXCEPT ![Direct(e)] = NewRpc(m.req, m.id, ConvertToStringMap(m.headers), "none",
                                                     Injected[m.req].org)]
        BY <2>6, <3>1, <3>3 DEF HandleRequest
      <4>2. MessageOK(m)
        <5>1. inbox[e] \in Seq(Messages) /\ inbox[e] # <<>>
          BY <2>6 DEF AppInv, Shape, HandleRequest
        <5>2. m \in ToSet(inbox[e])
          BY <3>1, <5>1, QueueTail
        <5>3. QED BY <5>2 DEF AppInv, InboxesOK
      <4>3. Injected[m.req].org = OrgOf(m.req)
        BY <3>3, <4>2 DEF MessageOK, RoutesCarryOrg
      <4>4. DOMAIN rpc = Keys /\ Direct(e) \in Keys
        BY KeyFacts DEF AppInv, Shape
      <4>5. /\ \A j \in Keys \ {Direct(e)} : rpc'[j] = rpc[j]
            /\ rpc'[Direct(e)].org = Injected[m.req].org /\ rpc'[Direct(e)].req = m.req
        BY <4>1, <4>4 DEF NewRpc
      <4>6. ASSUME NEW o \in Origins PROVE OrgOK(Direct(o))'
        <5>1. CASE Direct(o) = Direct(e)
          BY <4>3, <4>5, <5>1 DEF OrgOK
        <5>2. CASE Direct(o) # Direct(e)
          BY <4>5, <5>2, KeyFacts, OrgStays
        <5>3. QED BY <5>1, <5>2
      <4>7. QED BY <4>6 DEF OrgsOK
    <3>4. QED BY <3>2, <3>3
  <2>7. ASSUME NEW e \in ToSet(Endpoints), HandleResponse(e) PROVE OrgsOK'
    <3>1. DOMAIN rpc = Keys /\ Direct(e) \in Keys
      BY KeyFacts DEF AppInv, Shape
    <3>2. \A j \in Keys : rpc'[j] = rpc[j] \/ rpc'[j].st = "none"
      BY <2>7, <3>1 DEF HandleResponse, NoRpc
    <3>3. QED BY <3>2, KeyFacts, OrgStays DEF OrgsOK
  <2>8. ASSUME NEW e \in ToSet(Endpoints), HandlePanic(e) PROVE OrgsOK'
    BY <2>1, <2>8 DEF HandlePanic
  <2>9. ASSUME NEW c \in Callers, Cancel(c) \/ TimeOut(c) PROVE OrgsOK'
    BY <2>1, <2>9 DEF Cancel, TimeOut, GiveUp
  <2>10. CASE \/ Tick \/ StartNATSHandlerGateway \/ RegisterGreeterNATSHandlerClient
              \/ SetNATSMicroServicesContainer \/ Shutdown \/ UNCHANGED appVars
    BY <2>1, <2>10 DEF Tick, StartNATSHandlerGateway, RegisterGreeterNATSHandlerClient,
           SetNATSMicroServicesContainer, Shutdown, appVars
  <2>11. QED
    BY <2>2, <2>3, <2>4, <2>5, <2>6, <2>7, <2>8, <2>9, <2>10 DEF AppNext, Serving
<1>3. AppInv /\ OrgsOK => ServedAsSent
  <2> SUFFICES ASSUME AppInv, OrgsOK, NEW o \in Origins, rpc[Direct(o)].st = "in"
               PROVE  LET p == rpc[Direct(o)]
                      IN  /\ p.method = p.req.method /\ p.org = OrgOf(p.req)
                          /\ IF p.sub = "anonymous"
                             THEN \/ {p.req.tok, p.req.src} = {"none"}
                                  \/ p.req.via \in {"grpc", "http"} /\ p.req.tok = "none"
                             ELSE p.sub \in Identities(p.req)
    BY DEF ServedAsSent
  <2>1. Direct(o) \in Keys /\ Direct(o)[2] = "call"
    BY KeyFacts
  <2>2. InOK(Direct(o))
    BY <2>1, AtWork
  <2>3. rpc[Direct(o)].org = OrgOf(rpc[Direct(o)].req)
    BY DEF OrgsOK, OrgOK
  <2>4. ASSUME rpc[Direct(o)].sub = "anonymous"
        PROVE  LET r == rpc[Direct(o)].req
               IN  r.tok = "none" /\ (r.src = "none" \/ r.via \in {"grpc", "http"})
    BY <2>1, <2>2, <2>4, TokensFacts DEF InOK
  <2>5. QED BY <2>1, <2>2, <2>3, <2>4 DEF InOK
<1>4. QED BY <1>1, <1>2, <1>3, InvariantHolds, PTL DEF AppSpec

-----------------------------------------------------------------------------
(* The claims principal: PrincipalOK is kept by each of its operations, and *)
(* through it the principal implements ClaimSet.  The operations are        *)
(* functions of the principal, so each has one lemma: what it preserves and *)
(* what HasClaim answers afterwards.                                        *)

Values(s) == {s[i] : i \in DOMAIN s}

\* removeIndex of a list without duplicates: one shorter, still without
\* duplicates, and only the value at the index is gone (removeIndex).
LEMMA RemoveIndexLemma ==
    ASSUME NEW V, NEW s \in Seq(V), Distinct(s), NEW i \in DOMAIN s
    PROVE  /\ removeIndex(s, i) \in Seq(V)
           /\ Len(removeIndex(s, i)) = Len(s) - 1
           /\ Distinct(removeIndex(s, i))
           /\ Values(removeIndex(s, i)) = Values(s) \ {s[i]}
<1> DEFINE n == Len(s)
           r == removeIndex(s, i)
<1>1. n \in Nat /\ DOMAIN s = 1..n /\ i \in 1..n /\ n - 1 \in Nat /\ n \in DOMAIN s
  OBVIOUS
<1>2. r = [k \in 1..n-1 |-> IF k = i THEN s[n] ELSE s[k]]
  BY DEF removeIndex
<1>3. \A k \in 1..n : s[k] \in V
  BY <1>1
<1>4. r \in [1..n-1 -> V]
  BY <1>1, <1>2, <1>3
<1>5. r \in Seq(V) /\ Len(r) = n - 1 /\ DOMAIN r = 1..n-1
  <2> HIDE DEF n, r
  <2> QED
    BY <1>1, <1>4
<1>6. \A k \in 1..n-1 : r[k] = IF k = i THEN s[n] ELSE s[k]
  BY <1>2
<1>7. Distinct(r)
  BY <1>1, <1>5, <1>6 DEF Distinct
<1>8. ASSUME NEW x \in Values(r) PROVE x \in Values(s) \ {s[i]}
  <2>1. PICK k \in 1..n-1 : x = r[k]
    BY <1>5, <1>8 DEF Values
  <2>2. x = IF k = i THEN s[n] ELSE s[k]
    BY <1>6, <2>1
  <2>3. n # i \/ k # i
    BY <1>1, <2>1
  <2> QED
    BY <1>1, <2>1, <2>2, <2>3 DEF Values, Distinct
<1>9. ASSUME NEW x \in Values(s) \ {s[i]} PROVE x \in Values(r)
  <2>1. PICK k \in 1..n : x = s[k]
    BY <1>1, <1>9 DEF Values
  <2>2. k # i
    BY <2>1, <1>9
  <2>3. CASE k = n
    <3>1. i \in 1..n-1 /\ r[i] = x
      BY <1>1, <1>6, <2>1, <2>2, <2>3
    <3> QED
      BY <3>1, <1>5 DEF Values
  <2>4. CASE k # n
    <3> HIDE DEF n, r
    <3>1. k \in 1..n-1
      BY <1>1, <2>1, <2>4
    <3>2. r[k] = x
      BY <1>6, <2>1, <2>2, <3>1
    <3> QED
      BY <3>1, <3>2, <1>5 DEF Values
  <2> QED
    BY <2>3, <2>4
<1> QED
  BY <1>5, <1>7, <1>8, <1>9

\* The parts of PrincipalOK for one type.
TypeEntryOK(s, S) ==
    /\ s \in Seq(ClaimValues)
    /\ s # <<>>
    /\ Distinct(s)
    /\ S = Values(s)

\* PrincipalOK for a principal given by its two maps (NewIClaimsPrincipal).
LEMMA MakeOK ==
    ASSUME NEW D \in SUBSET (ClaimTypes \ {NoType}), NEW f, NEW g,
           f = [t \in D |-> f[t]], g = [t \in D |-> g[t]],
           \A t \in D : TypeEntryOK(f[t], g[t])
    PROVE  PrincipalOK([claims |-> f, fastMap |-> g])
<1> DEFINE p == [claims |-> f, fastMap |-> g]
<1>1. p.claims = f /\ p.fastMap = g /\ DOMAIN f = D
  OBVIOUS
<1>2. p = [claims |-> p.claims, fastMap |-> p.fastMap]
  BY <1>1
<1>3. \A t \in D : /\ f[t] \in Seq(ClaimValues) /\ f[t] # <<>> /\ Distinct(f[t])
                   /\ g[t] = {f[t][i] : i \in DOMAIN f[t]}
  BY DEF TypeEntryOK, Values
<1> HIDE DEF p
<1> QED
  BY <1>1, <1>2, <1>3 DEF PrincipalOK

\* What PrincipalOK says of the entry of a type a principal has (PrincipalOK).
LEMMA EntryOK ==
    ASSUME NEW p, PrincipalOK(p)
    PROVE  /\ DOMAIN p.claims \subseteq ClaimTypes \ {NoType}
           /\ DOMAIN p.fastMap = DOMAIN p.claims
           /\ p = [claims |-> p.claims, fastMap |-> p.fastMap]
           /\ \A t \in DOMAIN p.claims : TypeEntryOK(p.claims[t], p.fastMap[t])
BY DEF PrincipalOK, TypeEntryOK, Values

\* A principal whose entry of type t is replaced, or added (AddClaim and
\* RemoveClaim with values left).
LEMMA WithOK ==
    ASSUME NEW p, PrincipalOK(p), NEW t \in ClaimTypes \ {NoType},
           NEW s, NEW S, TypeEntryOK(s, S)
    PROVE  PrincipalOK([claims |-> With(p.claims, t, s), fastMap |-> With(p.fastMap, t, S)])
<1> DEFINE D == DOMAIN p.claims \union {t}
           f == With(p.claims, t, s)
           g == With(p.fastMap, t, S)
<1>1. D \in SUBSET (ClaimTypes \ {NoType}) /\ DOMAIN p.fastMap = DOMAIN p.claims
  BY EntryOK
<1>2. f = [u \in D |-> f[u]] /\ g = [u \in D |-> g[u]]
  BY <1>1 DEF With
<1>3. \A u \in D : TypeEntryOK(f[u], g[u])
  BY <1>1, EntryOK DEF With
<1>4. PrincipalOK([claims |-> f, fastMap |-> g])
  <2> HIDE DEF f, g, D
  <2> QED
    BY <1>1, <1>2, <1>3, MakeOK
<1> QED
  BY <1>4

\* A principal without the entry of type t (RemoveClaimType).
LEMMA WithoutOK ==
    ASSUME NEW p, PrincipalOK(p), NEW t
    PROVE  PrincipalOK([claims |-> Without(p.claims, t), fastMap |-> Without(p.fastMap, t)])
<1> DEFINE D == DOMAIN p.claims \ {t}
           f == Without(p.claims, t)
           g == Without(p.fastMap, t)
<1>1. D \in SUBSET (ClaimTypes \ {NoType}) /\ DOMAIN p.fastMap = DOMAIN p.claims
  BY EntryOK
<1>2. f = [u \in D |-> f[u]] /\ g = [u \in D |-> g[u]]
  BY <1>1 DEF Without
<1>3. \A u \in D : TypeEntryOK(f[u], g[u])
  BY <1>1, EntryOK DEF Without
<1>4. PrincipalOK([claims |-> f, fastMap |-> g])
  <2> HIDE DEF f, g, D
  <2> QED
    BY <1>1, <1>2, <1>3, MakeOK
<1> QED
  BY <1>4

\* A new principal holds nothing (NewIClaimsPrincipal).
LEMMA NewLemma ==
    /\ PrincipalOK(NewIClaimsPrincipal)
    /\ \A d \in Claim : ~HasClaim(NewIClaimsPrincipal, d)
<1> DEFINE f == [t \in {} |-> <<>>]
           g == [t \in {} |-> {}]
<1>1. NewIClaimsPrincipal = [claims |-> f, fastMap |-> g]
  BY DEF NewIClaimsPrincipal
<1>2. f = [t \in {} |-> f[t]] /\ g = [t \in {} |-> g[t]] /\ DOMAIN g = {}
  OBVIOUS
<1> HIDE DEF f, g
<1>3. PrincipalOK([claims |-> f, fastMap |-> g])
  BY <1>2, MakeOK
<1> QED
  BY <1>1, <1>2, <1>3 DEF HasClaim

\* AddClaim keeps the principal in order and adds just the claim (AddClaim).
LEMMA AddLemma ==
    ASSUME NEW p, PrincipalOK(p), NEW c \in Claim
    PROVE  /\ PrincipalOK(AddClaim(p, c))
           /\ \A d \in Claim : HasClaim(AddClaim(p, c), d) <=>
                                 HasClaim(p, d) \/ (d = c /\ d.type # NoType)
<1>1. CASE c.type = NoType \/ HasClaim(p, c)
  <2>1. AddClaim(p, c) = p
    BY <1>1 DEF AddClaim
  <2> QED
    BY <1>1, <2>1
<1>2. CASE ~(c.type = NoType \/ HasClaim(p, c))
  <2> DEFINE t == c.type
             s == Append(list(p, t), c.value)
             S == (IF t \in DOMAIN p.fastMap THEN p.fastMap[t] ELSE {}) \union {c.value}
             q == [claims |-> With(p.claims, t, s), fastMap |-> With(p.fastMap, t, S)]
  <2>1. t \in ClaimTypes \ {NoType} /\ c.value \in ClaimValues
    BY <1>2 DEF Claim
  <2>2. AddClaim(p, c) = q
    BY <1>2 DEF AddClaim, addFastMapClaim
  <2>3. DOMAIN p.fastMap = DOMAIN p.claims
    BY EntryOK
  <2>4. TypeEntryOK(s, S)
    <3>1. CASE t \in DOMAIN p.claims
      <4> DEFINE o == p.claims[t]
      <4>1. TypeEntryOK(o, p.fastMap[t]) /\ list(p, t) = o
        BY <3>1, EntryOK DEF list, HasClaimType
      <4>2. c.value \notin Values(o) /\ S = Values(o) \union {c.value}
        BY <1>2, <2>3, <3>1, <4>1 DEF HasClaim, TypeEntryOK
      <4>3. o \in Seq(ClaimValues) /\ Distinct(o)
        BY <4>1 DEF TypeEntryOK
      <4> HIDE DEF o
      <4>4. /\ s \in Seq(ClaimValues) /\ Len(s) = Len(o) + 1 /\ s # <<>>
            /\ DOMAIN s = 1..Len(o)+1 /\ DOMAIN o = 1..Len(o) /\ Len(o) \in Nat
            /\ \A k \in 1..Len(o) : s[k] = o[k]
            /\ s[Len(o) + 1] = c.value
        BY <2>1, <4>1, <4>3
      <4> HIDE DEF s, S
      <4>5. Distinct(s)
        BY <4>2, <4>3, <4>4 DEF Distinct, Values
      <4>6. Values(s) = Values(o) \union {c.value}
        <5>1. ASSUME NEW x \in Values(s) PROVE x \in Values(o) \union {c.value}
          BY <4>4, <5>1 DEF Values
        <5>2. ASSUME NEW x \in Values(o) PROVE x \in Values(s)
          <6>1. PICK k \in 1..Len(o) : x = o[k]
            BY <4>4, <5>2 DEF Values
          <6>2. k \in DOMAIN s /\ s[k] = x
            BY <4>4, <6>1
          <6> QED
            BY <6>2 DEF Values
        <5>3. c.value \in Values(s)
          <6>1. Len(o) + 1 \in DOMAIN s
            BY <4>4
          <6> QED
            BY <4>4, <6>1 DEF Values
        <5> QED
          BY <5>1, <5>2, <5>3
      <4> QED
        BY <4>2, <4>4, <4>5, <4>6 DEF TypeEntryOK
    <3>2. CASE t \notin DOMAIN p.claims
      <4>1. s = <<c.value>> /\ S = {c.value}
        BY <2>3, <3>2 DEF list, HasClaimType
      <4> HIDE DEF s, S
      <4>2. s \in Seq(ClaimValues) /\ s # <<>> /\ DOMAIN s = {1} /\ s[1] = c.value
        BY <2>1, <4>1
      <4> QED
        BY <4>1, <4>2 DEF TypeEntryOK, Distinct, Values
    <3> QED
      BY <3>1, <3>2
  <2>5. PrincipalOK(q)
    <3> HIDE DEF s, S, t
    <3> QED
      BY <2>1, <2>4, WithOK
  <2>6. ASSUME NEW d \in Claim
        PROVE  HasClaim(q, d) <=> HasClaim(p, d) \/ (d = c /\ d.type # NoType)
    <3>1. q.fastMap = With(p.fastMap, t, S)
      OBVIOUS
    <3>2. HasClaim(q, d) <=> IF d.type = t THEN d.value \in S ELSE HasClaim(p, d)
      BY <3>1 DEF HasClaim, With
    <3>3. d.type = t => (d.value \in S <=> HasClaim(p, d) \/ d.value = c.value)
      BY DEF HasClaim
    <3>4. d = c <=> d.type = t /\ d.value = c.value
      BY DEF Claim
    <3> QED
      BY <2>1, <3>2, <3>3, <3>4
  <2> QED
    BY <2>2, <2>5, <2>6
<1> QED
  BY <1>1, <1>2

\* RemoveClaimType keeps the principal in order and removes just the claims of
\* the type (RemoveClaimType).
LEMMA RemoveTypeLemma ==
    ASSUME NEW p, PrincipalOK(p), NEW t \in ClaimTypes
    PROVE  /\ PrincipalOK(RemoveClaimType(p, t))
           /\ \A d \in Claim : HasClaim(RemoveClaimType(p, t), d) <=>
                                 HasClaim(p, d) /\ d.type # t
<1>1. CASE ~HasClaimType(p, t)
  <2>1. RemoveClaimType(p, t) = p
    BY <1>1 DEF RemoveClaimType
  <2>2. t \notin DOMAIN p.fastMap
    BY <1>1, EntryOK DEF HasClaimType
  <2> QED
    BY <2>1, <2>2 DEF HasClaim
<1>2. CASE HasClaimType(p, t)
  <2> DEFINE q == [claims |-> Without(p.claims, t), fastMap |-> Without(p.fastMap, t)]
  <2>1. RemoveClaimType(p, t) = q
    BY <1>2 DEF RemoveClaimType
  <2>2. PrincipalOK(q)
    BY WithoutOK
  <2>3. \A d \in Claim : HasClaim(q, d) <=> HasClaim(p, d) /\ d.type # t
    BY DEF HasClaim, Without
  <2> QED
    BY <2>1, <2>2, <2>3
<1> QED
  BY <1>1, <1>2

\* RemoveClaim keeps the principal in order and removes just the claim
\* (RemoveClaim).
LEMMA RemoveLemma ==
    ASSUME NEW p, PrincipalOK(p), NEW c \in Claim
    PROVE  /\ PrincipalOK(RemoveClaim(p, c))
           /\ \A d \in Claim : HasClaim(RemoveClaim(p, c), d) <=>
                                 HasClaim(p, d) /\ d # c
<1> DEFINE t == c.type
           s == list(p, t)
           found == {i \in DOMAIN s : IsIndex(s, c.value, i)}
           i0 == CHOOSE i \in found : TRUE
           rest == removeIndex(s, i0)
<1>0. \A d \in Claim : d = c <=> d.type = t /\ d.value = c.value
  BY DEF Claim
<1>1. CASE found = {}
  <2>1. RemoveClaim(p, c) = p
    BY <1>1 DEF RemoveClaim
  <2>2. ~HasClaim(p, c)
    <3> SUFFICES ASSUME HasClaim(p, c) PROVE FALSE
      OBVIOUS
    <3>1. t \in DOMAIN p.claims /\ TypeEntryOK(p.claims[t], p.fastMap[t]) /\ c.value \in p.fastMap[t]
      BY EntryOK DEF HasClaim
    <3>2. s = p.claims[t]
      BY <3>1 DEF list, HasClaimType
    <3>3. PICK i \in DOMAIN s : s[i] = c.value
      BY <3>1, <3>2 DEF TypeEntryOK, Values
    <3>4. s \in Seq(ClaimValues) /\ Distinct(s) /\ DOMAIN s = 1..Len(s) /\ Len(s) \in Nat
      BY <3>1, <3>2 DEF TypeEntryOK
    <3>5. \A k \in 1..i-1 : s[k] # c.value
      BY <3>3, <3>4 DEF Distinct
    <3>6. i \in found
      BY <3>3, <3>5 DEF IsIndex
    <3> QED
      BY <1>1, <3>6
  <2> QED
    BY <2>1, <2>2
<1>2. CASE found # {}
  <2>1. i0 \in DOMAIN s /\ s[i0] = c.value
    BY <1>2 DEF IsIndex
  <2>2. t \in DOMAIN p.claims /\ s = p.claims[t]
    BY <2>1 DEF list, HasClaimType
  <2>3. TypeEntryOK(s, p.fastMap[t]) /\ t \in ClaimTypes \ {NoType} /\ t \in DOMAIN p.fastMap
    BY <2>2, EntryOK
  <2>4. s \in Seq(ClaimValues) /\ Distinct(s) /\ p.fastMap[t] = Values(s)
    BY <2>3 DEF TypeEntryOK
  <2> HIDE DEF s, i0
  <2>5. /\ rest \in Seq(ClaimValues)
        /\ Distinct(rest)
        /\ Values(rest) = Values(s) \ {c.value}
    BY <2>1, <2>4, RemoveIndexLemma
  <2>6. CASE Len(rest) = 0
    <3> DEFINE q == [claims |-> Without(p.claims, t), fastMap |-> Without(p.fastMap, t)]
    <3>1. RemoveClaim(p, c) = q
      BY <1>2, <2>6 DEF RemoveClaim, s, i0
    <3>2. PrincipalOK(q)
      BY WithoutOK
    <3>3. \A d \in Claim : HasClaim(q, d) <=> HasClaim(p, d) /\ d.type # t
      BY DEF HasClaim, Without
    <3>4. Values(rest) = {}
      <4> HIDE DEF rest
      <4>1. DOMAIN rest = {}
        BY <2>5, <2>6
      <4> QED
        BY <4>1 DEF Values
    <3>5. \A d \in Claim : HasClaim(p, d) /\ d.type = t => d.value = c.value
      BY <2>4, <2>5, <3>4 DEF HasClaim
    <3> QED
      BY <1>0, <3>1, <3>2, <3>3, <3>5
  <2>7. CASE Len(rest) # 0
    <3> DEFINE S == p.fastMap[t] \ {c.value}
               q == [claims |-> With(p.claims, t, rest), fastMap |-> With(p.fastMap, t, S)]
    <3>1. RemoveClaim(p, c) = q
      BY <1>2, <2>7 DEF RemoveClaim, s, i0
    <3>2. TypeEntryOK(rest, S)
      <4> HIDE DEF rest
      <4>1. rest # <<>>
        BY <2>7
      <4> QED
        BY <2>4, <2>5, <4>1 DEF TypeEntryOK
    <3>3. PrincipalOK(q)
      <4> HIDE DEF rest, S, t
      <4> QED
        BY <2>3, <3>2, WithOK
    <3>4. q.fastMap = With(p.fastMap, t, S)
      OBVIOUS
    <3>5. \A d \in Claim : HasClaim(q, d) <=>
             IF d.type = t THEN d.value \in S ELSE HasClaim(p, d)
      BY <3>4 DEF HasClaim, With
    <3>6. \A d \in Claim : d.type = t => (d.value \in S <=> HasClaim(p, d) /\ d.value # c.value)
      BY <2>3 DEF HasClaim
    <3> HIDE DEF S, q, rest
    <3> QED
      BY <1>0, <3>1, <3>3, <3>5, <3>6
  <2> QED
    BY <2>6, <2>7
<1> QED
  BY <1>1, <1>2

\* After any sequence of operations the lists and fastMap agree
\* (claimsPrincipal).
THEOREM PrincipalInvariant == Spec => []PrincipalInv
<1>1. Init => PrincipalInv
  BY NewLemma DEF Init, PrincipalInv
<1>2. PrincipalInv /\ [Next]_principal => PrincipalInv'
  <2> SUFFICES ASSUME PrincipalInv, [Next]_principal PROVE PrincipalInv'
    OBVIOUS
  <2> USE DEF PrincipalInv
  <2>1. ASSUME NEW c \in Claim, principal' = AddClaim(principal, c) PROVE PrincipalInv'
    BY <2>1, AddLemma
  <2>2. ASSUME NEW c \in Claim, principal' = RemoveClaim(principal, c) PROVE PrincipalInv'
    BY <2>2, RemoveLemma
  <2>3. ASSUME NEW t \in ClaimTypes, principal' = RemoveClaimType(principal, t)
        PROVE  PrincipalInv'
    BY <2>3, RemoveTypeLemma
  <2>4. CASE Renew
    BY <2>4, NewLemma DEF Renew
  <2>5. CASE UNCHANGED principal
    BY <2>5
  <2> QED
    BY <2>1, <2>2, <2>3, <2>4, <2>5 DEF Next, Change
<1> QED
  BY <1>1, <1>2, PTL DEF Spec

\* Through HasClaim every step of the principal is a step of a set of claims
\* (IClaimsPrincipal).
THEOREM ImplementsClaimSet == Spec => IsAClaimSet
<1>1. Init => Abstract!Init
  BY NewLemma DEF Init, Held, Abstract!Init
<1>2. PrincipalInv /\ [Next]_principal => [Abstract!Next]_Held
  <2> SUFFICES ASSUME PrincipalInv, [Next]_principal PROVE [Abstract!Next]_Held
    OBVIOUS
  <2>0. Abstract!Claim = Claim
    BY DEF Abstract!Claim, Claim
  <2>1. ASSUME NEW c \in Claim, principal' = AddClaim(principal, c) PROVE Abstract!Next
    <3>1. Held' = Held \union {d \in {c} : d.type # NoType}
      BY <2>1, AddLemma DEF Held, PrincipalInv
    <3>2. Abstract!AddClaim(c)
      BY <3>1 DEF Abstract!AddClaim
    <3> QED
      BY <2>0, <3>2 DEF Abstract!Next
  <2>2. ASSUME NEW c \in Claim, principal' = RemoveClaim(principal, c) PROVE Abstract!Next
    <3>1. Held' = Held \ {c}
      BY <2>2, RemoveLemma DEF Held, PrincipalInv
    <3>2. Abstract!RemoveClaim(c)
      BY <3>1 DEF Abstract!RemoveClaim
    <3> QED
      BY <2>0, <3>2 DEF Abstract!Next
  <2>3. ASSUME NEW t \in ClaimTypes, principal' = RemoveClaimType(principal, t)
        PROVE  Abstract!Next
    <3>1. Held' = {c \in Held : c.type # t}
      BY <2>3, RemoveTypeLemma DEF Held, PrincipalInv
    <3>2. Abstract!RemoveClaimType(t)
      BY <3>1 DEF Abstract!RemoveClaimType
    <3> QED
      BY <3>2 DEF Abstract!Next
  <2>4. CASE Renew
    <3>1. Held' = {}
      BY <2>4, NewLemma DEF Renew, Held
    <3>2. Abstract!Renew
      BY <3>1 DEF Abstract!Renew
    <3> QED
      BY <3>2 DEF Abstract!Next
  <2>5. CASE UNCHANGED principal
    BY <2>5 DEF Held
  <2> QED
    BY <2>1, <2>2, <2>3, <2>4, <2>5 DEF Next, Change
<1>3. Spec => []PrincipalInv
  BY PrincipalInvariant
<1> HIDE DEF Next, Init, Held, PrincipalInv
<1> QED
  BY <1>1, <1>2, <1>3, PTL DEF Spec, IsAClaimSet, Abstract!Spec

=============================================================================
