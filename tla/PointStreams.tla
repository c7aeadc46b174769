---------------------------- MODULE PointStreams ----------------------------
(***************************************************************************)
(* MyStreamService: points streamed up and counted, points streamed down,  *)
(* by a gRPC client or through the HTTP gateway, whose handler cancels its *)
(* call when it returns.  The transport holds a few messages; a caller may *)
(* go away at any moment, and a handler notices at its next Recv or Send.  *)
(***************************************************************************)
EXTENDS Naturals, FiniteSets

CONSTANTS Streamers,     \* programs that stream
          MaxPoints,     \* points of one request or upload
          PerPoint,      \* points sent back for each one asked for (10 in the code)
          Window         \* messages the transport holds

ASSUME StreamAssumption == {MaxPoints, PerPoint, Window} \subseteq Nat \ {0}

VARIABLE strm            \* per streamer: both sides of its call
streamVars == <<strm>>

NoStream == [client |-> "idle", server |-> "none", scope |-> FALSE]

StreamInit == strm = [c \in Streamers |-> NoStream]

\* body: how many points can be decoded before the end or before a bad one.
Bodies == [points : 0 .. MaxPoints, bad : BOOLEAN]

\* NewStream; the handler starts when the runtime gets to it.
Open(c, method, via, body) ==
    strm' = [strm EXCEPT ![c] =
               [method |-> method, via |-> via, body |-> body, client |-> "open", server |-> "called",
                scope |-> FALSE, sent |-> 0, wire |-> 0, eof |-> FALSE, count |-> 0, status |-> "none"]]

\* The request of a download is decoded before there is a call.
request_MyStreamService_RequestPoints(c) ==
    \E via \in {"grpc", "http"}, body \in Bodies :
      /\ strm[c] = NoStream /\ (via = "grpc" => ~body.bad)
      /\ IF body.bad THEN strm' = [strm EXCEPT ![c].client = "refused"]
         ELSE Open(c, "RequestPoints", via, body)

request_MyStreamService_StreamPoints(c) ==
    \E via \in {"grpc", "http"}, body \in Bodies :
      /\ strm[c] = NoStream /\ (via = "grpc" => ~body.bad)
      /\ Open(c, "StreamPoints", via, body)

Up(c) == strm[c] # NoStream /\ strm[c].client # "refused" /\ strm[c].method = "StreamPoints"
Down(c) == strm[c] # NoStream /\ strm[c].client # "refused" /\ strm[c].method = "RequestPoints"

\* The uploading loop: the next point, the end, or a point that cannot be
\* decoded; a Send to a handler that is through only ends the loop.
SendPoint(c) ==
    LET s == strm[c]
    IN  /\ Up(c) /\ s.client = "open"
        /\ \/ /\ s.server = "over"
              /\ strm' = [strm EXCEPT ![c].client = "receiving"]
           \/ /\ s.sent < s.body.points /\ s.wire < Window
              /\ strm' = [strm EXCEPT ![c].sent = @ + 1, ![c].wire = @ + 1]
           \/ /\ s.sent = s.body.points /\ ~s.body.bad
              /\ strm' = [strm EXCEPT ![c].client = "receiving", ![c].eof = TRUE]
           \/ /\ s.sent = s.body.points /\ s.body.bad
              /\ strm' = [strm EXCEPT ![c].client = "gone"]

\* scope, interceptors, the scoped service, as for a unary call.
ScopedContextStreamServerInterceptor(c) ==
    /\ strm[c].server = "called" /\ strm[c].client # "gone"
    /\ strm' = [strm EXCEPT ![c].server = "in", ![c].scope = TRUE]

\* The handler returns: the scope goes, the status travels after the messages.
End(c, status) == [strm EXCEPT ![c].server = "over", ![c].scope = FALSE, ![c].status = status]

Cancelled(c) == strm[c].client = "gone"

\* StreamPoints: count until the end, then the summary.  Of a cancelled call,
\* Recv may still hand out what has arrived.
StreamPoints(c) ==
    LET s == strm[c]
    IN  /\ Up(c) /\ s.server = "in"
        /\ \/ Cancelled(c) /\ strm' = End(c, "Canceled")
           \/ s.wire > 0 /\ strm' = [strm EXCEPT ![c].wire = @ - 1, ![c].count = @ + 1]
           \/ s.wire = 0 /\ s.eof /\ strm' = End(c, "OK")

\* Mutant: a Send that failed is tried again.
RequestPointsRetries(c) ==
    LET s == strm[c]
    IN  /\ Down(c) /\ s.server = "in"
        /\ \/ s.sent = PerPoint * s.body.points /\ strm' = End(c, "OK")
           \/ /\ s.sent < PerPoint * s.body.points /\ ~Cancelled(c) /\ s.wire < Window
              /\ strm' = [strm EXCEPT ![c].sent = @ + 1, ![c].wire = @ + 1]
           \/ s.sent < PerPoint * s.body.points /\ Cancelled(c) /\ UNCHANGED strm

\* RequestPoints: so many for each point, while there is somebody to send to.
RequestPoints(c) ==
    LET s == strm[c]
    IN  /\ Down(c) /\ s.server = "in"
        /\ \/ s.sent = PerPoint * s.body.points /\ strm' = End(c, "OK")
           \/ /\ s.sent < PerPoint * s.body.points /\ ~Cancelled(c) /\ s.wire < Window
              /\ strm' = [strm EXCEPT ![c].sent = @ + 1, ![c].wire = @ + 1]
           \/ s.sent < PerPoint * s.body.points /\ Cancelled(c) /\ strm' = End(c, "Canceled")

\* A call that was given up before its handler started.
NeverServed(c) ==
    /\ strm[c].server = "called" /\ Cancelled(c)
    /\ strm' = End(c, "Canceled")

\* The caller's side: the next point of a download, then the status; or the summary.
Receive(c) ==
    LET s == strm[c]
    IN  \/ Down(c) /\ s.client = "open" /\ s.wire > 0
             /\ strm' = [strm EXCEPT ![c].wire = @ - 1, ![c].count = @ + 1]
        \/ Down(c) /\ s.client = "open" /\ s.wire = 0 /\ s.server = "over"
             /\ strm' = [strm EXCEPT ![c].client = "done"]
        \/ Up(c) /\ s.client = "receiving" /\ s.server = "over"
             /\ strm' = [strm EXCEPT ![c].client = "done"]

\* The caller, or the HTTP client behind the gateway, goes away.
GoAway(c) ==
    /\ strm[c].client \in {"open", "receiving"}
    /\ strm' = [strm EXCEPT ![c].client = "gone"]

\* A caller that is through may stream again once its handler is.
Again(c) ==
    /\ strm[c].client \in {"done", "gone", "refused"} /\ strm[c].server \in {"over", "none"}
    /\ strm' = [strm EXCEPT ![c] = NoStream]

StreamServes(c) ==
    \/ SendPoint(c) \/ ScopedContextStreamServerInterceptor(c) \/ StreamPoints(c)
    \/ RequestPoints(c) \/ NeverServed(c) \/ Receive(c)

StreamNext ==
    \E c \in Streamers :
      \/ request_MyStreamService_RequestPoints(c) \/ request_MyStreamService_StreamPoints(c)
      \/ StreamServes(c) \/ GoAway(c) \/ Again(c)

StreamSpec ==
    /\ StreamInit /\ [][StreamNext]_streamVars
    /\ \A c \in Streamers : WF_streamVars(StreamServes(c))

\* A handler ends although its caller is gone, and its scope with it.
ScopesEnd == \A c \in Streamers : strm[c].scope ~> ~strm[c].scope
=============================================================================
