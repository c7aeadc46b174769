----------------------------- MODULE NatsBridge -----------------------------
(***************************************************************************)
(* What the NATS bridge does to one message: subject templates filled in   *)
(* by the client and taken apart by the service, and a gRPC status carried *)
(* in the headers of a reply.                                              *)
(*                                                                         *)
(* Strings are sequences of pieces: words, the characters that matter, and *)
(* in a template placeholders like "${orgId}"; <<>> is the empty string.   *)
(***************************************************************************)
EXTENDS Integers, Sequences, SequencesExt, FiniteSets

Placeholders == {"${orgId}"}
Signs == {".", "-", "{", "}"}

\* The subject template of a method's rule, below its group.
methodGreeterHandlerRuleMap ==
    [SayHello |-> <<"SayHello", ".", "org", ".", "${orgId}">>,
     SayHelloAuth |-> <<"SayHelloAuth">>,
     SayHelloDownstream |-> <<"SayHelloDownstream">>,
     SetSecret |-> <<"SetSecret">>,
     GetSecret |-> <<"GetSecret">>]

\* What the endpoints' group option and the clients' subjects are generated with.
GroupName == <<"roger", ".", "helloworld", ".", "Greeter">>

ParameterizedToken(method) == GroupName \o <<".">> \o methodGreeterHandlerRuleMap[method]

isParameterToken(p) == p \in Placeholders

\* validateSubjectToken: one token must stay one token.
validateSubjectToken(value) ==
    value # <<>> /\ ToSet(value) \intersect {".", "*", ">", " "} = {}

\* ReplaceTokens.  protojson leaves out an empty field and jsonpath does not
\* find it, which is an error without a status, before the token is validated.
ReplaceTokens(template, org) ==
    LET fills == \E i \in DOMAIN template : isParameterToken(template[i])
        fill(p) == IF isParameterToken(p) THEN org ELSE <<p>>
    IN  [code |-> CASE fills /\ org = <<>> -> "Unknown"
                    [] fills /\ org # <<>> /\ ~validateSubjectToken(org) -> "InvalidArgument"
                    [] OTHER -> "OK",
         subject |-> FlattenSeq([i \in DOMAIN template |-> fill(template[i])])]

\* parseTokens: the words and the placeholders, whatever stands between them.
parseTokens(template) == SelectSeq(template, LAMBDA p : p \notin Signs)

\* tokenizeRouteWithNesting: what stands between two dots outside of braces.
tokenizeRouteWithNesting(route) ==
    LET before(i, p) == Cardinality({j \in 1 .. i - 1 : route[j] = p})
        cuts == {i \in DOMAIN route : route[i] = "." /\ before(i, "{") = before(i, "}")}
        starts == {i \in DOMAIN route \ cuts : i = 1 \/ i - 1 \in cuts}
        end(i) == CHOOSE j \in i .. Len(route) : (i .. j) \intersect cuts = {}
                                                  /\ (j = Len(route) \/ j + 1 \in cuts)
        start(n) == CHOOSE i \in starts : Cardinality({j \in starts : j < i}) = n - 1
    IN  [n \in 1 .. Cardinality(starts) |-> SubSeq(route, start(n), end(start(n)))]

\* ExtractRouteParams: the value of each placeholder, or no match.
ExtractRouteParams(route, template) ==
    LET tokens == parseTokens(template)
        got == tokenizeRouteWithNesting(route)
        ok == /\ Len(tokens) = Len(got)
              /\ \A i \in DOMAIN tokens : isParameterToken(tokens[i]) \/ got[i] = <<tokens[i]>>
    IN  [ok |-> ok,
         params |-> {got[i] : i \in {j \in DOMAIN tokens : ok /\ isParameterToken(tokens[j])}}]

\* InjectParameterizedRoutesIntoProtoMessage: the subject's value replaces the
\* body's, which must be there.
InjectParameterizedRoutesIntoProtoMessage(route, template, org) ==
    LET r == ExtractRouteParams(route, template)
    IN  [ok |-> r.ok /\ (r.params # {} => org # <<>>),
         org |-> IF r.params = {} THEN org ELSE CHOOSE v \in r.params : TRUE]

-----------------------------------------------------------------------------
\* A gRPC status.  The codes 1 to 16 by name; an application may use others.
Status(code, message) == [code |-> code, message |-> message]
OK == Status("OK", <<>>)

Canonical == {"Canceled", "Unknown", "InvalidArgument", "DeadlineExceeded", "NotFound",
              "AlreadyExists", "PermissionDenied", "ResourceExhausted",
              "FailedPrecondition", "Aborted", "OutOfRange", "Unimplemented", "Internal",
              "Unavailable", "DataLoss", "Unauthenticated"}

grpcToServiceCode(c) ==
    CASE c \in {"InvalidArgument", "OutOfRange"} -> "400"
      [] c = "Unauthenticated" -> "401"
      [] c = "PermissionDenied" -> "403"
      [] c = "NotFound" -> "404"
      [] c \in {"AlreadyExists", "Aborted"} -> "409"
      [] c = "FailedPrecondition" -> "412"
      [] c = "ResourceExhausted" -> "429"
      [] c = "Canceled" -> "499"
      [] c = "Unimplemented" -> "501"
      [] c = "Unavailable" -> "503"
      [] c = "DeadlineExceeded" -> "504"
      [] OTHER -> "500"

serviceCodeToGRPC(code) ==
    CASE code = "400" -> "InvalidArgument"
      [] code = "401" -> "Unauthenticated"
      [] code = "403" -> "PermissionDenied"
      [] code = "404" -> "NotFound"
      [] code = "409" -> "AlreadyExists"
      [] code = "412" -> "FailedPrecondition"
      [] code = "429" -> "ResourceExhausted"
      [] code = "499" -> "Canceled"
      [] code = "501" -> "Unimplemented"
      [] code = "503" -> "Unavailable"
      [] code \in {"504", "408"} -> "DeadlineExceeded"
      [] OTHER -> "Internal"

headerSafe(s) == [i \in DOMAIN s |-> IF s[i] \in {"\r", "\n"} THEN " " ELSE s[i]]

\* A reply on the wire: its headers ("" and <<>> when absent), and whether it
\* was sent at all.
Respond == [sent |-> TRUE, serviceCode |-> "", grpcCode |-> "", message |-> <<>>]

\* micro's Request.Error refuses an empty description and sends nothing.
RequestError(code, description, grpcCode) ==
    [sent |-> description # <<>>, serviceCode |-> code, grpcCode |-> grpcCode,
     message |-> description]

\* Mutant: an error without a message stays without one.
respondErrorBare(status) ==
    RequestError(grpcToServiceCode(status.code), headerSafe(status.message), status.code)

respondError(status) ==
    LET message == IF status.message = <<>> THEN <<status.code>> ELSE status.message
    IN  RequestError(grpcToServiceCode(status.code), headerSafe(message), status.code)

\* Mutant: the service code alone.
statusFromNATSResponseCode(reply) ==
    IF reply.serviceCode = "" THEN OK
    ELSE Status(serviceCodeToGRPC(reply.serviceCode), reply.message)

statusFromNATSResponse(reply) ==
    IF reply.serviceCode = "" /\ reply.grpcCode = "" /\ reply.message = <<>> THEN OK
    ELSE Status(IF reply.grpcCode \in Canonical THEN reply.grpcCode
                ELSE serviceCodeToGRPC(reply.serviceCode), reply.message)

statusFromTransportError(err) ==
    Status(IF err \in {"ErrNoResponders", "ErrConnectionClosed", "ErrDisconnected"} THEN "Unavailable"
           ELSE IF err \in {"DeadlineExceeded", "ErrTimeout"} THEN "DeadlineExceeded"
           ELSE IF err = "Canceled" THEN "Canceled"
           ELSE "Unknown", <<err>>)

-----------------------------------------------------------------------------
\* createNATSRequestHeaders: the metadata's "authorization" and the token
\* source's "Authorization" are two headers.
createNATSRequestHeaders(tok, src) ==
    (IF tok = "none" THEN {} ELSE {<<"authorization", tok>>})
        \union (IF src = "none" THEN {} ELSE {<<"Authorization", src>>})

\* Mutant: the headers stay behind.
ConvertToStringMapNone(headers) == {"none"}

\* ConvertToStringMap, metadata.New: the two become one key's values, in the
\* order the map is walked; the server reads the first.
ConvertToStringMap(headers) == IF headers = {} THEN {"none"} ELSE {h[2] : h \in headers}

=============================================================================
