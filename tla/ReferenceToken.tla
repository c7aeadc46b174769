--------------------------- MODULE ReferenceToken ---------------------------
(***************************************************************************)
(* middleware/auth/referencetoken in front of middleware/auth/jwt: a       *)
(* request that carries an opaque reference token has it resolved, once    *)
(* per TTL, to a JWT (which the JWT interceptor then validates) or to      *)
(* claims, and what the token contributed is cached for later requests.    *)
(*                                                                         *)
(* Requests run concurrently; the clock moves while resolvers, validators  *)
(* and handlers run.  A principal is a set of claims.                      *)
(***************************************************************************)
EXTENDS Naturals

CONSTANTS
    Requests,            \* connections; each makes one request after another
    Tokens,              \* what may stand behind "Bearer"
    JwtTokens,           \* those that resolve to a JWT; others resolve to claims
    Dotted,              \* those with two dots: JWTs themselves
    Prefixed,            \* those with one of Config.KnownPrefixes
    NumResolvers,        \* resolvers, in the order of their registration
    DefaultTTL,          \* Config.DefaultTTL
    ResolvedTTLs,        \* the TTLs a resolver may give
    Skew,                \* the JWT validator's acceptable skew
    AnonymousOnFailure,  \* the JWT interceptor's option
    RefMaxTime,             \* bound: the clock stops here
    NoToken

ASSUME RefAssumption ==
    /\ JwtTokens \subseteq Tokens /\ Dotted \subseteq Tokens /\ Prefixed \subseteq Tokens
    /\ NumResolvers \in Nat /\ ResolvedTTLs \subseteq Nat
    /\ DefaultTTL \in Nat \ {0} /\ Skew \in Nat /\ RefMaxTime \in Nat
    /\ AnonymousOnFailure \in BOOLEAN
    /\ NoToken \notin Tokens

VARIABLES
    refClock,
    refConfig,      \* Config: whether there is a cache, and whether known prefixes
    exp,         \* expiry of the JWT each token is or resolves to
    jwksUp,      \* the JWT validator can get its keys
    refCache,       \* per token an entry, or NoToken
    stage, token, stream, principal, jwtExp, outcome,  \* per request
    authorization,   \* per request: the header as whoever comes next sees it
    tried            \* per request: resolvers that were asked

reqVars == <<stage, token, stream, principal, jwtExp, outcome, authorization, tried>>
refVars == <<refClock, refConfig, exp, jwksUp, refCache, reqVars>>

Claim(kind, of) == [kind |-> kind, of |-> of]
Anonymous == Claim("sub", NoToken)

\* The authorization header: none, the token that came, or the JWT it was
\* rewritten to.
NoHeader == <<>>
Bearer(t) == <<"bearer", t>>
ResolvedJwt(t) == <<"jwt", t>>

\* What a token contributes, and what a principal holds before the middleware
\* runs: the connection's mtls_* claims and whatever ran earlier added.
TokenClaims(t) == {Claim("token", t)}
Ambient(r) == {Claim("mtls", r), Claim("ambient", r)}

WithoutReservedMTLSClaims(cs) == {c \in cs : c.kind # "mtls"}
ClaimsAddedSince(before, after) == after \ before

\* resolveOutcome, with what capture and cacheResolvedClaims need of it.
NoOutcome == [cacheable |-> FALSE, ttl |-> 0, before |-> {}, captured |-> {},
              resolvedAt |-> 0]

RefInit ==
    /\ refClock = 0
    /\ refConfig \in [cache : BOOLEAN, knownPrefixes : BOOLEAN]
    /\ exp \in [JwtTokens \union Dotted -> 0..RefMaxTime]
    /\ jwksUp = TRUE
    /\ refCache = [t \in Tokens |-> NoToken]
    /\ stage = [r \in Requests |-> "idle"]
    /\ token = [r \in Requests |-> NoToken]
    /\ stream = [r \in Requests |-> FALSE]
    /\ principal = [r \in Requests |-> {}]
    /\ jwtExp = [r \in Requests |-> 0]
    /\ outcome = [r \in Requests |-> NoOutcome]
    /\ authorization = [r \in Requests |-> NoHeader]
    /\ tried = [r \in Requests |-> 0]

RefTick ==
    /\ refClock < RefMaxTime
    /\ refClock' = refClock + 1
    /\ UNCHANGED <<refConfig, exp, jwksUp, refCache, reqVars>>

\* The keys become unreachable, or reachable again (JwksRefreshGate).
JwksToggle ==
    /\ jwksUp' = ~jwksUp
    /\ UNCHANGED <<refClock, refConfig, exp, refCache, reqVars>>

-----------------------------------------------------------------------------
AtStage(r, step) == stage' = [stage EXCEPT ![r] = step]

\* The request ends and its scope, with the principal, is disposed of.
Ended(r) ==
    /\ AtStage(r, "idle")
    /\ token' = [token EXCEPT ![r] = NoToken]
    /\ stream' = [stream EXCEPT ![r] = FALSE]
    /\ principal' = [principal EXCEPT ![r] = {}]
    /\ jwtExp' = [jwtExp EXCEPT ![r] = 0]
    /\ outcome' = [outcome EXCEPT ![r] = NoOutcome]
    /\ authorization' = [authorization EXCEPT ![r] = NoHeader]
    /\ tried' = [tried EXCEPT ![r] = 0]

\* Two dots; only asked when there are no known prefixes.
looksLikeJWT(t) == t \in Dotted
isReferenceToken(t) == IF refConfig.knownPrefixes THEN t \in Prefixed ELSE ~looksLikeJWT(t)

\* A reference token is to be resolved; anything else, no header too, goes to
\* the JWT interceptor as it came.
extractBearerToken(header, t) ==
    IF header # NoHeader /\ isReferenceToken(t) THEN "resolve" ELSE "validate"

\* A request arrives, in a scope of its own.
Arrive(r, header, t, s) ==
    /\ stage[r] = "idle"
    /\ AtStage(r, extractBearerToken(header, t))
    /\ token' = [token EXCEPT ![r] = t]
    /\ authorization' = [authorization EXCEPT ![r] = header]
    /\ stream' = [stream EXCEPT ![r] = s]
    /\ principal' = [principal EXCEPT ![r] = Ambient(r)]
    /\ jwtExp' = [jwtExp EXCEPT ![r] = IF t \in Dotted THEN exp[t] ELSE 0]
    /\ UNCHANGED <<refClock, refConfig, exp, jwksUp, refCache, outcome, tried>>

\* "invalid authorization header": not a scheme and a token, or not "Bearer".
Refuse(r) == stage[r] = "idle" /\ UNCHANGED refVars

\* Nothing downstream sees the reference token.
stripAuthorization(r) == authorization' = [authorization EXCEPT ![r] = NoHeader]
rewriteAuthorizationToJWT(r) == authorization' = [authorization EXCEPT ![r] = ResolvedJwt(token[r])]

\* Absolute TTLs: an entry is there until its time, however often it is read.
LiveEntry(t) == refCache[t] # NoToken /\ refClock <= refCache[t].expires

\* resolve, on a cache hit: no resolver, no JWT validation.
CacheHit(r) ==
    /\ stage[r] = "resolve" /\ tried[r] = 0
    /\ LiveEntry(token[r])
    /\ stripAuthorization(r)
    /\ principal' = [principal EXCEPT ![r] =
                       @ \union WithoutReservedMTLSClaims(refCache[token[r]].claims)]
    /\ AtStage(r, "handler")
    /\ UNCHANGED <<refClock, refConfig, exp, jwksUp, refCache, token, stream, jwtExp, outcome, tried>>

\* The cache has nothing for the token, then or when the resolvers were first
\* asked; the clock moves while they work.
Missed(r) == tried[r] > 0 \/ ~LiveEntry(token[r])

\* resolveViaResolvers: a resolver does not handle the token and the next one
\* is asked.
Declined(r) ==
    /\ stage[r] = "resolve" /\ Missed(r) /\ tried[r] < NumResolvers
    /\ tried' = [tried EXCEPT ![r] = @ + 1]
    /\ UNCHANGED <<refClock, refConfig, exp, jwksUp, refCache, stage, token, stream, principal, jwtExp, outcome, authorization>>

\* A resolver fails, or none of them handles the token.
Unresolved(r) ==
    /\ stage[r] = "resolve" /\ Missed(r)
    /\ Ended(r)
    /\ UNCHANGED <<refClock, refConfig, exp, jwksUp, refCache>>

\* cacheResolvedClaims, SetWithTTL.
Stored(t, claims, ttl, resolvedAt, e) ==
    refCache' = IF ~refConfig.cache THEN refCache
                ELSE [refCache EXCEPT ![t] =
                        [claims |-> claims, expires |-> refClock + ttl, jwt |-> e,
                         slack |-> refClock - resolvedAt]]

\* A TTL of 0 stands for the configured one.
TTLOf(ttl) == IF ttl = 0 THEN DefaultTTL ELSE ttl

\* resolve, ResolvedKindClaimsPrincipal.
ResolveClaims(r, ttl) ==
    /\ stage[r] = "resolve" /\ Missed(r) /\ tried[r] < NumResolvers
    /\ token[r] \notin JwtTokens
    /\ stripAuthorization(r)
    /\ principal' = [principal EXCEPT ![r] = @ \union TokenClaims(token[r])]
    /\ Stored(token[r], TokenClaims(token[r]), TTLOf(ttl), refClock, NoToken)
    /\ AtStage(r, "handler")
    /\ UNCHANGED <<refClock, refConfig, exp, jwksUp, token, stream, jwtExp, outcome, tried>>

\* Mutant of capTTLToJWTExpiry: the TTL of the configuration is used as it is.
capTTLIgnoresExpiry(ttl, e) == ttl

capTTLToJWTExpiry(ttl, e) == IF e - refClock < ttl THEN e - refClock ELSE ttl

\* resolve, ResolvedKindJWT: an expired JWT is never cached.
ResolveJwt(r, ttl) ==
    /\ stage[r] = "resolve" /\ Missed(r) /\ tried[r] < NumResolvers
    /\ token[r] \in JwtTokens
    /\ rewriteAuthorizationToJWT(r)
    /\ jwtExp' = [jwtExp EXCEPT ![r] = exp[token[r]]]
    /\ outcome' = [outcome EXCEPT ![r] =
          [cacheable |-> exp[token[r]] > refClock,
           ttl |-> IF exp[token[r]] > refClock
                     THEN capTTLToJWTExpiry(TTLOf(ttl), exp[token[r]]) ELSE 0,
           before |-> principal[r], captured |-> {}, resolvedAt |-> refClock]]
    /\ AtStage(r, "validate")
    /\ UNCHANGED <<refClock, refConfig, exp, jwksUp, refCache, token, stream, principal, tried>>

\* Mutant of claimsToCache: everything on the principal.
claimsToCacheAll(out, captured) == WithoutReservedMTLSClaims(captured)

claimsToCache(out, captured) ==
    WithoutReservedMTLSClaims(ClaimsAddedSince(out.before, captured))

\* The JWT interceptor calls the wrapped handler: the capture, and for a
\* stream the cache write, before the handler runs.
HandOff(r, claims) ==
    LET p == principal[r] \union claims
        out == [outcome[r] EXCEPT !.captured = p]
    IN  /\ principal' = [principal EXCEPT ![r] = p]
        /\ outcome' = [outcome EXCEPT ![r] = out]
        /\ IF stream[r] /\ out.cacheable /\ claimsToCache(out, p) # {}
             THEN Stored(token[r], claimsToCache(out, p), out.ttl, out.resolvedAt, jwtExp[r])
             ELSE UNCHANGED refCache
        /\ AtStage(r, "handler")

\* The header names a JWT that is good now.
IsJwt(h) == h # NoHeader /\ (h[1] = "jwt" \/ h[2] \in Dotted)
jwtValid(r) == jwksUp /\ IsJwt(authorization[r]) /\ refClock <= jwtExp[r] + Skew

\* The JWT interceptor accepts the resolved JWT.
Validated(r) ==
    /\ stage[r] = "validate"
    /\ jwtValid(r)
    /\ HandOff(r, TokenClaims(token[r]))
    /\ UNCHANGED <<refClock, refConfig, exp, jwksUp, token, stream, jwtExp, authorization, tried>>

\* It does not: the request fails, or goes on as anonymous, as it does without
\* a token.
NotValidated(r) ==
    /\ stage[r] = "validate"
    /\ ~jwtValid(r)
    /\ IF AnonymousOnFailure \/ authorization[r] = NoHeader
         THEN HandOff(r, {Anonymous}) /\ UNCHANGED <<token, stream, jwtExp, authorization, tried>>
         ELSE Ended(r) /\ UNCHANGED refCache
    /\ UNCHANGED <<refClock, refConfig, exp, jwksUp>>

\* The handler returns; a unary request caches now.
Finish(r) ==
    /\ stage[r] = "handler"
    /\ LET out == outcome[r]
       IN  IF ~stream[r] /\ out.cacheable /\ claimsToCache(out, out.captured) # {}
             THEN Stored(token[r], claimsToCache(out, out.captured), out.ttl,
                         out.resolvedAt, jwtExp[r])
             ELSE UNCHANGED refCache
    /\ Ended(r)
    /\ UNCHANGED <<refClock, refConfig, exp, jwksUp>>

Request(r) ==
    \/ \E s \in BOOLEAN :
         Arrive(r, NoHeader, NoToken, s) \/ \E t \in Tokens : Arrive(r, Bearer(t), t, s)
    \/ Refuse(r)
    \/ CacheHit(r)
    \/ Declined(r)
    \/ Unresolved(r)
    \/ \E ttl \in ResolvedTTLs : ResolveClaims(r, ttl) \/ ResolveJwt(r, ttl)
    \/ Validated(r)
    \/ NotValidated(r)
    \/ Finish(r)

RefNext == RefTick \/ JwksToggle \/ \E r \in Requests : Request(r)

RefSpec == RefInit /\ [][RefNext]_refVars

-----------------------------------------------------------------------------
\* The cache gives a token's later requests what the token contributed and
\* nothing else: not the claims of the connection that resolved it
\* (claimsBefore, jwtClaimsCapture, claimsToCache), and not an anonymous subject
\* unless that is what the request is.  Behind the middleware nobody sees a
\* reference token ("so nothing downstream of this middleware can observe the
\* raw reference token").
NoForeignClaims ==
    \A r \in Requests : stage[r] # "idle" =>
        /\ principal[r] \subseteq Ambient(r) \union TokenClaims(token[r]) \union {Anonymous}
        /\ Anonymous \in principal[r] => token[r] = NoToken \/ AnonymousOnFailure
        /\ stage[r] = "handler" /\ token[r] # NoToken /\ isReferenceToken(token[r]) =>
             authorization[r] # Bearer(token[r])
        /\ stage[r] = "handler" /\ token[r] # NoToken /\ ~AnonymousOnFailure =>
             TokenClaims(token[r]) \subseteq principal[r]

\* A cached resolution ends at most as long after its JWT as its own request
\* took from resolving to caching (capTTLToJWTExpiry).
OverrunIsBounded ==
    \A t \in JwtTokens : refCache[t] # NoToken =>
        refCache[t].expires <= refCache[t].jwt + refCache[t].slack

\* "the JWT validator never handed off: validation failed, cache nothing"
\* (claimsToCache): what is cached for a JWT are claims of a JWT that validated.
OnlyValidatedIsCached ==
    \A t \in JwtTokens : refCache[t] # NoToken => refCache[t].claims = TokenClaims(t)

=============================================================================
