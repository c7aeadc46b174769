----------------------------- MODULE TokenProofs ----------------------------
(***************************************************************************)
(* Tokens and principals, for every number of requests, minters, tokens    *)
(* and keys and without a bound on time: what reference tokens leave in    *)
(* the cache (ReferenceToken), what a minted token and a served request    *)
(* can rely on (TokenChain), and the keys they are minted with             *)
(* (KeyMaterial).                                                          *)
(***************************************************************************)
EXTENDS KeyMaterial, ReferenceToken, TokenChain, Extremes, TLAPS

-----------------------------------------------------------------------------
(* ReferenceToken.  A request is at one of four stages; what is known of   *)
(* its principal, its header and the outcome it carries depends on the     *)
(* stage, and the cache holds what finished requests were allowed to keep. *)

\* The outcome of a resolved JWT: taken before the JWT added anything, with a
\* TTL that ends with the JWT if it starts when it was resolved.
Resolved(r) ==
    /\ token[r] \in JwtTokens
    /\ jwtExp[r] = exp[token[r]]
    /\ outcome[r].before = Ambient(r)
    /\ outcome[r].resolvedAt \in Nat /\ outcome[r].resolvedAt <= refClock
    /\ outcome[r].ttl \in Nat /\ outcome[r].resolvedAt + outcome[r].ttl <= jwtExp[r]

\* With its token in hand a request has what the connection brought, and waits
\* for a resolver.
Resolving(r) ==
    /\ token[r] \in Tokens /\ isReferenceToken(token[r])
    /\ principal[r] = Ambient(r)
    /\ ~outcome[r].cacheable

\* It comes to the JWT interceptor without a token, with one that is no
\* reference, or with the JWT it was resolved to.
Validating(r) ==
    /\ principal[r] = Ambient(r)
    /\ \/ token[r] = NoToken /\ authorization[r] = NoHeader /\ ~outcome[r].cacheable
       \/ /\ token[r] \in Tokens /\ ~isReferenceToken(token[r])
          /\ authorization[r] = Bearer(token[r]) /\ ~outcome[r].cacheable
       \/ /\ token[r] \in JwtTokens /\ authorization[r] = ResolvedJwt(token[r])
          /\ outcome[r].cacheable => Resolved(r)

\* The handler's principal: what came with the connection, and the token's
\* claims or, where that is allowed, the anonymous subject.
Handling(r) ==
    /\ token[r] \in Tokens \union {NoToken}
    /\ \/ principal[r] = Ambient(r) \union TokenClaims(token[r]) /\ token[r] # NoToken
       \/ principal[r] = Ambient(r) \union {Anonymous} /\ (token[r] = NoToken \/ AnonymousOnFailure)
    /\ token[r] # NoToken /\ isReferenceToken(token[r]) => authorization[r] # Bearer(token[r])
    /\ outcome[r].cacheable =>
         /\ Resolved(r)
         /\ outcome[r].captured = principal[r]

RequestOK(r) ==
    /\ stage[r] \in {"idle", "resolve", "validate", "handler"}
    /\ stage[r] = "idle" => ~outcome[r].cacheable
    /\ stage[r] = "resolve" => Resolving(r)
    /\ stage[r] = "validate" => Validating(r)
    /\ stage[r] = "handler" => Handling(r)

EntryOK(t) ==
    refCache[t] # NoToken =>
      /\ \/ refCache[t].claims = TokenClaims(t)
         \/ refCache[t].claims = {Anonymous} /\ AnonymousOnFailure
      /\ t \in JwtTokens => refCache[t].expires <= refCache[t].jwt + refCache[t].slack

RefTypes ==
    /\ refClock \in Nat
    /\ exp \in [JwtTokens \union Dotted -> Nat]
    /\ DOMAIN refCache = Tokens
    /\ DOMAIN stage = Requests /\ DOMAIN token = Requests /\ DOMAIN principal = Requests
    /\ DOMAIN jwtExp = Requests /\ DOMAIN outcome = Requests /\ DOMAIN authorization = Requests
    /\ \A r \in Requests : DOMAIN outcome[r] = DOMAIN NoOutcome

RefInv ==
    /\ RefTypes
    /\ \A r \in Requests : RequestOK(r)
    /\ \A t \in Tokens : EntryOK(t)

-----------------------------------------------------------------------------
\* The fields of an outcome.
LEMMA OutcomeFields ==
  DOMAIN NoOutcome = {"cacheable", "ttl", "before", "captured", "resolvedAt"}
BY DEF NoOutcome

\* A token's claims, an anonymous subject and what came with a connection are
\* told apart by their kinds.
LEMMA Kinds ==
  ASSUME NEW r, NEW t
  PROVE  /\ Claim("token", t) \notin Ambient(r) /\ Anonymous \notin Ambient(r)
         /\ Claim("token", t) # Anonymous
         /\ WithoutReservedMTLSClaims(TokenClaims(t)) = TokenClaims(t)
         /\ WithoutReservedMTLSClaims({Anonymous}) = {Anonymous}
<1> DEFINE mtls == Claim("mtls", r)
           ambient == Claim("ambient", r)
           tok == Claim("token", t)
<1>1. mtls.kind = "mtls" /\ ambient.kind = "ambient" /\ tok.kind = "token" /\ Anonymous.kind = "sub"
  BY DEF Claim, Anonymous
<1>2. Ambient(r) = {mtls, ambient} /\ TokenClaims(t) = {tok}
  BY DEF Ambient, TokenClaims
<1> HIDE DEF mtls, ambient, tok
<1>3. tok \notin Ambient(r) /\ Anonymous \notin Ambient(r) /\ tok # Anonymous
  BY <1>1, <1>2
<1>4. WithoutReservedMTLSClaims(TokenClaims(t)) = TokenClaims(t)
  BY <1>1, <1>2 DEF WithoutReservedMTLSClaims
<1>5. WithoutReservedMTLSClaims({Anonymous}) = {Anonymous}
  BY <1>1 DEF WithoutReservedMTLSClaims
<1> QED
  BY <1>3, <1>4, <1>5 DEF tok

\* Of a principal that was the connection's before the JWT came, exactly what
\* came with the JWT is cached.
LEMMA WhatIsCached ==
  ASSUME NEW r, NEW t, NEW out, out.before = Ambient(r)
  PROVE  /\ claimsToCache(out, Ambient(r) \union TokenClaims(t)) = TokenClaims(t)
         /\ claimsToCache(out, Ambient(r) \union {Anonymous}) = {Anonymous}
<1>1. TokenClaims(t) = {Claim("token", t)}
  BY DEF TokenClaims
<1>2. ClaimsAddedSince(out.before, Ambient(r) \union TokenClaims(t)) = TokenClaims(t)
  BY Kinds, <1>1 DEF ClaimsAddedSince
<1>3. ClaimsAddedSince(out.before, Ambient(r) \union {Anonymous}) = {Anonymous}
  BY Kinds DEF ClaimsAddedSince
<1> QED
  BY <1>2, <1>3, Kinds DEF claimsToCache

\* The headers differ.
LEMMA HeadersDiffer ==
  ASSUME NEW t
  PROVE  Bearer(t) # NoHeader /\ ResolvedJwt(t) # NoHeader /\ ResolvedJwt(t) # Bearer(t)
BY DEF Bearer, ResolvedJwt, NoHeader

\* A request that does not move keeps what is known of it, as time passes and
\* whatever is cached.
LEMMA RequestStays ==
  ASSUME RefInv, NEW r \in Requests, refClock' \in Nat, refClock <= refClock',
         UNCHANGED <<refConfig, exp>>,
         stage'[r] = stage[r], token'[r] = token[r], principal'[r] = principal[r],
         jwtExp'[r] = jwtExp[r], outcome'[r] = outcome[r], authorization'[r] = authorization[r]
  PROVE  RequestOK(r)'
<1>1. RequestOK(r) /\ refClock \in Nat
  BY DEF RefInv, RefTypes
<1>2. Resolved(r) => Resolved(r)'
  BY <1>1 DEF Resolved
<1> QED
  BY <1>1, <1>2 DEF RequestOK, Resolving, Validating, Handling, isReferenceToken, looksLikeJWT

\* A cached entry stays as it is.
LEMMA EntriesStay ==
  ASSUME RefInv, UNCHANGED refCache
  PROVE  \A t \in Tokens : EntryOK(t)'
BY DEF RefInv, EntryOK

\* A request that has ended.
LEMMA EndedOK ==
  ASSUME RefInv, NEW r \in Requests, Ended(r), UNCHANGED <<refClock, refConfig, exp>>
  PROVE  /\ \A q \in Requests : RequestOK(q)'
         /\ DOMAIN refCache' = Tokens => RefTypes'
<1>1. RequestOK(r)'
  BY DEF Ended, AtStage, RefInv, RefTypes, RequestOK, NoOutcome
<1>2. ASSUME NEW q \in Requests, q # r PROVE RequestOK(q)'
  BY <1>2, RequestStays DEF Ended, AtStage, RefInv, RefTypes
<1>3. ASSUME DOMAIN refCache' = Tokens PROVE RefTypes'
  BY <1>3 DEF Ended, AtStage, RefInv, RefTypes
<1> QED
  BY <1>1, <1>2, <1>3

\* The first state.
LEMMA RefInitOK == RefInit => RefInv
<1> SUFFICES ASSUME RefInit PROVE RefInv
  OBVIOUS
<1>1. RefTypes
  BY RefAssumption DEF RefInit, RefTypes
<1>2. \A r \in Requests : RequestOK(r)
  BY DEF RefInit, RequestOK, NoOutcome
<1>3. \A t \in Tokens : EntryOK(t)
  BY DEF RefInit, EntryOK
<1> QED
  BY <1>1, <1>2, <1>3 DEF RefInv

\* What a request writes to the cache: a JWT's claims, or the anonymous subject
\* where that is allowed, until the JWT runs out and no longer than the request
\* took beyond that.
LEMMA StoredOK ==
  ASSUME RefInv, NEW r \in Requests, NEW claims,
         Resolved(r), UNCHANGED refClock,
         \/ claims = TokenClaims(token[r])
         \/ claims = {Anonymous} /\ AnonymousOnFailure,
         Stored(token[r], claims, outcome[r].ttl, outcome[r].resolvedAt, jwtExp[r])
  PROVE  DOMAIN refCache' = Tokens /\ \A t \in Tokens : EntryOK(t)'
<1> DEFINE e == [claims |-> claims, expires |-> refClock + outcome[r].ttl, jwt |-> jwtExp[r],
                 slack |-> refClock - outcome[r].resolvedAt]
<1>1. e.claims = claims /\ e.expires <= e.jwt + e.slack
  <2>1. refClock \in Nat /\ outcome[r].ttl \in Nat /\ outcome[r].resolvedAt \in Nat /\ jwtExp[r] \in Nat
    BY DEF Resolved, RefInv, RefTypes
  <2> QED
    BY <2>1 DEF Resolved
<1>2. refCache' = refCache \/ refCache' = [refCache EXCEPT ![token[r]] = e]
  BY DEF Stored
<1> HIDE DEF e
<1>3. DOMAIN refCache = Tokens /\ \A t \in Tokens : EntryOK(t)
  BY DEF RefInv, RefTypes
<1>4. CASE refCache' = refCache
  BY <1>3, <1>4 DEF EntryOK
<1>5. CASE refCache' = [refCache EXCEPT ![token[r]] = e]
  <2>1. DOMAIN refCache' = Tokens
    BY <1>3, <1>5
  <2>2. ASSUME NEW t \in Tokens, t # token[r] PROVE EntryOK(t)'
    BY <1>3, <1>5, <2>2 DEF EntryOK
  <2>3. ASSUME NEW t \in Tokens, t = token[r] PROVE EntryOK(t)'
    BY <1>1, <1>3, <1>5, <2>3 DEF EntryOK
  <2> QED
    BY <2>1, <2>2, <2>3
<1> QED
  BY <1>2, <1>4, <1>5

\* A request arrives.
LEMMA ArriveOK ==
  ASSUME RefInv, NEW r \in Requests, NEW s, NEW t, NEW header,
         \/ header = NoHeader /\ t = NoToken
         \/ t \in Tokens /\ header = Bearer(t),
         Arrive(r, header, t, s)
  PROVE  RefInv'
<1>1. RefTypes'
  BY DEF Arrive, AtStage, RefInv, RefTypes
<1>2. ASSUME NEW q \in Requests, q # r PROVE RequestOK(q)'
  BY <1>2, RequestStays DEF Arrive, AtStage, RefInv, RefTypes
<1>3. RequestOK(r)'
  <2>1. /\ stage'[r] = extractBearerToken(header, t) /\ token'[r] = t
        /\ authorization'[r] = header /\ principal'[r] = Ambient(r) /\ outcome'[r] = outcome[r]
    BY DEF Arrive, AtStage, RefInv, RefTypes
  <2>2. ~outcome[r].cacheable
    BY DEF Arrive, RefInv, RequestOK
  <2>3. UNCHANGED refConfig
    BY DEF Arrive
  <2> QED
    BY <2>1, <2>2, <2>3, HeadersDiffer, RefAssumption
    DEF RequestOK, Resolving, Validating, extractBearerToken, isReferenceToken, looksLikeJWT
<1>4. \A u \in Tokens : EntryOK(u)'
  BY EntriesStay DEF Arrive
<1> QED
  BY <1>1, <1>2, <1>3, <1>4 DEF RefInv

\* What the cache has for the token goes on the principal.
LEMMA CacheHitOK ==
  ASSUME RefInv, NEW r \in Requests, CacheHit(r)
  PROVE  RefInv'
<1>1. RefTypes'
  BY DEF CacheHit, stripAuthorization, AtStage, RefInv, RefTypes
<1>2. ASSUME NEW q \in Requests, q # r PROVE RequestOK(q)'
  BY <1>2, RequestStays DEF CacheHit, stripAuthorization, AtStage, RefInv, RefTypes
<1>3. RequestOK(r)'
  <2>1. Resolving(r) /\ EntryOK(token[r]) /\ refCache[token[r]] # NoToken
    BY DEF CacheHit, LiveEntry, RefInv, RequestOK, Resolving
  <2>2. /\ stage'[r] = "handler" /\ token'[r] = token[r] /\ authorization'[r] = NoHeader
        /\ outcome'[r] = outcome[r]
        /\ principal'[r] = principal[r] \union WithoutReservedMTLSClaims(refCache[token[r]].claims)
    BY DEF CacheHit, stripAuthorization, AtStage, RefInv, RefTypes
  <2>3. \/ principal'[r] = Ambient(r) \union TokenClaims(token[r])
        \/ principal'[r] = Ambient(r) \union {Anonymous} /\ AnonymousOnFailure
    BY <2>1, <2>2, Kinds DEF EntryOK, Resolving
  <2> QED
    BY <2>1, <2>2, <2>3, HeadersDiffer, RefAssumption DEF RequestOK, Handling, Resolving
<1>4. \A u \in Tokens : EntryOK(u)'
  BY EntriesStay DEF CacheHit
<1> QED
  BY <1>1, <1>2, <1>3, <1>4 DEF RefInv

\* A resolver passes the token on to the next.
LEMMA DeclinedOK ==
  ASSUME RefInv, NEW r \in Requests, Declined(r)
  PROVE  RefInv'
<1>1. RefTypes'
  BY DEF Declined, RefInv, RefTypes
<1>2. ASSUME NEW q \in Requests PROVE RequestOK(q)'
  BY RequestStays DEF Declined, RefInv, RefTypes
<1>3. \A u \in Tokens : EntryOK(u)'
  BY EntriesStay DEF Declined
<1> QED
  BY <1>1, <1>2, <1>3 DEF RefInv

\* A resolver answers with claims.
LEMMA ResolveClaimsOK ==
  ASSUME RefInv, NEW r \in Requests, NEW ttl, ResolveClaims(r, ttl)
  PROVE  RefInv'
<1>1. Resolving(r) /\ token[r] \notin JwtTokens
  BY DEF ResolveClaims, RefInv, RequestOK
<1>2. ASSUME NEW q \in Requests, q # r PROVE RequestOK(q)'
  BY <1>2, RequestStays DEF ResolveClaims, stripAuthorization, AtStage, RefInv, RefTypes
<1>3. RequestOK(r)'
  <2>1. /\ stage'[r] = "handler" /\ token'[r] = token[r] /\ authorization'[r] = NoHeader
        /\ outcome'[r] = outcome[r]
        /\ principal'[r] = principal[r] \union TokenClaims(token[r])
    BY DEF ResolveClaims, stripAuthorization, AtStage, RefInv, RefTypes
  <2> QED
    BY <1>1, <2>1, HeadersDiffer, RefAssumption DEF RequestOK, Handling, Resolving
<1> DEFINE e == [claims |-> TokenClaims(token[r]), expires |-> refClock + TTLOf(ttl), jwt |-> NoToken,
                 slack |-> refClock - refClock]
<1>4. refCache' = refCache \/ refCache' = [refCache EXCEPT ![token[r]] = e]
  BY DEF ResolveClaims, Stored
<1>5. e.claims = TokenClaims(token[r])
  OBVIOUS
<1> HIDE DEF e
<1>6. DOMAIN refCache' = Tokens /\ \A t \in Tokens : EntryOK(t)'
  BY <1>1, <1>4, <1>5 DEF RefInv, RefTypes, EntryOK
<1>7. RefTypes'
  BY <1>6 DEF ResolveClaims, stripAuthorization, AtStage, RefInv, RefTypes
<1> QED
  BY <1>2, <1>3, <1>6, <1>7 DEF RefInv

\* A resolver answers with a JWT.
LEMMA ResolveJwtOK ==
  ASSUME RefInv, NEW r \in Requests, NEW ttl \in ResolvedTTLs, ResolveJwt(r, ttl)
  PROVE  RefInv'
<1>1. Resolving(r) /\ token[r] \in JwtTokens /\ refClock \in Nat /\ exp[token[r]] \in Nat
  BY DEF ResolveJwt, RefInv, RefTypes, RequestOK
<1>2. ASSUME NEW q \in Requests, q # r PROVE RequestOK(q)'
  BY <1>2, RequestStays DEF ResolveJwt, rewriteAuthorizationToJWT, AtStage, RefInv, RefTypes
<1> DEFINE out == [cacheable |-> exp[token[r]] > refClock,
                   ttl |-> IF exp[token[r]] > refClock
                             THEN capTTLToJWTExpiry(TTLOf(ttl), exp[token[r]]) ELSE 0,
                   before |-> principal[r], captured |-> {}, resolvedAt |-> refClock]
<1>3. /\ out.cacheable => exp[token[r]] > refClock
      /\ out.before = principal[r] /\ out.resolvedAt = refClock
      /\ out.ttl = IF exp[token[r]] > refClock THEN capTTLToJWTExpiry(TTLOf(ttl), exp[token[r]]) ELSE 0
      /\ DOMAIN out = DOMAIN NoOutcome
  BY DEF NoOutcome
<1> HIDE DEF out
<1>4. /\ stage'[r] = "validate" /\ token'[r] = token[r] /\ authorization'[r] = ResolvedJwt(token[r])
      /\ outcome'[r] = out /\ principal'[r] = principal[r] /\ jwtExp'[r] = exp[token[r]]
      /\ UNCHANGED <<refClock, refConfig, exp, refCache>>
  BY DEF ResolveJwt, rewriteAuthorizationToJWT, AtStage, RefInv, RefTypes, out
<1>5. out.cacheable => out.ttl \in Nat /\ refClock + out.ttl <= exp[token[r]]
  <2>1. TTLOf(ttl) \in Nat
    BY RefAssumption DEF TTLOf
  <2> QED
    BY <1>1, <1>3, <2>1 DEF capTTLToJWTExpiry
<1>6. RequestOK(r)'
  <2>1. out.cacheable => Resolved(r)'
    BY <1>1, <1>3, <1>4, <1>5 DEF Resolved, Resolving
  <2> QED
    BY <1>1, <1>4, <2>1 DEF RequestOK, Validating, Resolving
<1>7. \A u \in Tokens : EntryOK(u)'
  BY EntriesStay, <1>4
<1>8. RefTypes'
  BY <1>3 DEF ResolveJwt, rewriteAuthorizationToJWT, AtStage, RefInv, RefTypes, out
<1> QED
  BY <1>2, <1>6, <1>7, <1>8 DEF RefInv

\* The JWT interceptor goes on with the token's claims, or with an anonymous
\* subject where that is allowed.
LEMMA HandOffOK ==
  ASSUME RefInv, NEW r \in Requests, stage[r] = "validate", NEW claims, HandOff(r, claims),
         UNCHANGED <<refClock, refConfig, exp, token, jwtExp, authorization>>,
         \/ claims = TokenClaims(token[r]) /\ token[r] # NoToken
         \/ claims = {Anonymous} /\ (token[r] = NoToken \/ AnonymousOnFailure)
  PROVE  RefInv'
<1> DEFINE p == Ambient(r) \union claims
           out == [outcome[r] EXCEPT !.captured = p]
<1>1. Validating(r) /\ RefTypes
  BY DEF RefInv, RequestOK
<1>2. /\ out.cacheable = outcome[r].cacheable /\ out.before = outcome[r].before
      /\ out.ttl = outcome[r].ttl /\ out.resolvedAt = outcome[r].resolvedAt
      /\ out.captured = p /\ DOMAIN out = DOMAIN NoOutcome
  BY <1>1, OutcomeFields DEF RefTypes
<1>3. /\ stage'[r] = "handler" /\ principal'[r] = p /\ outcome'[r] = out
      /\ \/ refCache' = refCache
         \/ /\ out.cacheable
            /\ Stored(token[r], claimsToCache(out, p), out.ttl, out.resolvedAt, jwtExp[r])
  BY <1>1 DEF HandOff, AtStage, Validating, RefTypes
<1>4. \A q \in Requests : q # r =>
         /\ stage'[q] = stage[q] /\ principal'[q] = principal[q] /\ outcome'[q] = outcome[q]
  BY <1>1 DEF HandOff, AtStage, RefTypes
<1>5. /\ DOMAIN stage' = Requests /\ DOMAIN principal' = Requests /\ DOMAIN outcome' = Requests
  BY <1>1 DEF HandOff, AtStage, RefTypes
<1> HIDE DEF out
<1>6. ASSUME NEW q \in Requests, q # r PROVE RequestOK(q)'
  BY <1>1, <1>4, <1>6, RequestStays DEF RefTypes
<1>7. outcome[r].cacheable => Resolved(r) /\ Resolved(r)'
  BY <1>1, <1>2, <1>3 DEF Validating, Resolved, RefTypes
<1>8. outcome[r].cacheable => token[r] # NoToken
  BY <1>7, RefAssumption DEF Resolved
<1>9. RequestOK(r)'
  <2>1. token[r] \in Tokens \union {NoToken}
    BY <1>1, RefAssumption DEF Validating
  <2>2. token[r] # NoToken /\ isReferenceToken(token[r]) => authorization[r] # Bearer(token[r])
    BY <1>1, HeadersDiffer DEF Validating
  <2>3. isReferenceToken(token[r])' <=> isReferenceToken(token[r])
    BY DEF isReferenceToken, looksLikeJWT
  <2> QED
    BY <1>2, <1>3, <1>7, <2>1, <2>2, <2>3 DEF RequestOK, Handling
<1>10. DOMAIN refCache' = Tokens /\ \A t \in Tokens : EntryOK(t)'
  <2>1. CASE refCache' = refCache
    BY <1>1, <2>1, EntriesStay DEF RefTypes
  <2>2. CASE out.cacheable /\ Stored(token[r], claimsToCache(out, p), out.ttl, out.resolvedAt, jwtExp[r])
    <3>1. Resolved(r) /\ token[r] # NoToken
      BY <1>2, <1>7, <1>8, <2>2
    <3>2. out.before = Ambient(r)
      BY <1>2, <3>1 DEF Resolved
    <3>3. \/ claimsToCache(out, p) = TokenClaims(token[r])
          \/ claimsToCache(out, p) = {Anonymous} /\ AnonymousOnFailure
      BY <3>1, <3>2, WhatIsCached
    <3>4. Stored(token[r], claimsToCache(out, p), outcome[r].ttl, outcome[r].resolvedAt, jwtExp[r])
      BY <1>2, <2>2
    <3> HIDE DEF p
    <3> QED
      BY <3>1, <3>3, <3>4, StoredOK
  <2> QED
    BY <1>3, <2>1, <2>2
<1>11. RefTypes'
  <2>1. \A q \in Requests : DOMAIN outcome'[q] = DOMAIN NoOutcome
    BY <1>1, <1>2, <1>3, <1>4 DEF RefTypes
  <2> QED
    BY <1>1, <1>5, <1>10, <2>1 DEF RefTypes
<1> QED
  BY <1>6, <1>9, <1>10, <1>11 DEF RefInv

\* The handler has returned: a unary request caches what was captured.
LEMMA FinishOK ==
  ASSUME RefInv, NEW r \in Requests, Finish(r)
  PROVE  RefInv'
<1> DEFINE out == outcome[r]
<1>1. Handling(r) /\ RefTypes
  BY DEF Finish, RefInv, RequestOK
<1>2. Ended(r) /\ UNCHANGED <<refClock, refConfig, exp>>
  BY DEF Finish
<1>3. DOMAIN refCache' = Tokens /\ \A t \in Tokens : EntryOK(t)'
  <2>1. CASE UNCHANGED refCache
    BY <1>1, <2>1, EntriesStay DEF RefTypes
  <2>2. CASE /\ out.cacheable
             /\ Stored(token[r], claimsToCache(out, out.captured), out.ttl, out.resolvedAt, jwtExp[r])
    <3>1. Resolved(r) /\ token[r] # NoToken /\ out.captured = principal[r]
      BY <1>1, <2>2, RefAssumption DEF Handling, Resolved
    <3>2. out.before = Ambient(r)
      BY <3>1 DEF Resolved
    <3>3. \/ claimsToCache(out, out.captured) = TokenClaims(token[r])
          \/ claimsToCache(out, out.captured) = {Anonymous} /\ AnonymousOnFailure
      BY <1>1, <3>1, <3>2, WhatIsCached DEF Handling
    <3> QED
      BY <1>2, <2>2, <3>1, <3>3, StoredOK
  <2> QED
    BY <2>1, <2>2 DEF Finish
<1> QED
  BY <1>2, <1>3, EndedOK DEF RefInv

\* Time passes, or the keys become reachable or unreachable.
LEMMA EnvironmentOK ==
  ASSUME RefInv, RefTick \/ JwksToggle
  PROVE  RefInv'
<1>1. /\ UNCHANGED <<refConfig, exp, refCache, reqVars>>
      /\ refClock' \in Nat /\ refClock <= refClock'
  BY DEF RefTick, JwksToggle, RefInv, RefTypes
<1>2. ASSUME NEW q \in Requests PROVE RequestOK(q)'
  BY <1>1, RequestStays DEF reqVars
<1>3. \A u \in Tokens : EntryOK(u)'
  BY <1>1, EntriesStay
<1>4. RefTypes'
  BY <1>1 DEF RefInv, RefTypes, reqVars
<1> QED
  BY <1>2, <1>3, <1>4 DEF RefInv

\* One step of one request.
LEMMA RequestStep ==
  ASSUME RefInv, NEW r \in Requests, Request(r)
  PROVE  RefInv'
<1>1. ASSUME NEW s \in BOOLEAN, Arrive(r, NoHeader, NoToken, s) PROVE RefInv'
  BY <1>1, ArriveOK
<1>2. ASSUME NEW s \in BOOLEAN, NEW t \in Tokens, Arrive(r, Bearer(t), t, s) PROVE RefInv'
  BY <1>2, ArriveOK
<1>3. CASE Refuse(r)
  <2>1. UNCHANGED <<refClock, refConfig, exp, refCache, stage, token, principal, jwtExp, outcome, authorization>>
    BY <1>3 DEF Refuse, refVars, reqVars
  <2>2. ASSUME NEW q \in Requests PROVE RequestOK(q)'
    BY <2>1, RequestStays DEF RefInv, RefTypes
  <2>3. RefTypes' /\ \A t \in Tokens : EntryOK(t)'
    BY <2>1, EntriesStay DEF RefInv, RefTypes
  <2> QED
    BY <2>2, <2>3 DEF RefInv
<1>4. CASE CacheHit(r)
  BY <1>4, CacheHitOK
<1>5. CASE Declined(r)
  BY <1>5, DeclinedOK
<1>6. CASE Unresolved(r)
  BY <1>6, EndedOK, EntriesStay DEF Unresolved, RefInv, RefTypes
<1>7. ASSUME NEW ttl \in ResolvedTTLs, ResolveClaims(r, ttl) PROVE RefInv'
  BY <1>7, ResolveClaimsOK
<1>8. ASSUME NEW ttl \in ResolvedTTLs, ResolveJwt(r, ttl) PROVE RefInv'
  BY <1>8, ResolveJwtOK
<1>9. CASE Validated(r)
  <2>1. token[r] # NoToken
    BY <1>9, RefAssumption DEF Validated, jwtValid, IsJwt, RefInv, RequestOK, Validating
  <2> QED
    BY <1>9, <2>1, HandOffOK DEF Validated
<1>10. CASE NotValidated(r)
  <2>1. CASE AnonymousOnFailure \/ authorization[r] = NoHeader
    <3>1. token[r] = NoToken \/ AnonymousOnFailure
      BY <1>10, <2>1, HeadersDiffer DEF NotValidated, RefInv, RequestOK, Validating
    <3> QED
      BY <1>10, <2>1, <3>1, HandOffOK DEF NotValidated
  <2>2. CASE ~(AnonymousOnFailure \/ authorization[r] = NoHeader)
    BY <1>10, <2>2, EndedOK, EntriesStay DEF NotValidated, RefInv, RefTypes
  <2> QED
    BY <2>1, <2>2
<1>11. CASE Finish(r)
  BY <1>11, FinishOK
<1> QED
  BY <1>1, <1>2, <1>3, <1>4, <1>5, <1>6, <1>7, <1>8, <1>9, <1>10, <1>11 DEF Request

\* The invariant holds in every state.
LEMMA RefInvariant == RefSpec => []RefInv
<1>1. ASSUME RefInv, [RefNext]_refVars PROVE RefInv'
  <2>1. CASE RefTick \/ JwksToggle
    BY <1>1, <2>1, EnvironmentOK
  <2>2. ASSUME NEW r \in Requests, Request(r) PROVE RefInv'
    BY <1>1, <2>2, RequestStep
  <2>3. CASE UNCHANGED refVars
    <3>1. UNCHANGED <<refClock, refConfig, exp, refCache, stage, token, principal, jwtExp, outcome, authorization>>
      BY <2>3 DEF refVars, reqVars
    <3>2. ASSUME NEW q \in Requests PROVE RequestOK(q)'
      BY <1>1, <3>1, RequestStays DEF RefInv, RefTypes
    <3>3. RefTypes' /\ \A t \in Tokens : EntryOK(t)'
      BY <1>1, <3>1, EntriesStay DEF RefInv, RefTypes
    <3> QED
      BY <3>2, <3>3 DEF RefInv
  <2> QED
    BY <1>1, <2>1, <2>2, <2>3 DEF RefNext
<1> QED
  BY <1>1, RefInitOK, PTL DEF RefSpec

\* A principal holds what its connection and its token brought and nothing of
\* another request, whoever resolved the token and whenever it was cached;
\* nothing behind the middleware sees the reference token (claimsToCache,
\* stripAuthorization, rewriteAuthorizationToJWT).
THEOREM NoForeignClaimsTheorem == RefSpec => []NoForeignClaims
<1>1. RefInv => NoForeignClaims
  <2> SUFFICES ASSUME RefInv, NEW r \in Requests, stage[r] # "idle"
               PROVE  /\ principal[r] \subseteq Ambient(r) \union TokenClaims(token[r]) \union {Anonymous}
                      /\ Anonymous \in principal[r] => token[r] = NoToken \/ AnonymousOnFailure
                      /\ stage[r] = "handler" /\ token[r] # NoToken /\ isReferenceToken(token[r]) =>
                           authorization[r] # Bearer(token[r])
                      /\ stage[r] = "handler" /\ token[r] # NoToken /\ ~AnonymousOnFailure =>
                           TokenClaims(token[r]) \subseteq principal[r]
    BY DEF NoForeignClaims
  <2>1. RequestOK(r)
    BY DEF RefInv
  <2>2. Anonymous \notin Ambient(r) /\ Anonymous \notin TokenClaims(token[r])
    BY Kinds DEF TokenClaims
  <2> QED
    BY <2>1, <2>2 DEF RequestOK, Resolving, Validating, Handling
<1> QED
  BY <1>1, RefInvariant, PTL

\* However long resolving, validating and handling take, a cached resolution
\* outlasts its JWT by no more than its own request took (capTTLToJWTExpiry).
THEOREM OverrunTheorem == RefSpec => []OverrunIsBounded
<1>1. RefInv => OverrunIsBounded
  BY RefAssumption DEF RefInv, EntryOK, OverrunIsBounded
<1> QED
  BY <1>1, RefInvariant, PTL

\* Where a request that fails validation is refused, what is cached for a JWT
\* are the claims of a JWT that validated: the comment of claimsToCache holds
\* unless the interceptor runs with WithAnonymousOnFailure.
THEOREM ValidatedTheorem ==
  ASSUME ~AnonymousOnFailure PROVE RefSpec => []OnlyValidatedIsCached
<1>1. RefInv => OnlyValidatedIsCached
  BY RefAssumption DEF RefInv, EntryOK, OnlyValidatedIsCached
<1> QED
  BY <1>1, RefInvariant, PTL

-----------------------------------------------------------------------------
(* TokenChain.  What a minter is about to sign with was in force at an     *)
(* instant of its own call, and what was signed names the key it was       *)
(* signed with.                                                            *)

\* Key i was in force between the token's iat and now, or when it was signed.
WasActive(i, from, to) == \E t \in from..to : IsActive(SigningKeys[i], t)

MinterOK(m) ==
    /\ DOMAIN minter[m] = {"pc", "iat", "key"}
    /\ minter[m].pc \in {"idle", "claims", "key"}
    /\ minter[m].pc # "idle" => minter[m].iat \in Nat /\ 1 <= minter[m].iat /\ minter[m].iat <= wall
    /\ minter[m].pc = "key" =>
         \E i \in DOMAIN SigningKeys :
           /\ WasActive(i, minter[m].iat, wall)
           /\ minter[m].key.kid = SigningKeys[i].kid
           /\ minter[m].key.pem \in {SigningKeys[i].pem, "rubbish"}

TokenOK(x) ==
    /\ x.took \in Nat
    /\ x.token.form = "jws" /\ x.token.iss = "self"
    /\ x.token.iat \in Nat /\ 1 <= x.token.iat /\ x.token.iat <= wall
    /\ x.token.exp = x.token.iat + Life
    /\ \E i \in DOMAIN SigningKeys :
         /\ WasActive(i, x.token.iat, x.token.iat + x.took)
         /\ x.token.kid = SigningKeys[i].kid /\ x.token.signer = SigningKeys[i].pem

MintingInv ==
    /\ wall \in Nat /\ 1 <= wall
    /\ DOMAIN minter = Minters
    /\ \A m \in Minters : MinterOK(m)
    /\ \A x \in minted : TokenOK(x)

-----------------------------------------------------------------------------
\* The signing key a minter gets is a configured one that is active now, as it
\* is configured or, when a wrong password went unnoticed, rubbish.
LEMMA SigningKeyIsActive ==
  ASSUME NEW k \in GetSigningKey(wall)
  PROVE  \E i \in DOMAIN SigningKeys :
           /\ IsActive(SigningKeys[i], wall)
           /\ k.kid = SigningKeys[i].kid
           /\ k.pem \in {SigningKeys[i].pem, "rubbish"}
<1> DEFINE A == ActiveKeys(wall)
           i == CHOOSE g \in A : \A j \in A : j <= g
<1>1. A # {} /\ \E p \in DecryptPEM(SigningKeys[i]) \ {"error"} : k = [SigningKeys[i] EXCEPT !.pem = p]
  BY DEF GetSigningKey
<1>2. Len(SigningKeys) \in Nat /\ A \in SUBSET (1..Len(SigningKeys))
  BY ChainAssumption DEF ActiveKeys
<1>3. i \in A
  <2>1. \E g \in A : \A j \in A : j <= g
    BY <1>1, <1>2, GreatestExists
  <2> QED
    BY <2>1
<1> HIDE DEF i
<1>4. i \in DOMAIN SigningKeys /\ IsActive(SigningKeys[i], wall)
  BY <1>3 DEF ActiveKeys
<1>5. SigningKeys[i] \in KeyRecords
  BY <1>4, ChainAssumption
<1>6. PICK p \in DecryptPEM(SigningKeys[i]) \ {"error"} : k = [SigningKeys[i] EXCEPT !.pem = p]
  BY <1>1
<1>7. k.kid = SigningKeys[i].kid /\ k.pem = p
  BY <1>5, <1>6 DEF KeyRecords
<1>8. p \in {SigningKeys[i].pem, "rubbish"}
  BY <1>5, <1>6 DEF DecryptPEM, KeyRecords, StoredForms
<1> QED
  BY <1>4, <1>7, <1>8

\* The key that signs is the key that was fetched, whatever was parsed before.
LEMMA ParsedIsTheKey ==
  ASSUME NEW key
  PROVE  parsedKey(key).alg = key.alg /\ parsedKey(key).pem = key.pem
BY DEF parsedKey

\* A minter that does not move keeps what is known of it while time passes.
LEMMA MinterStays ==
  ASSUME MintingInv, wall' \in Nat, wall <= wall', NEW m \in Minters, minter'[m] = minter[m]
  PROVE  MinterOK(m)'
<1>1. MinterOK(m) /\ wall \in Nat
  BY DEF MintingInv
<1>2. ASSUME NEW i \in DOMAIN SigningKeys, minter[m].iat \in Nat, WasActive(i, minter[m].iat, wall)
      PROVE  WasActive(i, minter[m].iat, wall')
  BY <1>1, <1>2 DEF WasActive
<1> QED
  BY <1>1, <1>2 DEF MinterOK

\* So do the tokens that were minted.
LEMMA TokensStay ==
  ASSUME MintingInv, wall' \in Nat, wall <= wall', NEW x \in minted
  PROVE  TokenOK(x)'
<1>1. TokenOK(x) /\ wall \in Nat
  BY DEF MintingInv
<1> QED
  BY <1>1 DEF TokenOK, WasActive

\* Everything about minting in the next state, where one minter moved.
LEMMA OneMinterMoved ==
  ASSUME MintingInv, NEW m \in Minters, UNCHANGED <<wall, minted>>,
         DOMAIN minter' = Minters, \A n \in Minters \ {m} : minter'[n] = minter[n],
         MinterOK(m)'
  PROVE  MintingInv'
<1>1. \A n \in Minters \ {m} : MinterOK(n)'
  BY MinterStays DEF MintingInv
<1>2. \A x \in minted : TokenOK(x)'
  BY TokensStay DEF MintingInv
<1> QED
  BY <1>1, <1>2 DEF MintingInv

\* An idle minter knows nothing.
LEMMA IdleMinterOK ==
  ASSUME NEW m, minter'[m] = IdleMinter
  PROVE  MinterOK(m)'
BY DEF MinterOK, IdleMinter, NoKey

\* A minter gets the signing key of this instant, or gives up.
LEMMA GetKeyOK ==
  ASSUME MintingInv, NEW m \in Minters, GetKey(m)
  PROVE  MintingInv'
<1>1. MinterOK(m) /\ minter[m].pc = "claims" /\ wall \in Nat /\ DOMAIN minter = Minters
  BY DEF MintingInv, GetKey
<1>2. CASE minter' = [minter EXCEPT ![m] = IdleMinter]
  <2>1. minter'[m] = IdleMinter
    BY <1>1, <1>2
  <2> QED
    BY <1>1, <1>2, <2>1, IdleMinterOK, OneMinterMoved DEF GetKey
<1>3. ASSUME NEW k \in GetSigningKey(wall),
             minter' = [minter EXCEPT ![m] = [@ EXCEPT !.pc = "key", !.key = [kid |-> k.kid, alg |-> k.alg, pem |-> k.pem]]]
      PROVE  MintingInv'
  <2> DEFINE key == [kid |-> k.kid, alg |-> k.alg, pem |-> k.pem]
  <2>1. key.kid = k.kid /\ key.pem = k.pem
    OBVIOUS
  <2> HIDE DEF key
  <2>2. minter' = [minter EXCEPT ![m] = [minter[m] EXCEPT !.pc = "key", !.key = key]]
    BY <1>3 DEF key
  <2>3. /\ minter'[m].pc = "key" /\ minter'[m].iat = minter[m].iat /\ minter'[m].key = key
        /\ DOMAIN minter'[m] = {"pc", "iat", "key"}
    BY <1>1, <2>2 DEF MinterOK
  <2>4. PICK i \in DOMAIN SigningKeys : /\ IsActive(SigningKeys[i], wall)
                                        /\ k.kid = SigningKeys[i].kid
                                        /\ k.pem \in {SigningKeys[i].pem, "rubbish"}
    BY SigningKeyIsActive
  <2>5. minter[m].iat \in Nat /\ 1 <= minter[m].iat /\ minter[m].iat <= wall
    BY <1>1 DEF MinterOK
  <2>6. WasActive(i, minter[m].iat, wall)
    BY <1>1, <2>4, <2>5 DEF WasActive
  <2>7. UNCHANGED <<wall, minted>>
    BY DEF GetKey
  <2>8. MinterOK(m)'
    BY <2>1, <2>3, <2>4, <2>5, <2>6, <2>7 DEF MinterOK
  <2> QED
    BY <1>1, <2>2, <2>7, <2>8, OneMinterMoved
<1> QED
  BY <1>2, <1>3 DEF GetKey

\* A minter signs with the key it fetched.
LEMMA MintTokenOK ==
  ASSUME MintingInv, NEW m \in Minters, MintToken(m)
  PROVE  MintingInv'
<1> DEFINE key == minter[m].key
           use == parsedKey(key)
           iat == minter[m].iat
           tok == [kid |-> key.kid, signer |-> use.pem, form |-> "jws", iss |-> "self",
                   aud |-> {"api"}, iat |-> iat, exp |-> iat + Life, sub |-> "alice", claims |-> {"scope"}]
           x == [token |-> tok, took |-> wall - iat]
<1>1. /\ MinterOK(m) /\ minter[m].pc = "key" /\ wall \in Nat /\ 1 <= wall /\ DOMAIN minter = Minters
      /\ UNCHANGED wall
  BY DEF MintingInv, MintToken
<1>2. minter'[m] = IdleMinter /\ DOMAIN minter' = Minters /\ \A n \in Minters \ {m} : minter'[n] = minter[n]
  BY <1>1 DEF MintToken
<1>3. \A n \in Minters : MinterOK(n)'
  BY <1>1, <1>2, IdleMinterOK, MinterStays
<1>4. \A y \in minted : TokenOK(y)'
  BY <1>1, TokensStay
<1>5. CASE minted' = minted
  BY <1>1, <1>2, <1>3, <1>4, <1>5 DEF MintingInv
<1>6. CASE Parses(use.alg, use.pem) /\ minted' = minted \union {x}
  <2>1. use.pem = key.pem /\ key.pem # "rubbish"
    BY <1>6, ParsedIsTheKey DEF Parses
  <2>2. PICK i \in DOMAIN SigningKeys :
           WasActive(i, iat, wall) /\ key.kid = SigningKeys[i].kid /\ key.pem = SigningKeys[i].pem
    BY <1>1, <2>1 DEF MinterOK
  <2>3. iat \in Nat /\ 1 <= iat /\ iat <= wall
    BY <1>1 DEF MinterOK
  <2> PICK y : y = x
    OBVIOUS
  <2>4. /\ y.took = wall - iat /\ y.token.form = "jws" /\ y.token.iss = "self" /\ y.token.iat = iat
        /\ y.token.exp = iat + Life /\ y.token.kid = key.kid /\ y.token.signer = use.pem
    OBVIOUS
  <2>5. wall - iat \in Nat /\ iat + (wall - iat) = wall
    BY <1>1, <2>3
  <2>6. minted' = minted \union {y}
    BY <1>6
  <2> HIDE DEF x
  <2>7. TokenOK(y)'
    BY <1>1, <2>1, <2>2, <2>3, <2>4, <2>5 DEF TokenOK
  <2> QED
    BY <1>1, <1>2, <1>3, <1>4, <2>6, <2>7 DEF MintingInv
<1> QED
  BY <1>5, <1>6 DEF MintToken

\* Minting goes on like this whatever happens.
LEMMA MintingInvariant == ChainSpec => []MintingInv
<1>1. ChainInit => MintingInv
  BY IdleMinterOK DEF ChainInit, MintingInv, MinterOK, IdleMinter, NoKey
<1>2. ASSUME MintingInv, [ChainNext]_chainVars PROVE MintingInv'
  <2>1. ASSUME wall' \in Nat, wall <= wall', UNCHANGED <<minter, minted>> PROVE MintingInv'
    BY <1>2, <2>1, MinterStays, TokensStay DEF MintingInv
  <2>2. CASE Pass
    BY <1>2, <2>1, <2>2 DEF Pass, MintingInv
  <2>3. ASSUME NEW m \in Minters, BuildClaims(m) PROVE MintingInv'
    <3>1. /\ UNCHANGED <<wall, minted>> /\ DOMAIN minter = Minters /\ wall \in Nat /\ 1 <= wall
          /\ minter' = [minter EXCEPT ![m] = [IdleMinter EXCEPT !.pc = "claims", !.iat = wall]]
      BY <1>2, <2>3 DEF BuildClaims, MintingInv
    <3>2. minter'[m] = [pc |-> "claims", iat |-> wall, key |-> NoKey]
      BY <3>1 DEF IdleMinter
    <3>3. /\ DOMAIN minter'[m] = {"pc", "iat", "key"}
          /\ minter'[m].pc = "claims" /\ minter'[m].iat = wall
      BY <3>2
    <3>4. MinterOK(m)'
      BY <3>1, <3>3 DEF MinterOK
    <3> QED
      BY <1>2, <3>1, <3>4, OneMinterMoved
  <2>4. ASSUME NEW m \in Minters, GetKey(m) PROVE MintingInv'
    BY <1>2, <2>4, GetKeyOK
  <2>5. ASSUME NEW m \in Minters, MintToken(m) PROVE MintingInv'
    BY <1>2, <2>5, MintTokenOK
  <2>6. ASSUME UNCHANGED <<wall, minter, minted>> PROVE MintingInv'
    BY <1>2, <2>1, <2>6 DEF MintingInv
  <2>7. CASE Served
    BY <2>6, <2>7 DEF Served
  <2>8. ASSUME NEW header, NEW conn, NEW keySet, NEW anonymous, Serve(header, conn, keySet, anonymous)
        PROVE  MintingInv'
    BY <2>6, <2>8 DEF Serve
  <2>9. CASE UNCHANGED chainVars
    BY <2>6, <2>9 DEF chainVars
  <2> QED
    BY <1>2, <2>2, <2>3, <2>4, <2>5, <2>7, <2>8, <2>9 DEF ChainNext
<1> QED
  BY <1>1, <1>2, PTL DEF ChainSpec

\* However minters and rotations interleave, a token signed within the skew of
\* its iat is accepted for all of its life (MintToken, parsedKey,
\* checkSigningKeyWindow).
THEOREM MintedTheorem == ChainSpec => []MintedIsAccepted
<1>1. MintingInv => MintedIsAccepted
  <2> SUFFICES ASSUME MintingInv, NEW x \in minted, x.took <= KeySkew, wall <= x.token.exp
               PROVE  ParseAccessTokenRaw(OwnValidator, x.token)
    BY DEF MintedIsAccepted
  <2> DEFINE t == x.token
  <2>1. TokenOK(x) /\ wall \in Nat /\ Life \in Nat /\ KeySkew \in Nat
    BY ChainAssumption DEF MintingInv
  <2> HIDE DEF t
  <2>2. PICK i \in DOMAIN SigningKeys :
           /\ WasActive(i, t.iat, t.iat + x.took)
           /\ t.kid = SigningKeys[i].kid /\ t.signer = SigningKeys[i].pem
    BY <2>1 DEF TokenOK, t
  <2>3. SigningKeys[i] \in KeyOf(t.kid)
    BY <2>2 DEF KeyOf
  <2>4. Signed(t, {SigningKeys[j].kid : j \in DOMAIN SigningKeys})
    BY <2>2, <2>3 DEF Signed
  <2>5. /\ t.iat \in Nat /\ 1 <= t.iat /\ t.iat <= wall /\ t.exp = t.iat + Life
        /\ t.form = "jws" /\ t.iss = "self" /\ x.took \in Nat
    BY <2>1 DEF TokenOK, t
  <2>6. SigningKeys[i].notBefore \in Int /\ SigningKeys[i].notAfter \in Int
    <3>1. SigningKeys[i] \in KeyRecords
      BY ChainAssumption
    <3> QED
      BY <3>1 DEF KeyRecords
  <2>7. t.iat >= SigningKeys[i].notBefore - KeySkew /\ t.iat <= SigningKeys[i].notAfter + KeySkew
    BY <2>1, <2>2, <2>5, <2>6 DEF WasActive, IsActive
  <2>8. checkSigningKeyWindow(t)
    BY <2>3, <2>5, <2>7 DEF checkSigningKeyWindow
  <2>9. InTime(t, KeySkew)
    BY <2>1, <2>5 DEF InTime, t
  <2> QED
    BY <2>4, <2>5, <2>8, <2>9 DEF ParseAccessTokenRaw, OwnValidator, t
<1> QED
  BY <1>1, MintingInvariant, PTL

-----------------------------------------------------------------------------
(* The principal of a request.  What vouches for a token is a validator's  *)
(* signature check: a list with a nil entry, and a key material validator  *)
(* with ValidateSignature off, take what they are given.                   *)

ChecksSignatures ==
    \A V \in ValidatorLists : \A i \in DOMAIN V :
      V[i].kind # "nil" /\ (V[i].kind = "keys" => V[i].signature)

PrincipalInv == MintingInv /\ validators \in ValidatorLists /\ PrincipalIsEarned

\* A validator that checks signatures accepts what is vouched for only.
LEMMA ValidatorVouches ==
  ASSUME NEW v, v.kind \in {"keys", "issuer"}, v.kind = "keys" => v.signature,
         NEW t, t.exp \in Nat, wall \in Nat, NEW keySet,
         ValidateAccessToken(v, t, keySet) = "accepted"
  PROVE  Vouched(t, wall)
<1>0. KeySkew \in Nat /\ IssuerSkew \in Nat
  BY ChainAssumption
<1>1. CASE v.kind = "keys"
  <2>1. ParseAccessTokenRaw(v, t)
    BY <1>1 DEF ValidateAccessToken
  <2>2. Signed(t, {SigningKeys[i].kid : i \in DOMAIN SigningKeys}) /\ InTime(t, KeySkew)
    BY <1>1, <2>1 DEF ParseAccessTokenRaw
  <2> QED
    BY <1>0, <2>2 DEF Signed, InTime, Vouched
<1>2. CASE v.kind = "issuer"
  <2>1. Signed(t, keySet) /\ InTime(t, IssuerSkew)
    BY <1>2 DEF ValidateAccessToken
  <2> QED
    BY <1>0, <2>1 DEF Signed, InTime, Vouched
<1> QED
  BY <1>1, <1>2

\* A validator accepts, refuses or passes; it never finds the token missing.
LEMMA ThreeVerdicts ==
  ASSUME NEW v, NEW t, NEW keySet
  PROVE  ValidateAccessToken(v, t, keySet) \in {"accepted", "refused", "not mine"}
BY DEF ValidateAccessToken

\* The verdict of the chain is one validator's, or a refusal.
LEMMA VerdictIsOnes ==
  ASSUME validators \in ValidatorLists, NEW t, NEW keySet, Verdict(t, keySet) # "refused"
  PROVE  \E i \in DOMAIN validators : Verdict(t, keySet) = ValidateAccessToken(validators[i], t, keySet)
<1> DEFINE V == [i \in DOMAIN validators |-> ValidateAccessToken(validators[i], t, keySet)]
           handled == {i \in DOMAIN V : V[i] # "not mine"}
           first == CHOOSE i \in handled : \A j \in handled : i <= j
<1>1. handled # {} /\ Verdict(t, keySet) = V[first]
  BY DEF Verdict
<1>2. DOMAIN validators \in SUBSET Nat
  BY ChainAssumption
<1>3. handled \in SUBSET Nat
  BY <1>2
<1>4. first \in handled
  <2> HIDE DEF handled
  <2>1. \E i \in handled : \A j \in handled : i <= j
    BY <1>1, <1>3, LeastExists
  <2> QED
    BY <2>1
<1>5. first \in DOMAIN validators
  BY <1>4
<1> HIDE DEF first
<1> QED
  BY <1>1, <1>5

\* So does the chain of them, whichever handles the token first.
LEMMA AcceptedIsVouched ==
  ASSUME ChecksSignatures, validators \in ValidatorLists,
         NEW t, t.exp \in Nat, wall \in Nat, NEW keySet, Verdict(t, keySet) = "accepted"
  PROVE  Vouched(t, wall)
<1>1. PICK i \in DOMAIN validators : ValidateAccessToken(validators[i], t, keySet) = "accepted"
  BY VerdictIsOnes
<1>2. /\ validators[i].kind \in {"keys", "issuer"}
      /\ validators[i].kind = "keys" => validators[i].signature
  BY ChainAssumption DEF ChecksSignatures
<1> QED
  BY <1>1, <1>2, ValidatorVouches

\* The two interceptors make the same of a verdict, in a different order.
LEMMA UnaryIsStream ==
  ASSUME NEW verdict, NEW header, NEW anonymous \in BOOLEAN
  PROVE  UnaryPrincipal(verdict, header, anonymous) = StreamPrincipal(verdict, header, anonymous)
<1>1. CASE verdict = "accepted"
  BY <1>1 DEF UnaryPrincipal, StreamPrincipal
<1>2. CASE verdict # "accepted" /\ (anonymous \/ verdict = "no token")
  BY <1>2 DEF UnaryPrincipal, StreamPrincipal
<1>3. CASE verdict # "accepted" /\ ~anonymous /\ verdict # "no token"
  BY <1>3 DEF UnaryPrincipal, StreamPrincipal
<1> QED
  BY <1>1, <1>2, <1>3

\* What ClaimsOf makes has the type it was asked for.
LEMMA TypeOfClaims ==
  ASSUME NEW type, NEW values, NEW c \in ClaimsOf(type, values)
  PROVE  c.type = type
BY DEF ClaimsOf

\* A certificate's claims come with a verified chain.
LEMMA CertClaims ==
  ASSUME NEW conn, NEW c \in addPeerCertClaims(conn)
  PROVE  c.type \in MTLSClaims /\ conn.verified
<1>1. /\ conn.verified
      /\ \/ c \in ClaimsOf("mtls_verified", {"true"})
         \/ c \in ClaimsOf("mtls_cn", {conn.cert} \ {""})
         \/ c \in ClaimsOf("mtls_fingerprint", {conn.cert})
  BY DEF addPeerCertClaims, verifiedClientCert
<1>2. c.type \in MTLSClaims
  BY <1>1, TypeOfClaims DEF MTLSClaims
<1> QED
  BY <1>1, <1>2

\* An accepted header carries a token that is vouched for.
LEMMA AcceptedHeader ==
  ASSUME ChecksSignatures, PrincipalInv, NEW header \in Headers, NEW keySet,
         _validate(header, keySet) = "accepted"
  PROVE  header.kind = "bearer" /\ Vouched(header.token, wall)
<1>1. header.kind # "absent" /\ header.kind # "malformed"
  BY DEF _validate
<1>2. PICK t \in Others \union {x.token : x \in minted} : header = [kind |-> "bearer", token |-> t]
  BY <1>1 DEF Headers
<1>3. header.kind = "bearer" /\ header.token = t
  BY <1>2
<1>4. Verdict(t, keySet) = "accepted"
  BY <1>3 DEF _validate
<1>5. wall \in Nat /\ t.exp \in Nat
  <2>1. CASE t \in Others
    BY <2>1, ChainAssumption DEF PrincipalInv, MintingInv
  <2>2. ASSUME NEW x \in minted, t = x.token PROVE t.exp \in Nat
    BY <2>2, ChainAssumption DEF PrincipalInv, MintingInv, TokenOK
  <2> QED
    BY <2>1, <2>2 DEF PrincipalInv, MintingInv
<1> QED
  BY <1>3, <1>4, <1>5, AcceptedIsVouched DEF PrincipalInv

\* Serving a request makes its principal as it should be.
LEMMA ServeEarns ==
  ASSUME ChecksSignatures, PrincipalInv, NEW header \in Headers, NEW conn, NEW keySet,
         NEW anonymous \in BOOLEAN, Serve(header, conn, keySet, anonymous)
  PROVE  PrincipalIsEarned'
<1> DEFINE verdict == _validate(header, keySet)
           own == addPeerCertClaims(conn)
           given == UnaryPrincipal(verdict, header, anonymous)
<1>1. /\ last'.ran = "handler" => (verdict = "accepted" \/ verdict = "no token" \/ anonymous)
      /\ last'.header = header /\ last'.conn = conn /\ last'.at = wall
      /\ last'.unary = own \union given
      /\ last'.stream = own \union StreamPrincipal(verdict, header, anonymous)
  BY DEF Serve
<1>2. anonymous => last'.open
  BY DEF Serve
<1>3. last'.unary = last'.stream
  BY <1>1, UnaryIsStream
<1>4. \A c \in own : c.type \in MTLSClaims /\ conn.verified
  BY CertClaims
<1>5. CASE verdict = "accepted"
  <2>1. header.kind = "bearer" /\ Vouched(header.token, wall)
    BY <1>5, AcceptedHeader
  <2>2. \A c \in given : c.type \notin MTLSClaims
    <3>1. SUFFICES ASSUME NEW c \in given PROVE c.type \notin MTLSClaims
      OBVIOUS
    <3>2. c \in WithoutReserved(ClaimsPrincipalFromClaimsMap(privateClaims(header.token)))
          \/ c \in ClaimsOf("sub", {header.token.sub} \ {""})
      BY <1>5 DEF UnaryPrincipal, Subject
    <3>3. ASSUME c \in ClaimsOf("sub", {header.token.sub} \ {""}) PROVE c.type \notin MTLSClaims
      BY <3>3, TypeOfClaims DEF MTLSClaims
    <3> QED
      BY <3>2, <3>3 DEF WithoutReserved
  <2>3. Vouched(header.token, wall)'
    BY <2>1 DEF Vouched, Serve
  <2> QED
    BY <1>1, <1>3, <1>4, <2>1, <2>2, <2>3 DEF PrincipalIsEarned, Vouched
<1>6. CASE verdict # "accepted" /\ (verdict = "no token" \/ anonymous)
  <2>1. given = AnonymousSubject
    BY <1>6 DEF UnaryPrincipal
  <2>2. verdict = "no token" => header.kind = "absent"
    <3>1. Verdict(header.token, keySet) # "no token"
      <4>1. SUFFICES ASSUME Verdict(header.token, keySet) # "refused"
                     PROVE  Verdict(header.token, keySet) # "no token"
        OBVIOUS
      <4>2. PICK i \in DOMAIN validators :
               Verdict(header.token, keySet) = ValidateAccessToken(validators[i], header.token, keySet)
        BY <4>1, VerdictIsOnes DEF PrincipalInv
      <4>3. Verdict(header.token, keySet) \in {"accepted", "refused", "not mine"}
        BY <4>2, ThreeVerdicts
      <4> QED
        BY <4>3
    <3> QED
      BY <3>1 DEF _validate
  <2> QED
    BY <1>1, <1>2, <1>3, <1>4, <1>6, <2>1, <2>2 DEF PrincipalIsEarned
<1>7. CASE verdict # "accepted" /\ verdict # "no token" /\ ~anonymous
  BY <1>1, <1>7 DEF PrincipalIsEarned
<1> QED
  BY <1>5, <1>6, <1>7

\* With validators that check signatures, whatever token, certificate and
\* header a request brings, its handler sees no claim it has not earned (the
\* JWT interceptors with addPeerCertClaims and WithoutReserved).
THEOREM PrincipalTheorem ==
  ASSUME ChecksSignatures PROVE ChainSpec => []PrincipalIsEarned
<1>1. ChainInit => validators \in ValidatorLists /\ PrincipalIsEarned
  BY DEF ChainInit, PrincipalIsEarned
<1>2. ASSUME PrincipalInv, [ChainNext]_chainVars
      PROVE  (validators \in ValidatorLists)' /\ PrincipalIsEarned'
  <2>1. ASSUME UNCHANGED <<validators, last>> PROVE (validators \in ValidatorLists)' /\ PrincipalIsEarned'
    BY <1>2, <2>1 DEF PrincipalInv, PrincipalIsEarned, Vouched
  <2>2. CASE Pass
    BY <2>1, <2>2 DEF Pass
  <2>3. ASSUME NEW m \in Minters, BuildClaims(m) \/ GetKey(m) \/ MintToken(m)
        PROVE  (validators \in ValidatorLists)' /\ PrincipalIsEarned'
    BY <2>1, <2>3 DEF BuildClaims, GetKey, MintToken
  <2>4. CASE Served
    BY <1>2, <2>4 DEF Served, PrincipalInv, PrincipalIsEarned
  <2>5. ASSUME NEW header \in Headers, NEW conn \in Connections, NEW keySet \in FetchedKeys,
               NEW anonymous \in BOOLEAN, Serve(header, conn, keySet, anonymous)
        PROVE  (validators \in ValidatorLists)' /\ PrincipalIsEarned'
    <3>1. PrincipalIsEarned'
      BY <1>2, <2>5, ServeEarns
    <3> QED
      BY <1>2, <2>5, <3>1 DEF Serve, PrincipalInv
  <2>6. CASE UNCHANGED chainVars
    BY <2>1, <2>6 DEF chainVars
  <2> QED
    BY <1>2, <2>2, <2>3, <2>4, <2>5, <2>6 DEF ChainNext
<1> QED
  BY <1>1, <1>2, MintingInvariant, PTL DEF ChainSpec, PrincipalInv

-----------------------------------------------------------------------------
(* KeyMaterial.  KeyInv is inductive, for any callers, keys, windows and   *)
(* time.                                                                   *)

USE DEF Never

\* No boundary lies between the build and nextFetchTime (nextKeyBoundary), so
\* the set that was built is in force at every instant up to it.
LEMMA InForceUpToBoundary ==
    ASSUME TypeOK,
           NEW b \in Nat, NEW n \in Nat, NEW t \in Nat,
           b <= t, t <= n,
           \A x \in Boundaries : x >= b => x >= n
    PROVE  InForce(Active(b), t)
<1>1. \A k \in Keys : /\ notBefore[k] \in Nat /\ notAfter[k] \in Nat
                      /\ notBefore[k] \in Boundaries /\ notAfter[k] \in Boundaries
  BY DEF TypeOK, Boundaries
<1>2. \A k \in Keys : (notBefore[k] >= b => notBefore[k] >= n)
                      /\ (notAfter[k] >= b => notAfter[k] >= n)
  BY <1>1
<1>3. CASE t = b
  BY <1>3 DEF InForce
<1>4. CASE t # b
  <2>1. \A k \in Keys : (notBefore[k] < b /\ b < notAfter[k])
                         <=> (notBefore[k] < t /\ t <= notAfter[k])
    <3> TAKE k \in Keys
    <3>1. notBefore[k] \in Nat /\ notAfter[k] \in Nat
      BY <1>1
    <3>2. (notBefore[k] >= b => notBefore[k] >= n) /\ (notAfter[k] >= b => notAfter[k] >= n)
      BY <1>2
    <3>3. b < t
      BY <1>4
    <3> QED
      BY <3>1, <3>2, <3>3
  <2>2. Active(b) = {k \in Keys : notBefore[k] < t /\ t <= notAfter[k]}
    BY <2>1 DEF Active, isActive
  <2> QED
    BY <2>2 DEF InForce
<1> QED
  BY <1>3, <1>4

\* The initial states satisfy the invariant: nothing is built, nobody is in a
\* call.
LEMMA KeyInvInit == Init => KeyInv
<1> SUFFICES ASSUME Init PROVE KeyInv
  OBVIOUS
<1> USE KeysAssumption DEF Init
<1>1. TypeOK
  <2>1. clock \in 0..MaxTime /\ builtAt \in 0..MaxTime /\ nextFetchTime \in 0..Never
    OBVIOUS
  <2>2. now \in [Callers -> 0..MaxTime]
    OBVIOUS
  <2>3. answer \in [Callers -> [key: Keys \union {None}, jwks: SUBSET Keys]]
    OBVIOUS
  <2>4. pc \in [Callers -> {"idle", "check", "lock", "read", "done", "failed"}]
    OBVIOUS
  <2>5. /\ notBefore \in [Keys -> 0..MaxTime]
        /\ notAfter \in [Keys -> 0..MaxTime]
        /\ decrypts \subseteq Keys
        /\ signingKey \in Keys \union {None}
        /\ jwks \subseteq Keys
    OBVIOUS
  <2> QED
    BY <2>1, <2>2, <2>3, <2>4, <2>5 DEF TypeOK
<1>2. CacheIsCurrent
  BY DEF CacheIsCurrent
<1>3. AnswerIsOfTheCall
  BY DEF AnswerIsOfTheCall
<1>4. \A c \in Callers : now[c] <= clock
  <2>1. \A c \in Callers : now[c] = 0
    OBVIOUS
  <2>2. clock = 0 /\ 0 <= 0
    OBVIOUS
  <2> QED
    BY <2>1, <2>2
<1>5. \A c \in Callers : pc[c] # "read"
  OBVIOUS
<1> QED
  BY <1>1, <1>2, <1>3, <1>4, <1>5 DEF KeyInv

\* The types of what a caller's steps write.
LEMMA TypeStep == TypeOK /\ [Next]_vars => TypeOK'
<1> SUFFICES ASSUME TypeOK, [Next]_vars PROVE TypeOK'
  OBVIOUS
<1> USE KeysAssumption DEF TypeOK
<1>1. CASE Tick
  BY <1>1 DEF Tick, config, cache
<1>2. ASSUME NEW c \in Callers, Call(c) PROVE TypeOK'
  BY <1>2 DEF Call, At, config, cache
<1>3. ASSUME NEW c \in Callers, Check(c) PROVE TypeOK'
  BY <1>3 DEF Check, At, config, cache
<1>4. ASSUME NEW c \in Callers, Reload(c) PROVE TypeOK'
  <2>1. UNCHANGED <<config, clock, now, answer>>
    BY <1>4 DEF Reload
  <2>2. pc' \in [Callers -> {"idle", "check", "lock", "read", "done", "failed"}]
    BY <1>4 DEF Reload, At
  <2>3. CASE UNCHANGED cache
    BY <2>1, <2>2, <2>3 DEF config, cache
  <2>4. ASSUME NEW k \in Keys, NEW t \in Boundaries \union {Never},
               nextFetchTime' = t, Rebuilt(k, now[c])
        PROVE  TypeOK'
    <3>1. t \in 0..Never
      BY DEF Boundaries
    <3>2. signingKey' \in Keys /\ jwks' \subseteq Keys /\ builtAt' \in 0..MaxTime
      BY <2>4 DEF Rebuilt, Active
    <3> QED
      BY <2>1, <2>2, <2>4, <3>1, <3>2 DEF config
  <2> QED
    BY <1>4, <2>3, <2>4 DEF Reload
<1>5. ASSUME NEW c \in Callers, Read(c) PROVE TypeOK'
  BY <1>5 DEF Read, At, config, cache
<1>6. CASE UNCHANGED vars
  BY <1>6 DEF vars, config, cache
<1> QED
  BY <1>1, <1>2, <1>3, <1>4, <1>5, <1>6 DEF Next, Caller

\* The windows never change, so what is in force when does not either.
LEMMA ConfigFixed ==
    ASSUME [Next]_vars
    PROVE  /\ UNCHANGED config
           /\ Boundaries' = Boundaries
           /\ \A t : Active(t)' = Active(t)
           /\ \A S, t : InForce(S, t)' <=> InForce(S, t)
<1>1. UNCHANGED config
  BY DEF Next, Caller, vars, Tick, Call, Check, Reload, Read
<1> QED
  BY <1>1 DEF config, Boundaries, Active, isActive, InForce

\* The part of the invariant that is about the cache.
CacheInv ==
    /\ CacheIsCurrent
    /\ signingKey # None =>
          \A b \in Boundaries : b >= builtAt => b >= nextFetchTime
    /\ signingKey = None => builtAt = 0

\* A step that leaves the cache alone keeps it current: when the clock moves up
\* to nextFetchTime the set is still in force.
LEMMA CacheFrame ==
    ASSUME KeyInv, [Next]_vars, UNCHANGED cache, TypeOK', clock' \in {clock, clock + 1}
    PROVE  CacheInv'
<1> SUFFICES ASSUME signingKey # None PROVE CacheInv'
  BY DEF CacheInv, CacheIsCurrent, cache, KeyInv
<1>1. /\ builtAt <= nextFetchTime /\ builtAt <= clock
      /\ jwks = Active(builtAt)
      /\ signingKey \in jwks \intersect decrypts
      /\ \A b \in Boundaries : b >= builtAt => b >= nextFetchTime
      /\ TypeOK
  BY DEF KeyInv, CacheIsCurrent
<1>2. builtAt \in Nat /\ nextFetchTime \in Nat /\ clock \in Nat
  BY <1>1, KeysAssumption DEF TypeOK
<1>3. \A t \in builtAt..clock' : t <= nextFetchTime => InForce(jwks, t)
  <2> TAKE t \in builtAt..clock'
  <2> HAVE t <= nextFetchTime
  <2>1. t \in Nat /\ builtAt <= t
    BY <1>2
  <2> QED
    BY <1>1, <1>2, <2>1, InForceUpToBoundary
<1>4. PICK b, n, J, s : b = builtAt /\ n = nextFetchTime /\ J = jwks /\ s = signingKey
  OBVIOUS
<1>5. b = builtAt' /\ n = nextFetchTime' /\ J = jwks' /\ s = signingKey'
  BY <1>4 DEF cache
<1>6. decrypts' = decrypts /\ Boundaries' = Boundaries /\ Active(b)' = Active(b)
      /\ \A t : InForce(J, t)' <=> InForce(J, t)
  BY ConfigFixed DEF config
<1>7. b <= clock'
  BY <1>1, <1>2, <1>4
<1> QED
  BY <1>1, <1>3, <1>4, <1>5, <1>6, <1>7 DEF CacheInv, CacheIsCurrent

\* What AnswerIsOfTheCall says of one caller.
AnswerOK(c) ==
    /\ \E t \in now[c]..clock : InForce(answer[c].jwks, t)
    /\ answer[c].key \in answer[c].jwks \intersect decrypts

\* An answer once given stays an answer of its call.
LEMMA AnswerFrame ==
    ASSUME KeyInv, [Next]_vars, clock' \in {clock, clock + 1},
           NEW d \in Callers, pc'[d] = "done", pc[d] = "done",
           now'[d] = now[d], answer'[d] = answer[d]
    PROVE  AnswerOK(d)'
<1>1. clock \in Nat /\ now[d] \in Nat
  BY KeysAssumption DEF KeyInv, TypeOK
<1>2. PICK t \in now[d]..clock : InForce(answer[d].jwks, t)
  BY DEF KeyInv, AnswerIsOfTheCall
<1>3. PICK J : J = answer[d].jwks /\ J = answer'[d].jwks
  OBVIOUS
<1>4. InForce(J, t)'
  BY <1>2, <1>3, ConfigFixed
<1>5. t \in now'[d]..clock'
  BY <1>1, <1>2
<1>6. answer'[d].key \in answer'[d].jwks \intersect decrypts'
  BY ConfigFixed DEF KeyInv, AnswerIsOfTheCall, config
<1> QED
  BY <1>3, <1>4, <1>5, <1>6 DEF AnswerOK, InForce, Active, isActive

\* What KeyInv says of one caller's clock reading.
CallerOK(c) ==
    /\ now[c] <= clock
    /\ pc[c] = "read" => signingKey # None /\ now[c] <= nextFetchTime

\* The parts of KeyInv.
LEMMA KeyInvParts ==
    KeyInv <=> /\ TypeOK
               /\ CacheInv
               /\ \A c \in Callers : CallerOK(c)
               /\ \A c \in Callers : pc[c] = "done" => AnswerOK(c)
  BY DEF KeyInv, CacheInv, CallerOK, AnswerOK, AnswerIsOfTheCall

\* Every step preserves KeyInv.
LEMMA KeyInvNext == KeyInv /\ [Next]_vars => KeyInv'
<1> SUFFICES ASSUME KeyInv, [Next]_vars PROVE KeyInv'
  OBVIOUS
<1>t. TypeOK /\ TypeOK'
  BY TypeStep DEF KeyInv
<1>n. /\ clock \in Nat /\ nextFetchTime \in Nat /\ builtAt \in Nat
      /\ \A c \in Callers : now[c] \in Nat
  BY <1>t, KeysAssumption DEF TypeOK
<1>k. CacheInv /\ \A c \in Callers : CallerOK(c)
  BY KeyInvParts
<1>s. SUFFICES /\ CacheInv'
               /\ \A d \in Callers : CallerOK(d)'
               /\ \A d \in Callers : pc'[d] = "done" => AnswerOK(d)'
  BY <1>t, KeyInvParts DEF KeyInv, CacheInv, CallerOK, AnswerOK, AnswerIsOfTheCall
<1>1. CASE Tick
  <2>1. UNCHANGED <<cache, pc, now, answer>> /\ clock' = clock + 1
    BY <1>1 DEF Tick
  <2>2. CacheInv'
    BY <1>t, <2>1, CacheFrame
  <2>3. \A d \in Callers : CallerOK(d)'
    BY <1>k, <1>n, <2>1 DEF CallerOK, cache
  <2>4. \A d \in Callers : pc'[d] = "done" => AnswerOK(d)'
    BY <2>1, AnswerFrame
  <2> QED
    BY <2>2, <2>3, <2>4
<1>2. ASSUME NEW c \in Callers, Call(c)
      PROVE  /\ CacheInv'
             /\ \A d \in Callers : CallerOK(d)'
             /\ \A d \in Callers : pc'[d] = "done" => AnswerOK(d)'
  <2>1. UNCHANGED <<cache, clock, answer>>
    BY <1>2 DEF Call
  <2>2. \A d \in Callers : d # c => pc'[d] = pc[d] /\ now'[d] = now[d]
    BY <1>2, <1>t DEF Call, At, TypeOK
  <2>3. pc'[c] = "check" /\ now'[c] = clock
    BY <1>2, <1>t DEF Call, At, TypeOK
  <2>4. CacheInv'
    BY <1>t, <2>1, CacheFrame
  <2>5. \A d \in Callers : CallerOK(d)'
    BY <1>k, <1>n, <2>1, <2>2, <2>3 DEF CallerOK, cache
  <2>6. \A d \in Callers : pc'[d] = "done" => AnswerOK(d)'
    BY <2>1, <2>2, <2>3, AnswerFrame
  <2> QED
    BY <2>4, <2>5, <2>6
<1>3. ASSUME NEW c \in Callers, Check(c)
      PROVE  /\ CacheInv'
             /\ \A d \in Callers : CallerOK(d)'
             /\ \A d \in Callers : pc'[d] = "done" => AnswerOK(d)'
  <2>1. UNCHANGED <<cache, clock, now, answer>>
    BY <1>3 DEF Check
  <2>2. \A d \in Callers : d # c => pc'[d] = pc[d]
    BY <1>3, <1>t DEF Check, At, TypeOK
  <2>3. pc'[c] = IF reloadDue(now[c]) THEN "lock" ELSE "read"
    BY <1>3, <1>t DEF Check, At, TypeOK
  <2>4. CacheInv'
    BY <1>t, <2>1, CacheFrame
  <2>5. CallerOK(c)'
    BY <1>k, <1>n, <2>1, <2>3 DEF CallerOK, cache, reloadDue
  <2>6. \A d \in Callers : CallerOK(d)'
    BY <1>k, <2>1, <2>2, <2>5 DEF CallerOK, cache
  <2>7. \A d \in Callers : pc'[d] = "done" => AnswerOK(d)'
    BY <2>1, <2>2, <2>3, AnswerFrame
  <2> QED
    BY <2>4, <2>6, <2>7
<1>4. ASSUME NEW c \in Callers, Reload(c)
      PROVE  /\ CacheInv'
             /\ \A d \in Callers : CallerOK(d)'
             /\ \A d \in Callers : pc'[d] = "done" => AnswerOK(d)'
  <2>1. UNCHANGED <<clock, now, answer>>
    BY <1>4 DEF Reload
  <2>2. \A d \in Callers : d # c => pc'[d] = pc[d]
    BY <1>4, <1>t DEF Reload, At, TypeOK
  <2>3. pc'[c] \in {"read", "failed"}
    BY <1>4, <1>t DEF Reload, At, TypeOK
  <2>4. \A d \in Callers : pc'[d] = "done" => AnswerOK(d)'
    BY <2>1, <2>2, <2>3, AnswerFrame
  <2>5. CASE UNCHANGED cache /\ pc'[c] = "failed"
    <3>1. CacheInv'
      BY <1>t, <2>1, <2>5, CacheFrame
    <3>2. \A d \in Callers : CallerOK(d)'
      BY <1>k, <2>1, <2>2, <2>5 DEF CallerOK, cache
    <3> QED
      BY <2>4, <3>1, <3>2
  <2>6. CASE UNCHANGED cache /\ ~reloadDue(now[c])
    <3>1. CacheInv'
      BY <1>t, <2>1, <2>6, CacheFrame
    <3>2. CallerOK(c)'
      BY <1>k, <1>n, <2>1, <2>6 DEF CallerOK, cache, reloadDue
    <3>3. \A d \in Callers : CallerOK(d)'
      BY <1>k, <2>1, <2>2, <2>6, <3>2 DEF CallerOK, cache
    <3> QED
      BY <2>4, <3>1, <3>3
  <2>7. ASSUME NEW k \in Keys, NEW n \in Boundaries \union {Never}, NEW b,
               b = now[c], reloadDue(b), nextFetchTime' = n, Rebuilt(k, b)
        PROVE  CacheInv' /\ \A d \in Callers : CallerOK(d)'
    <3>1. b \in Nat /\ n \in Nat /\ b <= n /\ b <= clock
      <4>1. n \in Nat
        BY <1>t, KeysAssumption DEF Boundaries, TypeOK
      <4>2. isNextBoundary(n, b)
        BY <2>7 DEF Rebuilt, isNextBoundary, Boundaries
      <4> QED
        BY <1>n, <1>k, <2>7, <4>1, <4>2 DEF isNextBoundary, CallerOK
    <3>2. \A x \in Boundaries : x >= b => x >= n
      <4>1. isNextBoundary(n, b)
        BY <2>7 DEF Rebuilt, isNextBoundary, Boundaries
      <4>2. Boundaries \subseteq Nat
        BY <1>t DEF Boundaries, TypeOK
      <4> QED
        BY <3>1, <4>1, <4>2 DEF isNextBoundary
    <3>3. \A t \in b..clock : t <= n => InForce(Active(b), t)
      BY <1>t, <1>n, <3>1, <3>2, InForceUpToBoundary
    <3>4. /\ signingKey' = k /\ k \in Active(b) \intersect decrypts
          /\ jwks' = Active(b) /\ builtAt' = b
      BY <2>7 DEF Rebuilt, isLastActive
    <3>5. PICK J : J = Active(b)
      OBVIOUS
    <3>6. decrypts' = decrypts /\ Boundaries' = Boundaries /\ Active(b)' = Active(b)
          /\ \A t : InForce(J, t)' <=> InForce(J, t)
      BY ConfigFixed DEF config
    <3>7. \A t \in b..clock' : t <= n => InForce(J, t)'
      BY <2>1, <3>3, <3>5, <3>6
    <3>8. CacheIsCurrent'
      BY <2>1, <2>7, <3>1, <3>4, <3>5, <3>6, <3>7
      DEF CacheIsCurrent
    <3>9. CacheInv'
      BY <2>7, <3>2, <3>4, <3>6, <3>8, KeysAssumption DEF CacheInv
    <3>10. \A d \in Callers : CallerOK(d)'
      <4> SUFFICES ASSUME NEW d \in Callers PROVE CallerOK(d)'
        OBVIOUS
      <4>1. now'[d] <= clock'
        BY <1>k, <2>1 DEF CallerOK
      <4>2. signingKey' # None
        BY <3>4, KeysAssumption
      <4>3. CASE d = c
        BY <2>1, <2>7, <3>1, <4>1, <4>2, <4>3 DEF CallerOK
      <4>4. CASE d # c /\ pc[d] = "read"
        <5>1. signingKey # None /\ now[d] <= nextFetchTime
          BY <1>k, <4>4 DEF CallerOK
        <5>2. nextFetchTime < b
          BY <1>n, <2>7, <3>1, <5>1 DEF reloadDue
        <5>3. now[d] <= n
          BY <1>n, <3>1, <5>1, <5>2
        <5> QED
          BY <2>1, <2>7, <4>1, <4>2, <5>3 DEF CallerOK
      <4>5. CASE d # c /\ pc[d] # "read"
        BY <2>2, <4>1, <4>5 DEF CallerOK
      <4> QED
        BY <4>3, <4>4, <4>5
    <3> QED
      BY <3>9, <3>10
  <2> QED
    BY <1>4, <1>t, <2>4, <2>5, <2>6, <2>7 DEF Reload, At, TypeOK
<1>5. ASSUME NEW c \in Callers, Read(c)
      PROVE  /\ CacheInv'
             /\ \A d \in Callers : CallerOK(d)'
             /\ \A d \in Callers : pc'[d] = "done" => AnswerOK(d)'
  <2>1. UNCHANGED <<cache, clock, now>>
    BY <1>5 DEF Read
  <2>2. \A d \in Callers : d # c => pc'[d] = pc[d] /\ answer'[d] = answer[d]
    BY <1>5, <1>t DEF Read, At, TypeOK
  <2>3. pc'[c] = "done" /\ answer'[c] = [key |-> signingKey, jwks |-> jwks]
    BY <1>5, <1>t DEF Read, At, TypeOK
  <2>4. CacheInv'
    BY <1>t, <2>1, CacheFrame
  <2>5. \A d \in Callers : CallerOK(d)'
    BY <1>k, <2>1, <2>2, <2>3 DEF CallerOK, cache
  <2>6. AnswerOK(c)'
    <3>1. signingKey # None /\ now[c] <= nextFetchTime /\ now[c] <= clock
      BY <1>5, <1>k DEF Read, CallerOK
    <3>2. /\ jwks = Active(builtAt) /\ builtAt <= clock
          /\ signingKey \in jwks \intersect decrypts
          /\ \A t \in builtAt..clock : t <= nextFetchTime => InForce(jwks, t)
      BY <3>1, <1>k DEF CacheInv, CacheIsCurrent
    <3>3. \E t \in now[c]..clock : InForce(jwks, t)
      <4>1. CASE builtAt >= now[c]
        BY <1>n, <3>2, <4>1 DEF InForce
      <4>2. CASE builtAt < now[c]
        BY <1>n, <3>1, <3>2, <4>2
      <4> QED
        BY <1>n, <4>1, <4>2
    <3>4. PICK t \in now[c]..clock : InForce(jwks, t)
      BY <3>3
    <3>j. PICK J : J = jwks
      OBVIOUS
    <3>5. InForce(J, t)' /\ J = answer'[c].jwks /\ t \in now'[c]..clock'
      BY <2>1, <2>3, <3>4, <3>j, ConfigFixed
    <3>6. answer'[c].key \in answer'[c].jwks \intersect decrypts'
      BY <2>3, <3>2, ConfigFixed DEF config
    <3> QED
      BY <3>5, <3>6 DEF AnswerOK, InForce, Active, isActive
  <2>7. \A d \in Callers : pc'[d] = "done" => AnswerOK(d)'
    BY <2>1, <2>2, <2>6, AnswerFrame
  <2> QED
    BY <2>4, <2>5, <2>7
<1>6. CASE UNCHANGED vars
  <2>1. UNCHANGED <<config, clock, cache, pc, now, answer>>
    BY <1>6 DEF vars
  <2>2. CacheInv'
    BY <1>t, <2>1, CacheFrame
  <2>3. \A d \in Callers : CallerOK(d)'
    BY <1>k, <2>1 DEF CallerOK, cache
  <2>4. \A d \in Callers : pc'[d] = "done" => AnswerOK(d)'
    BY <2>1, AnswerFrame
  <2> QED
    BY <2>2, <2>3, <2>4
<1> QED
  BY <1>1, <1>2, <1>3, <1>4, <1>5, <1>6 DEF Next, Caller

\* KeyInv holds in every reachable state of the service.
THEOREM KeyInvariant == Spec => []KeyInv
  BY KeyInvInit, KeyInvNext, PTL DEF Spec

\* A caller is given the key set of an instant of its own call, however long it
\* waited for the locks, and a signing key of that set (_reloadKeys).
THEOREM AnswerCorrect == Spec => []AnswerIsOfTheCall
<1>1. KeyInv => AnswerIsOfTheCall
  BY DEF KeyInv
<1> QED
  BY <1>1, KeyInvariant, PTL

\* A rebuild never replaces a later one (the second look of _reloadKeys).
THEOREM NeverBackInTime == Spec => BuildsGoForward
<1>1. KeyInv /\ [Next]_vars => [builtAt' >= builtAt]_vars
  <2> SUFFICES ASSUME KeyInv, [Next]_vars PROVE builtAt' >= builtAt
    OBVIOUS
  <2>1. builtAt \in Nat /\ nextFetchTime \in Nat /\ \A c \in Callers : now[c] \in Nat
    BY KeysAssumption DEF KeyInv, TypeOK
  <2>2. CASE UNCHANGED cache
    BY <2>1, <2>2 DEF cache
  <2>3. ASSUME NEW c \in Callers, NEW k \in Keys,
               reloadDue(now[c]), Rebuilt(k, now[c])
        PROVE  builtAt' >= builtAt
    <3>1. builtAt' = now[c]
      BY <2>3 DEF Rebuilt
    <3>2. CASE signingKey = None
      <4>1. builtAt = 0
        BY <3>2 DEF KeyInv
      <4> QED
        BY <2>1, <3>1, <4>1
    <3>3. CASE signingKey # None
      BY <2>1, <2>3, <3>1, <3>3 DEF reloadDue, KeyInv, CacheIsCurrent
    <3> QED
      BY <3>2, <3>3
  <2> QED
    BY <2>2, <2>3 DEF Next, Caller, vars, Tick, Call, Check, Reload, Read
<1> QED
  BY <1>1, KeyInvariant, PTL DEF Spec, BuildsGoForward

=============================================================================
