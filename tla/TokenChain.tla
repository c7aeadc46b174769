----------------------------- MODULE TokenChain -----------------------------
(***************************************************************************)
(* A token's way from the minter to the claims of a request.  Minters      *)
(* build claims, get the signing key in force and sign, while time passes  *)
(* and keys rotate; requests present minted and other tokens, or none, on  *)
(* connections with and without a client certificate, and the JWT and the  *)
(* mTLS interceptors make the request's principal of them.                 *)
(***************************************************************************)
EXTENDS Integers, Sequences, FiniteSets

CONSTANTS Minters,        \* goroutines in MintToken
          SigningKeys,    \* the configured keys, in order
          Life,           \* how long minted tokens live
          KeySkew,        \* ClockSkewMinutes of the key material validator
          IssuerSkew,     \* the issuer validators' five minutes
          ValidatorLists, \* what _loadValidators may find
          Others,         \* tokens nobody minted here
          MaxMinted,      \* bound: with so many tokens out no further one is begun
          ChainEnd        \* bound: the clock stops here

\* A configured key, in one of the forms it may be stored in.
StoredForms == {"no pem", "plain", "pkcs8", "legacy", "legacy, malformed"}
KeyRecords ==
    [kid : STRING, alg : STRING, pem : STRING, stored : StoredForms, password : BOOLEAN,
     notBefore : Int, notAfter : Int]

\* A kid names one key.
ASSUME ChainAssumption ==
    /\ {Life, KeySkew, IssuerSkew, ChainEnd} \subseteq Nat
    /\ SigningKeys \in Seq(KeyRecords)
    /\ \A i, j \in DOMAIN SigningKeys : SigningKeys[i].kid = SigningKeys[j].kid => i = j
    /\ \A t \in Others : t.iat \in Nat /\ t.exp \in Nat
    /\ \A V \in ValidatorLists : /\ DOMAIN V = 1 .. Len(V)
                                 /\ \A i \in DOMAIN V : V[i].kind \in {"nil", "keys", "issuer"}

VARIABLES wall,           \* the time
          parsed,         \* the minter's parsed key: of which alg and PEM
          minter,         \* per minter: what it has so far
          minted,         \* tokens minted, and how long that took
          validators,     \* _validators
          last            \* the request served last
chainVars == <<wall, parsed, minter, minted, validators, last>>

-----------------------------------------------------------------------------
(* The signing key.                                                        *)

IsActive(k, t) == k.notBefore < t /\ t < k.notAfter
ActiveKeys(t) == {i \in DOMAIN SigningKeys : IsActive(SigningKeys[i], t)}

\* OpenSSL's key derivation: the right key from the right password only.
generateKeyFromPassword(k) == k.password

\* What comes of a stored key: itself, an error, or, when a wrong password
\* happens to leave a correct padding, rubbish.
DecryptPEM(k) ==
    CASE k.stored = "no pem" -> {"error"}
      [] k.stored = "plain" -> {k.pem}
      [] k.stored = "pkcs8" -> {IF k.password THEN k.pem ELSE "error"}
      [] k.stored = "legacy" -> IF generateKeyFromPassword(k) THEN {k.pem} ELSE {"error", "rubbish"}
      [] k.stored = "legacy, malformed" -> {"error"}

\* GetSigningKey at an instant (KeyMaterial): the last active key, if any and
\* if it can be decrypted.
GetSigningKey(t) ==
    LET A == ActiveKeys(t)
        k == SigningKeys[CHOOSE i \in A : \A j \in A : j <= i]
    IN  IF A = {} THEN {} ELSE {[k EXCEPT !.pem = p] : p \in DecryptPEM(k) \ {"error"}}

SigningMethods == {"RS256", "RS384", "RS512", "ES256", "ES384", "ES512", "EdDSA"}

\* The PEM parser the algorithm's prefix asks for; rubbish parses as nothing.
Parses(alg, pem) == pem # "rubbish" /\ alg \in SigningMethods

-----------------------------------------------------------------------------
(* Minting.                                                                *)

NoKey == [kid |-> "none", alg |-> "none", pem |-> "none"]
IdleMinter == [pc |-> "idle", iat |-> 0, key |-> NoKey]

ChainInit ==
    /\ wall = 1
    /\ parsed = [alg |-> "none", pem |-> "none"]
    /\ minter = [m \in Minters |-> IdleMinter]
    /\ minted = {}
    /\ validators \in ValidatorLists
    /\ last = [ran |-> "none"]

Pass ==
    /\ wall < ChainEnd
    /\ wall' = wall + 1
    /\ UNCHANGED <<parsed, minter, minted, validators, last>>

\* The application sets iss, sub, iat, exp and its own claims.
BuildClaims(m) ==
    /\ minter[m].pc = "idle" /\ Cardinality(minted) < MaxMinted
    /\ minter' = [minter EXCEPT ![m] = [IdleMinter EXCEPT !.pc = "claims", !.iat = wall]]
    /\ UNCHANGED <<wall, parsed, minted, validators, last>>

\* MintToken: the key; no key or an unknown algorithm ends it.
GetKey(m) ==
    /\ minter[m].pc = "claims"
    /\ \/ \E k \in GetSigningKey(wall) :
            minter' = [minter EXCEPT ![m] =
                         IF k.alg \notin SigningMethods THEN IdleMinter
                         ELSE [@ EXCEPT !.pc = "key", !.key = [kid |-> k.kid, alg |-> k.alg, pem |-> k.pem]]]
       \/ /\ \/ GetSigningKey(wall) = {}
             \/ \E k \in ActiveKeys(wall) : "error" \in DecryptPEM(SigningKeys[k])
          /\ minter' = [minter EXCEPT ![m] = IdleMinter]
    /\ UNCHANGED <<wall, parsed, minted, validators, last>>

\* Mutant of parsedKey: one key per algorithm.
parsedKeyByAlg(key) == IF parsed.alg = key.alg THEN parsed ELSE [alg |-> key.alg, pem |-> key.pem]

\* The key parsed before, while algorithm and PEM are the same.
parsedKey(key) ==
    IF parsed.alg = key.alg /\ parsed.pem = key.pem THEN parsed
    ELSE [alg |-> key.alg, pem |-> key.pem]

\* parsedKey under its mutex, and the signature.
MintToken(m) ==
    LET key == minter[m].key
        use == parsedKey(key)
    IN  /\ minter[m].pc = "key"
        /\ minter' = [minter EXCEPT ![m] = IdleMinter]
        /\ IF Parses(use.alg, use.pem)
           THEN /\ parsed' = use
                /\ minted' = minted \union
                     {[token |-> [kid |-> key.kid, signer |-> use.pem, form |-> "jws", iss |-> "self",
                                  aud |-> {"api"}, iat |-> minter[m].iat, exp |-> minter[m].iat + Life,
                                  sub |-> "alice", claims |-> {"scope"}],
                       took |-> wall - minter[m].iat]}
           ELSE UNCHANGED <<parsed, minted>>
        /\ UNCHANGED <<wall, validators, last>>

-----------------------------------------------------------------------------
(* Validating.                                                             *)

KeyOf(kid) == {k \in {SigningKeys[i] : i \in DOMAIN SigningKeys} : k.kid = kid}
Signed(t, kids) == t.kid \in kids /\ \E k \in KeyOf(t.kid) : k.pem = t.signer

\* jwxt.Validate with a skew and a required exp.
InTime(t, skew) == t.exp # 0 /\ wall <= t.exp + skew /\ (t.iat # 0 => t.iat <= wall + skew)

\* Mutant of checkSigningKeyWindow: the key must be in force now.
checkSigningKeyWindowNow(t) ==
    \E k \in KeyOf(t.kid) : wall >= k.notBefore - KeySkew /\ wall <= k.notAfter + KeySkew

\* A key vouches for tokens issued in its window; without iat, for now.
checkSigningKeyWindow(t) ==
    LET issued == IF t.iat = 0 THEN wall ELSE t.iat
    IN  \E k \in KeyOf(t.kid) : issued >= k.notBefore - KeySkew /\ issued <= k.notAfter + KeySkew

\* KeyMaterialValidator: every configured key, retired ones too.
ParseAccessTokenRaw(v, t) ==
    /\ t.form = "jws"
    /\ v.signature => Signed(t, {SigningKeys[i].kid : i \in DOMAIN SigningKeys}) /\ checkSigningKeyWindow(t)
    /\ v.issuer # "any" => t.iss = v.issuer
    /\ InTime(t, KeySkew)

Lower(iss) == IF iss = "Self" THEN "self" ELSE iss
checkAudienceMatch(t, aud) == aud = "*" \/ aud \in t.aud

\* One validator's verdict: not its token, or handled, with or without an
\* error.  jwks: the issuer's keys as last fetched, or none (JwksRefreshGate).
ValidateAccessToken(v, t, jwks) ==
    IF v.kind = "nil" THEN "accepted"
    ELSE IF v.kind = "keys" THEN (IF ParseAccessTokenRaw(v, t) THEN "accepted" ELSE "not mine")
    ELSE IF Lower(t.iss) # v.issuer THEN "not mine"
    ELSE IF /\ Signed(t, jwks) /\ InTime(t, IssuerSkew)
            /\ v.audiences # {} => \E a \in v.audiences : checkAudienceMatch(t, a)
         THEN "accepted" ELSE "refused"

\* The first validator that handles the token decides.
Verdict(t, jwks) ==
    LET V == [i \in DOMAIN validators |-> ValidateAccessToken(validators[i], t, jwks)]
        handled == {i \in DOMAIN V : V[i] # "not mine"}
    IN  IF handled = {} THEN "refused" ELSE V[CHOOSE i \in handled : \A j \in handled : i <= j]

\* getTokenFromAuthorizationHeader, getRawToken, then the validators.
_validate(header, jwks) ==
    IF header.kind = "absent" THEN "no token"
    ELSE IF header.kind = "malformed" THEN "refused"
    ELSE IF header.token.form # "jws" \/ "" \in {header.token.kid, header.token.iss} THEN "refused"
    ELSE Verdict(header.token, jwks)

-----------------------------------------------------------------------------
(* The interceptors.                                                       *)

ClaimsOf(type, values) == {[type |-> type, value |-> v] : v \in values}

\* Only a chain that TLS itself verified counts.
verifiedClientCert(conn) == conn.tls /\ conn.cert # "none" /\ conn.verified
addPeerCertClaims(conn) ==
    IF verifiedClientCert(conn)
    THEN ClaimsOf("mtls_verified", {"true"}) \union ClaimsOf("mtls_cn", {conn.cert} \ {""})
         \union ClaimsOf("mtls_fingerprint", {conn.cert})
    ELSE {}

\* newJWTToken, privateClaims: all but the registered claims; a permission
\* list or a string becomes claims, anything else is dropped.
privateClaims(t) == t.claims
ClaimsPrincipalFromClaimsMap(types) == UNION {ClaimsOf(type, {"v"}) : type \in types \ {"object"}}

MTLSClaims == {"mtls_verified", "mtls_cn", "mtls_fingerprint"}

\* Mutant of WithoutReserved: what a token says is believed.
WithoutReservedNone(cs) == cs

\* mtls_* claims are the connection's.
WithoutReserved(cs) == {c \in cs : c.type \notin MTLSClaims}
Subject(t) == ClaimsOf("sub", {t.sub} \ {""})

AnonymousSubject == ClaimsOf("sub", {"anonymous"})

\* The unary interceptor tests AnonymousOnFailure and then for NotFound.
UnaryPrincipal(verdict, header, anonymous) ==
    IF verdict # "accepted" /\ anonymous THEN AnonymousSubject
    ELSE IF verdict = "no token" THEN AnonymousSubject
    ELSE IF verdict # "accepted" THEN {}
    ELSE WithoutReserved(ClaimsPrincipalFromClaimsMap(privateClaims(header.token))) \union Subject(header.token)

StreamPrincipal(verdict, header, anonymous) ==
    IF verdict # "accepted"
    THEN IF anonymous \/ verdict = "no token" THEN AnonymousSubject ELSE {}
    ELSE WithoutReserved(ClaimsPrincipalFromClaimsMap(privateClaims(header.token))) \union Subject(header.token)

\* claimsToPropagate: what of the principal goes to the log's property bag.
Propagated(p) == {c \in p : c.type \in {"sub", "client_id", "email", "aud"}}

Headers ==
    {[kind |-> "absent"], [kind |-> "malformed"]}
    \union {[kind |-> "bearer", token |-> t] : t \in Others \union {x.token : x \in minted}}
Connections ==
    {[tls |-> FALSE, cert |-> "none", verified |-> FALSE],
     [tls |-> TRUE, cert |-> "device", verified |-> FALSE], [tls |-> TRUE, cert |-> "device", verified |-> TRUE]}

\* The issuer's keys, as fetched at some instant up to now, or not at all.
FetchedKeys == {{}} \union {{SigningKeys[i].kid : i \in ActiveKeys(t)} : t \in 1 .. wall}

Serve(header, conn, jwks, anonymous) ==
    LET verdict == _validate(header, jwks)
        ran == verdict = "accepted" \/ verdict = "no token" \/ anonymous
        own == addPeerCertClaims(conn)
    IN  /\ last' = [ran |-> IF ran THEN "handler" ELSE "refused", header |-> header, conn |-> conn, at |-> wall, open |-> anonymous,
                    unary |-> own \union UnaryPrincipal(verdict, header, anonymous),
                    stream |-> own \union StreamPrincipal(verdict, header, anonymous),
                    bag |-> Propagated(UnaryPrincipal(verdict, header, anonymous))]
        /\ UNCHANGED <<wall, parsed, minter, minted, validators>>

\* The request is over; it shares nothing with the minters but the clock.
Served == last' = [ran |-> "none"] /\ UNCHANGED <<wall, parsed, minter, minted, validators>>

ChainNext ==
    IF last.ran # "none" THEN Served
    ELSE \/ Pass
         \/ \E m \in Minters : BuildClaims(m) \/ GetKey(m) \/ MintToken(m)
         \/ \E header \in Headers, conn \in Connections, jwks \in FetchedKeys, anonymous \in BOOLEAN :
              Serve(header, conn, jwks, anonymous)

ChainSpec == ChainInit /\ [][ChainNext]_chainVars

-----------------------------------------------------------------------------
OwnValidator == [kind |-> "keys", signature |-> TRUE, issuer |-> "self"]

\* Whoever mints while keys rotate: a token signed within the validator's skew
\* of its iat is accepted for all of its life, although its key is retired or
\* another minter's key was parsed meanwhile (MintToken, parsedKey,
\* ParseAccessTokenRaw, checkSigningKeyWindow).
MintedIsAccepted ==
    \A x \in minted :
      x.took <= KeySkew /\ wall <= x.token.exp => ParseAccessTokenRaw(OwnValidator, x.token)

\* The token was signed with the configured key it names and had not run out.
Vouched(t, at) ==
    /\ \E k \in KeyOf(t.kid) : k.pem = t.signer
    /\ at <= t.exp + IssuerSkew + KeySkew

\* A handler sees the claims of a client certificate only if its own
\* connection's was verified, whatever a token says of itself; every other
\* claim is of a token that was signed with a configured key and has not run
\* out, or is the anonymous subject, which a bad header or token is only given
\* with WithAnonymousOnFailure; and unary and stream calls agree.
PrincipalIsEarned ==
    last.ran = "handler" =>
      /\ last.unary = last.stream
      /\ \A c \in last.unary :
           \/ c.type \in MTLSClaims /\ last.conn.verified
           \/ c \in AnonymousSubject /\ (last.open \/ last.header.kind = "absent")
           \/ c.type \notin MTLSClaims /\ last.header.kind = "bearer" /\ Vouched(last.header.token, last.at)
=============================================================================
