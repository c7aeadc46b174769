------------------------------ MODULE MCTokens ------------------------------
(***************************************************************************)
(* Small instances of what a token depends on: the signing keys, the way   *)
(* from the minter to a principal, and reference tokens.  In a behaviour   *)
(* one of them runs and the others rest.                                   *)
(***************************************************************************)
EXTENDS KeyMaterial, ReferenceToken, TokenChain, TLC

VARIABLE subject     \* the one that runs

tokenVars == <<subject, vars, refVars, chainVars>>

TokensInit ==
    /\ subject \in {"keys", "references", "chain"}
    /\ Init /\ (subject # "keys" => decrypts = {} /\ notBefore = notAfter /\ \A k \in Keys : notAfter[k] = 0)
    /\ RefInit /\ (\A t, u \in DOMAIN exp : exp[t] = exp[u])
    /\ subject # "references" => refConfig.cache /\ refConfig.knownPrefixes /\ \A t \in DOMAIN exp : exp[t] = 0
    /\ ChainInit /\ (subject # "chain" => validators = <<>>)

TokensNext ==
    \/ subject = "keys" /\ Next /\ UNCHANGED <<subject, refVars, chainVars>>
    \/ subject = "references" /\ RefNext /\ UNCHANGED <<subject, vars, chainVars>>
    \/ subject = "chain" /\ ChainNext /\ UNCHANGED <<subject, vars, refVars>>

TokensSpec == TokensInit /\ [][TokensNext]_tokenVars

Symmetry == Permutations(Callers) \union Permutations(Requests) \union Permutations(Minters)

SigningKey(kid, alg, stored, password, from, to) ==
    [kid |-> kid, alg |-> alg, pem |-> kid, stored |-> stored, password |-> password,
     notBefore |-> from, notAfter |-> to]

\* Two rotations: a key with a successor, which one with a wrong password follows.
Rotation ==
    <<SigningKey("k1", "ES256", "pkcs8", TRUE, 0, 3),
      SigningKey("k2", "ES256", "legacy", TRUE, 2, 5),
      SigningKey("k3", "RS256", "legacy", FALSE, 4, 9)>>

Issuer(aud) == [kind |-> "issuer", issuer |-> "self", audiences |-> aud]

Lists == {<<>>, <<OwnValidator>>, <<Issuer({}), OwnValidator>>, <<Issuer({"other"})>>, <<Issuer({"*", "api"})>>}

Other(kid, signer, form, iss, iat, e, sub, claims) ==
    [kid |-> kid, signer |-> signer, form |-> form, iss |-> iss, aud |-> {"other"}, iat |-> iat,
     exp |-> e, sub |-> sub, claims |-> claims]

\* Signed by nobody, without exp, without sub, with claims of a certificate,
\* by an issuer spelled in capitals, by a retired key, and no token at all.
OtherTokens ==
    {Other("k1", "stranger", "jws", "self", 1, 5, "alice", {"scope"}),
     Other("k1", "k1", "jws", "self", 1, 0, "alice", {"scope"}),
     Other("k1", "k1", "jws", "self", 0, 6, "", {"object", "mtls_verified"}),
     Other("k2", "k2", "jws", "Self", 3, 6, "alice", {"mtls_cn", "email"}),
     Other("k1", "k1", "jws", "self", 5, 7, "alice", {}),
     Other("", "k1", "jws", "self", 1, 5, "alice", {}),
     Other("k1", "k1", "noise", "self", 1, 5, "alice", {})}
=============================================================================
