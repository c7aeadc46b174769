-------------------------- MODULE ClaimsPrincipal ---------------------------
(***************************************************************************)
(* The scoped IClaimsPrincipal (services/common/claimsprincipal): a list   *)
(* of values per claim type, which HasClaimType and GetClaims read, and    *)
(* beside it fastMap, a set of values per type, which HasClaim reads.  A   *)
(* map is a function whose domain is the map's keys.                       *)
(***************************************************************************)
EXTENDS Integers, Sequences

CONSTANTS
    ClaimTypes,     \* Claim.Type
    ClaimValues,    \* Claim.Value
    NoType          \* the empty Type

ASSUME TypesAssumption == NoType \in ClaimTypes

VARIABLE principal  \* of the request being served

Claim == [type : ClaimTypes, value : ClaimValues]

Without(f, t) == [u \in DOMAIN f \ {t} |-> f[u]]
With(f, t, x) == [u \in DOMAIN f \union {t} |-> IF u = t THEN x ELSE f[u]]

NewIClaimsPrincipal ==
    [claims |-> [t \in {} |-> <<>>], fastMap |-> [t \in {} |-> {}]]

HasClaimType(p, t) == t \in DOMAIN p.claims

HasClaim(p, c) == c.type \in DOMAIN p.fastMap /\ c.value \in p.fastMap[c.type]

\* The claims GetClaims lists; GetClaimsByType lists the ones of a type.
GetClaims(p) ==
    UNION {{[type |-> t, value |-> p.claims[t][i]] : i \in DOMAIN p.claims[t]} :
             t \in DOMAIN p.claims}

-----------------------------------------------------------------------------
(* The operations, for one claim or type of their variadic arguments       *)

\* c.claims[t] of an absent type is nil, an empty list.
list(p, t) == IF HasClaimType(p, t) THEN p.claims[t] ELSE <<>>

\* Mutant of addFastMapClaim: makes a new set where there is one.
addFastMapClaimAnew(p, c) == With(p.fastMap, c.type, {c.value})

addFastMapClaim(p, c) ==
    With(p.fastMap, c.type,
         (IF c.type \in DOMAIN p.fastMap THEN p.fastMap[c.type] ELSE {}) \union {c.value})

\* Mutant of AddClaim: appends what is already there.
AddClaimTwice(p, c) ==
    IF c.type = NoType THEN p
    ELSE [claims |-> With(p.claims, c.type, Append(list(p, c.type), c.value)),
          fastMap |-> addFastMapClaim(p, c)]

AddClaim(p, c) ==
    IF c.type = NoType \/ HasClaim(p, c) THEN p
    ELSE [claims |-> With(p.claims, c.type, Append(list(p, c.type), c.value)),
          fastMap |-> addFastMapClaim(p, c)]

\* The last value takes the place of the removed one.
removeIndex(s, i) ==
    [k \in 1..Len(s) - 1 |-> IF k = i THEN s[Len(s)] ELSE s[k]]

IsIndex(s, v, i) == s[i] = v /\ \A k \in 1..i-1 : s[k] # v

RemoveClaim(p, c) ==
    LET s == list(p, c.type)
        found == {i \in DOMAIN s : IsIndex(s, c.value, i)}
        rest == removeIndex(s, CHOOSE i \in found : TRUE)
    IN  IF found = {} THEN p
        ELSE IF Len(rest) = 0
        THEN [claims |-> Without(p.claims, c.type), fastMap |-> Without(p.fastMap, c.type)]
        ELSE [claims |-> With(p.claims, c.type, rest),
              fastMap |-> With(p.fastMap, c.type, p.fastMap[c.type] \ {c.value})]

RemoveClaimType(p, t) ==
    IF ~HasClaimType(p, t) THEN p
    ELSE [claims |-> Without(p.claims, t), fastMap |-> Without(p.fastMap, t)]

-----------------------------------------------------------------------------
Init == principal = NewIClaimsPrincipal

Change ==
    \/ \E c \in Claim : \/ principal' = AddClaim(principal, c)
                        \/ principal' = RemoveClaim(principal, c)
    \/ \E t \in ClaimTypes : principal' = RemoveClaimType(principal, t)

\* The scope of the next request builds a new one.
Renew == principal' = NewIClaimsPrincipal

Next == Change \/ Renew

Spec == Init /\ [][Next]_principal

-----------------------------------------------------------------------------
Distinct(s) == \A i, j \in DOMAIN s : s[i] = s[j] => i = j

\* The list and the set of every type: both there or neither, never empty, no
\* value twice, the same values.
PrincipalOK(p) ==
    /\ p = [claims |-> p.claims, fastMap |-> p.fastMap]
    /\ DOMAIN p.claims \subseteq ClaimTypes \ {NoType}
    /\ p.claims = [t \in DOMAIN p.claims |-> p.claims[t]]
    /\ p.fastMap = [t \in DOMAIN p.claims |-> p.fastMap[t]]
    /\ \A t \in DOMAIN p.claims :
         /\ p.claims[t] \in Seq(ClaimValues)
         /\ p.claims[t] # <<>>
         /\ Distinct(p.claims[t])
         /\ p.fastMap[t] = {p.claims[t][i] : i \in DOMAIN p.claims[t]}

\* What HasClaim answers and what GetClaims and HasClaimType answer never come
\* apart, whatever is added and removed in whichever order (AddClaim,
\* RemoveClaim, RemoveClaimType).
PrincipalInv == PrincipalOK(principal)

\* The claims HasClaim answers for.
Held == {c \in Claim : HasClaim(principal, c)}

Abstract == INSTANCE ClaimSet WITH held <- Held

\* The principal is a set of claims: a claim is held from AddClaim until it or
\* its type is removed, and the swap in removeIndex, the emptied list and the
\* skipped duplicate never show (IClaimsPrincipal).
IsAClaimSet == Abstract!Spec
=============================================================================
