------------------------------ MODULE ClaimSet ------------------------------
(***************************************************************************)
(* What an IClaimsPrincipal promises (contracts/common): the set of claims *)
(* a request is known by.  A claim with an empty type is never held.       *)
(***************************************************************************)
CONSTANTS ClaimTypes, ClaimValues, NoType

VARIABLE held

Claim == [type : ClaimTypes, value : ClaimValues]

Init == held = {}

AddClaim(c) == held' = held \union {d \in {c} : d.type # NoType}

RemoveClaim(c) == held' = held \ {c}

RemoveClaimType(t) == held' = {c \in held : c.type # t}

\* The next request has a principal of its own.
Renew == held' = {}

Next ==
    \/ \E c \in Claim : AddClaim(c) \/ RemoveClaim(c)
    \/ \E t \in ClaimTypes : RemoveClaimType(t)
    \/ Renew

Spec == Init /\ [][Next]_held
=============================================================================
