----------------------------- MODULE ClaimsGate -----------------------------
(***************************************************************************)
(* The authorization gate (middleware/claimsprincipal): a request gets its *)
(* scope, interceptors put claims on its principal, authorize looks the    *)
(* method up among the entry points and lets the handler run or denies.    *)
(* The entry points are what EntryPointClaimsBuilder made at startup.  The *)
(* echo gate does the same for paths, with the older ClaimsConfig chains.  *)
(***************************************************************************)
EXTENDS ClaimsAST

CONSTANTS
    Trees,      \* requirements an application writes
    Facts,      \* facts the builder appends
    Configs,    \* ClaimsConfig chains
    Authenticated \* the claim type that says somebody is logged in

Unlisted == [node |-> "unlisted"]   \* the method is not in the map
NilEntry == [node |-> "nil"]        \* a nil IEntryPointConfig

VARIABLES
    entry,      \* the entry point of the method called
    zeroTrust,  \* enableZeroTrust
    scoped,     \* dicontext ran before: the request has a container
    config,     \* the ClaimsConfig of the path called, <<>> for none
    pc          \* "startup", "claims", "handler", "denied"; what the echo gate did

gateVars == <<entry, zeroTrust, scoped, config, pc>>
vars == <<principal, gateVars>>

GateInit ==
    /\ Init
    /\ entry \in {Unlisted, NilEntry} \union Trees
    /\ zeroTrust \in BOOLEAN
    /\ scoped = FALSE
    /\ config = <<>>
    /\ pc = "startup"

-----------------------------------------------------------------------------
(* EntryPointClaimsBuilder                                                 *)

ensureEntry == IF entry = Unlisted THEN AST({}, {}, {}, {}) ELSE entry

WithGrpcEntrypointPermissionsClaimsMapOpen ==
    /\ pc = "startup"
    /\ entry = Unlisted
    /\ entry' = ensureEntry
    /\ UNCHANGED <<principal, zeroTrust, scoped, config, pc>>

WithGrpcEntrypointClams(f) ==
    /\ pc = "startup"
    /\ ensureEntry.node = "ast"
    /\ entry' = AppendClaimsFact(ensureEntry, f)
    /\ UNCHANGED <<principal, zeroTrust, scoped, config, pc>>

-----------------------------------------------------------------------------
(* A request                                                               *)

\* CreateScope: the container and its principal are the request's own.
ScopedContext ==
    /\ pc # "claims"
    /\ pc' = "claims"
    /\ scoped' \in BOOLEAN
    /\ Renew
    /\ config' = <<>>
    /\ UNCHANGED <<entry, zeroTrust>>

\* The authentication interceptors, which need the container.
ChangeClaims ==
    /\ pc = "claims" /\ scoped
    /\ Change
    /\ UNCHANGED gateVars

\* Without a container the gate evaluates a principal without claims.
seen == IF scoped THEN principal ELSE NewIClaimsPrincipal

authorized ==
    \/ entry = Unlisted /\ ~zeroTrust
    \/ entry = NilEntry
    \/ entry.node = "ast" /\ ASTValidate(entry, seen)

Authorize ==
    /\ pc = "claims"
    /\ pc' = IF authorized THEN "handler" ELSE "denied"
    /\ UNCHANGED <<principal, entry, zeroTrust, scoped, config>>

\* What the echo gate does with who may not pass.
permissionDeniedFunc(onUnauthenticated) ==
    CASE HasClaimType(principal, Authenticated) -> "/unauthorized"
      [] ~HasClaimType(principal, Authenticated) /\ onUnauthenticated = "login" -> "/login"
      [] OTHER -> "401"

\* The echo gate.  The gRPC entry points do not matter to it, so one of their
\* values stands for all, and neither does zeroTrust to a path that is listed.
FinalAuthVerificationMiddlewareUsingClaimsMap(cfg, onUnauthenticated) ==
    /\ pc = "claims" /\ scoped /\ entry = Unlisted /\ (cfg # <<>> => zeroTrust)
    /\ config' = cfg
    /\ pc' = CASE cfg = <<>> /\ zeroTrust -> permissionDeniedFunc("none")
               [] cfg = <<>> /\ ~zeroTrust -> "next"
               [] cfg # <<>> /\ Validate(cfg, principal) -> "next"
               [] OTHER -> permissionDeniedFunc(onUnauthenticated)
    /\ UNCHANGED <<principal, entry, zeroTrust, scoped>>

GateNext ==
    \/ WithGrpcEntrypointPermissionsClaimsMapOpen
    \/ \E f \in Facts : WithGrpcEntrypointClams(f)
    \/ ScopedContext
    \/ ChangeClaims
    \/ Authorize
    \/ \E cfg \in Configs \union {<<>>}, directive \in {"none", "login"} :
         FinalAuthVerificationMiddlewareUsingClaimsMap(cfg, directive)

GateSpec == GateInit /\ [][GateNext]_vars

-----------------------------------------------------------------------------
(* How a reader takes a printed expression: a fact holds if the principal  *)
(* lists a claim for it, a group if all or one of its parts do.            *)

Listed(f) ==
    \E c \in IF scoped THEN GetClaims(principal) ELSE {} :
        /\ c.type = f.claim.type
        /\ f.directive = "type" \/ c.value = f.claim.value

RECURSIVE Reads(_, _, _)

\* The tokens of s from i to j.
Reads(s, i, j) ==
    CASE s[i].tok = "fact" -> Listed(s[i].fact)
      [] s[i].tok = "!" -> ~Reads(s, i + 1, j)
      [] s[i].tok = "(" ->
           LET count(t, k) == Cardinality({m \in i..k : s[m].tok = t})
               cuts == {k \in i+1..j-1 : count("(", k) = count(")", k) + 1
                                         /\ s[k].tok \in {"and", "or"}}
               parts == {<<a, b>> \in (i+1..j-1) \X (i+1..j-1) :
                           /\ a <= b
                           /\ a - 1 \in cuts \union {i} /\ b + 1 \in cuts \union {j}
                           /\ cuts \intersect (a..b) = {}}
           IN  IF \E k \in cuts : s[k].tok = "or"
               THEN \E q \in parts : Reads(s, q[1], q[2])
               ELSE \A q \in parts : Reads(s, q[1], q[2])

ReadAs(n) == LET s == String(n) IN Reads(s, 1, Len(s))

RECURSIVE AsAST(_)

\* The requirement a ClaimsConfig chain states, as a ClaimsAST.
AsAST(cfg) ==
    AST(cfg[1].AND, IF Len(cfg) = 1 THEN {} ELSE {AsAST(Tail(cfg))},
        {AST(F, {}, {}, {}) : F \in {cfg[1].OR} \ {{}}}, {})

\* The handler runs exactly when the expression printed for the method holds
\* of the claims the principal lists, or the method needs none; a request
\* without a container lists none (authorize, _validate against _string).  And
\* the echo gate lets a path's handler run exactly when the same requirement,
\* as a ClaimsAST, would (Validate, validateAND, validateOR).
PrintedIsEnforced ==
    /\ pc \in {"handler", "denied"} =>
        (pc = "handler" <=>
            \/ entry = Unlisted /\ ~zeroTrust
            \/ entry = NilEntry
            \/ entry.node = "ast" /\ ReadAs(entry))
    /\ pc \notin {"startup", "claims", "handler", "denied"} =>
        (pc = "next" <=> IF config = <<>> THEN ~zeroTrust ELSE ASTValidate(AsAST(config), principal))
=============================================================================
