\* The JWT interceptor runs with WithAnonymousOnFailure.
SPECIFICATION RefSpec
CONSTANTS
    Requests = {r1, r2}
    Tokens = {t1}
    JwtTokens = {t1}
    Dotted = {}
    Prefixed = {t1}
    NumResolvers = 1
    ResolvedTTLs = {0}
    DefaultTTL = 2
    Skew = 1
    AnonymousOnFailure = TRUE
    RefMaxTime = 4
    NoToken = NoToken

INVARIANTS OnlyValidatedIsCached
