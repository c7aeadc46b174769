\* Two callers, two keys with every window up to time 4; two connections, a
\* reference token that resolves to a JWT, one that resolves to claims and a JWT
\* sent as it is, two resolvers; two minters and two rotations.
SPECIFICATION TokensSpec
CONSTANTS
    Callers = {c1, c2}
    Keys = {1, 2}
    MaxTime = 4
    None = None
    Requests = {r1, r2}
    Tokens = {t1, t2, t3}
    JwtTokens = {t1}
    Dotted = {t3}
    Prefixed = {t1}
    NumResolvers = 2
    ResolvedTTLs = {0, 1}
    DefaultTTL = 2
    Skew = 1
    AnonymousOnFailure = FALSE
    RefMaxTime = 3
    NoToken = NoToken
    Minters = {m1, m2}
    SigningKeys <- Rotation
    Life = 3
    KeySkew = 1
    IssuerSkew = 1
    ValidatorLists <- Lists
    Others <- OtherTokens
    MaxMinted = 1
    ChainEnd = 6
SYMMETRY Symmetry
INVARIANTS AnswerIsOfTheCall NoForeignClaims  MintedIsAccepted PrincipalIsEarned
