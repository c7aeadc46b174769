SPECIFICATION WebSpec
CHECK_DEADLOCK FALSE
CONSTANTS
    Parts = {"sessions"}
    Registrations <- SomeRegistrations
    Drafts <- SomeDrafts
    MaxServices = 3
    Tabs = {t1, t2}
    Stores <- AllStores
    NoSession = NoSession
    DefaultValidity = 1
    MaxIDs = 2
    MaxEpochs = 1
    CookieNames = {"a", "b"}
    CookieValues = {"v"}
    NoCookie = NoCookie
    HandlerLists <- TwoHandlers
    Requests = {r1, r2}
    Stoppers = {p1, p2}
    Nobody = Nobody
    Handshakes = {h1, h2}
    MaxVersion = 2
    NoFile = NoFile
    Calls = {c1, c2}
    Filters <- TwoFilters
    Chains = {"correlation", "otelCorrelation", "openTelemetry", "echo", "echoCorrelation"}
    MaxTrailIDs = 6
    Spans = {s1}
    Visitors = {v1}
    AdminEnvironments <- SomeEnvironments
INVARIANT StaleCookieStartsOver
