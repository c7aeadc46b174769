\* Two callers of POST /stop, one request and one health Watch stream.
SPECIFICATION FairSpec
CONSTANTS
    Callers = {c1, c2}
    Requests = {r1}
    Watches = {w1}
INVARIANTS DrainedBeforeTeardown GatewayOutlivedByServer HealthBeforeDrain
PROPERTY StopIsHeeded
