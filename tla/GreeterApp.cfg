SPECIFICATION AppSpec
CONSTANTS
  Callers <- MCCallers
  Requests <- MCRequests
  Writers <- MCWriters
  Endpoints <- MCEndpoints
  GrpcFailures <- MCGrpcFailures
  ClientTimeout = 1
  MaxCalls = 2
INVARIANT SecretsAreOwned
INVARIANT ServedAsSent
INVARIANT HandlersAnswer
PROPERTY StatusSurvives
PROPERTY CallsEnd
CHECK_DEADLOCK FALSE
