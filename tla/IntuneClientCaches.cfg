\* Two callers, two calls, across the end of the token's life.
CONSTANTS
  Callers = {c1, c2}
  TokenLife = 1
  Slack = 1
  EndpointLife = 3
  CallTime = 1
  MaxRetries = 0
  NoToken = NoToken
  NoEndpoint = NoEndpoint
  MaxTime = 1
  MaxCalls = 2
SPECIFICATION Spec
INVARIANTS
  PopulatedCacheIsRead
