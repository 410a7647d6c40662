\* Two callers, time enough for two refreshes of each cache.
CONSTANTS
  Callers = {c1, c2}
  TokenLife = 2
  Slack = 1
  EndpointLife = 2
  CallTime = 1
  MaxRetries = 2
  NoToken = NoToken
  NoEndpoint = NoEndpoint
  MaxTime = 3
  MaxCalls = 3
SPECIFICATION FairSpec
INVARIANTS
  TypeOK
  NoRedundantFetch
  PresentedTokenUnexpired
PROPERTIES
  ImplementsRemoteCall
  CallsRunDown
  CallsEnd
