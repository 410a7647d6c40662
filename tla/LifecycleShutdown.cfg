\* One request in flight when the signal comes.
CONSTANTS
  Configurations <- OneConfiguration
  TokenOf <- MCTokenOf
  NoParams = NoParams
  Requests = {r1}
  PurgeRetries = 3
  MaxFaults = 0
SPECIFICATION Spec
INVARIANTS
  InFlightRequestsFinish
