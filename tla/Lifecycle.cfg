\* Two requests, and enough failed purges to use up one round of attempts.
CONSTANTS
  Configurations <- MCConfigurations
  TokenOf <- MCTokenOf
  NoParams = NoParams
  Requests = {r1, r2}
  PurgeRetries = 3
  MaxFaults = 4
SPECIFICATION FairSpec
INVARIANTS
  TypeOK
  ServesOnlyWhenReady
  
  StoreOpenForRequests
  ZeroMeansSignalled
PROPERTIES
  SignalEndsProcess
  ExpiredRowsPurged
  ImplementsService
