\* Clients that retry more often than there are faults, while a certificate
\* expires and is purged at once or not yet.
CONSTANTS
  Handlers = {h1, h2}
  Keys = {"k1", "short"}
  Provisioned = {"k1", "short"}
  Lifetime = 1
  Setups <- AtTheEnds
  Csr <- MCCsr
  NoMessage = NoMessage
  PurgeGrace = 0
  NoCert = NoCert
  NoKey = NoKey
  Faulty = {"lookup", "verify", "sign", "store", "notify", "mark", "envelope", "deliver", "disconnect", "crash"}
  Overlap = TRUE
  MaxTime = 2
  MaxFaults = 1
  MaxTries = 3
SPECIFICATION FairSpec
PROPERTIES
  Answered
  ProvisionedServed
