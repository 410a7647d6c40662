\* One handler; only the envelope of a certificate may fail.
CONSTANTS
  Handlers = {h1}
  Keys = {"k1"}
  Provisioned = {"k1"}
  Lifetime = 1
  Setups <- InStep
  Csr <- MCCsr
  NoMessage = NoMessage
  PurgeGrace = 0
  NoCert = NoCert
  NoKey = NoKey
  Faulty = {"envelope"}
  Overlap = FALSE
  MaxTime = 0
  MaxFaults = 1
  MaxTries = 2
SPECIFICATION Spec
PROPERTIES
  ServedInSync
