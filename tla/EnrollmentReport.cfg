\* One handler; only the success notification may fail.
CONSTANTS
  Handlers = {h1}
  Keys = {"k1"}
  Provisioned = {"k1"}
  Lifetime = 1
  Setups <- InStep
  Csr <- MCCsr
  NoMessage = NoMessage
  PurgeGrace = 0
  NoCert = NoCert
  NoKey = NoKey
  Faulty = {"notify"}
  Overlap = FALSE
  MaxTime = 0
  MaxFaults = 1
  MaxTries = 1
SPECIFICATION Spec
PROPERTIES
  FailuresReported
