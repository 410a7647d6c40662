\* One handler, no fault: the certificate expires and is renewed.
CONSTANTS
  Handlers = {h1}
  Keys = {"k1"}
  Provisioned = {"k1"}
  Lifetime = 0
  Setups <- InStep
  Csr <- MCCsr
  NoMessage = NoMessage
  PurgeGrace = 1
  NoCert = NoCert
  NoKey = NoKey
  Faulty = {}
  Overlap = FALSE
  MaxTime = 1
  MaxFaults = 0
  MaxTries = 2
SPECIFICATION Spec
INVARIANTS
  LiveDeliveredRecorded
