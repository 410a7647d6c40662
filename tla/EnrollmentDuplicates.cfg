\* Two requests of one enrollment overlap; nothing goes wrong.
CONSTANTS
  Handlers = {h1, h2}
  Keys = {"k1"}
  Provisioned = {"k1"}
  Lifetime = 1
  Setups <- InStep
  Csr <- MCCsr
  NoMessage = NoMessage
  PurgeGrace = 0
  NoCert = NoCert
  NoKey = NoKey
  Faulty = {}
  Overlap = TRUE
  MaxTime = 0
  MaxFaults = 0
  MaxTries = 3
SPECIFICATION Spec
INVARIANTS
  DeliveredIsConfirmed
