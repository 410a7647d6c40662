\* One request of the enrollment at a time; anything but the envelope may fail.
CONSTANTS
  Handlers = {h1}
  Keys = {"k1"}
  Provisioned = {"k1"}
  Lifetime = 2
  Setups <- InAndOutOfStep
  Csr <- MCCsr
  NoMessage = NoMessage
  PurgeGrace = 1
  NoCert = NoCert
  NoKey = NoKey
  Faulty = {"lookup", "verify", "sign", "store", "notify", "mark", "deliver", "disconnect", "crash"}
  Overlap = FALSE
  MaxTime = 5
  MaxFaults = 3
  MaxTries = 5
SPECIFICATION Spec
INVARIANTS
  DeliveredIsConfirmed
  NotifiedRowsConfirmed
  ReissuesBoundedByFaults
PROPERTIES
  ServedInSync
