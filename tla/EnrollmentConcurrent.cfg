\* Two requests at once, of the same enrollment too, and any two faults.
CONSTANTS
  Handlers = {h1, h2}
  Keys = {"k1", "k2", "forged", "pss", "short", "unnamed"}
  Provisioned = {"k1", "forged", "pss", "short", "unnamed"}
  Lifetime = 1
  Setups <- InStep
  Csr <- MCCsr
  NoMessage = NoMessage
  PurgeGrace = 0
  NoCert = NoCert
  NoKey = NoKey
  Faulty = {"lookup", "verify", "sign", "store", "notify", "mark", "envelope", "deliver", "disconnect", "crash"}
  Overlap = TRUE
  MaxTime = 2
  MaxFaults = 2
  MaxTries = 3
SPECIFICATION Spec
SYMMETRY HandlerSymmetry
INVARIANTS
  TypeOK
  PrimaryKey
  GateHolds
  IssuedSound
  OwnCertificate
  DeliveredKeyConfirmed
  ReissuesBoundedByHandlers
PROPERTIES
  LiveRowStable
  RefusedForCause
  ImplementsContract
