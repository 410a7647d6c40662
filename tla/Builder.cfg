\* Up to three targets out of two, so that one may be named twice.
CONSTANTS
  Targets = {"linux", "windows"}
  Host = "linux"
  DefaultTargets <- MCDefaultTargets
  Malformed = Malformed
  MaxTargets = 3
SPECIFICATION FairSpec
INVARIANTS
  TypeOK
  WaitsForAll
  BinaryKept
  SuccessIsWhole
PROPERTIES
  BuildEnds
  ImplementsRelease
