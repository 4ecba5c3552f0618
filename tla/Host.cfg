SPECIFICATION Spec
CONSTANTS
  ByteBits = 6
  WordBytes = 4
  UsizeBytes = 2
  ChainId = 7
  GasPrice = 2
  MaxPairingSize = 2
  MaxMessages = 2
  MaxSteps = 14
  Senders = {5}
  Keccak256 <- MCKeccak256
  Digest <- MCDigest
  Curve <- MCCurve
  Programs <- MCPrograms
INVARIANT ReplayReproduces
PROPERTIES
  FailuresOnlyConsume
  RunsResume
CHECK_DEADLOCK FALSE
