SPECIFICATION Spec
CONSTANTS
  ByteBits = 6
  WordBytes = 4
  UsizeBytes = 2
  ChainId = 7
  GasPrice = 2
  MaxPairingSize = 2
  TUPLE_SIZE = 4
  Keccak256 <- MCKeccak256
  Digest <- MCDigest
  Curve <- MCCurve
  Sources <- MCSources
  Heuristics = {"Off", "None", "All"}
INVARIANTS CheckedIsSafe ResultAgrees PureMeansUnchanged AcceptedCompiles
PROPERTY Finishes
CHECK_DEADLOCK FALSE
