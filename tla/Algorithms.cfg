SPECIFICATION Spec
CONSTANTS
  ByteBits = 6
  WordBytes = 4
  UsizeBytes = 2
  ChainId = 7
  GasPrice = 2
  MaxPairingSize = 2
  TUPLE_SIZE = 3
  MaxDepth = 2
  MaxInsns = 4
  MaxSize = 28
  MaxWrites = 3
  MaxItems = 9
  MaxUpdates = 4
  BlockSize = 2
  Hash <- MCHash
  Keccak256 <- MCKeccak256
  Digest <- MCDigest
  Curve <- MCCurve
INVARIANTS
  AssignabilitySound
  CodeKeepsMeaning
  WordsAgree
  ContainersHold
CHECK_DEADLOCK FALSE
