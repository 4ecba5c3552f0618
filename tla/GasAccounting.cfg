SPECIFICATION Spec
CONSTANTS
  alice = alice
  sequencer = sequencer
  treasury = treasury
  reserves = reserves
  Addr <- MCAddr
  User <- MCUser
  Aggregator = sequencer
  NetworkFeeRecipient = treasury
  CongestionFeeRecipient = reserves
  Funds = 6000
  MaxUint = 100000
  MaxKey = 0
  L1GasPerL1CalldataUnit = 1
  L1GasPerStorage = 1
  ArbGasDivisor = 10
  NetworkFeeShare <- MCNetworkFeeShare
  BaseTxFeeL1Gas = 1
  SpeedLimit = 3
  GasPoolMax = 6
  TxGasLimit = 8
  MinArbGas = 1
  MaxGases <- MCMaxGases
  Bids <- MCBids
  Units <- MCUnits
  Burns <- MCBurns
  Deltas <- MCDeltas
  Overheads <- MCOverheads
  FirstL1Price = 1200
  L1Prices <- MCL1Prices
  MaxDepth = 3
  MaxTx = 2
  MaxBlock = 2
  MaxTime = 2
  MaxReports = 1
INVARIANTS
  TypeOK
  HeldExactly
  GasWithinMax
  Conservation
  ChargedAsReceipted
  TimeAddsUp
CHECK_DEADLOCK FALSE
