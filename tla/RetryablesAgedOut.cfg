CONSTANTS
  Addr = {zero, net, alice, bob}
  Zero = zero
  NetFee = net
  MaxUint = 7
  MaxKey = 2
  MaxTicket = 2
  MaxTime = 4
  MaxSupply = 3
  Lifetimes = {1}
  Senders = {alice}
  Destinations = {bob}
  CreditBacks = {zero}
  Beneficiaries = {bob}
  Deposits = {0, 3}
  Callvalues = {0, 1}
  MaxCosts = {1}
  Fees = {1, 2}
  GasLimits = {0}
  GasPrices = {1}
  GasCosts = {0}
SPECIFICATION FairSpec
PROPERTY AgedOutRemoved
