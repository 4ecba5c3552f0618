CONSTANTS
  Addr = {zero, net, alice, bob, carol}
  Zero = zero
  NetFee = net
  MaxUint = 7
  MaxKey = 2
  MaxTicket = 2
  MaxTime = 3
  MaxSupply = 3
  Lifetimes = {1}
  Senders = {alice}
  Destinations = {bob}
  CreditBacks = {zero, bob}
  Beneficiaries = {carol}
  Deposits = {0, 3}
  Callvalues = {0, 1, 7}
  MaxCosts = {1}
  Fees = {1, 2}
  GasLimits = {0, 1}
  GasPrices = {1}
  GasCosts = {0, 1}
SPECIFICATION FairSpec
INVARIANTS TypeOK TicketBacked NothingStranded Conservation LiveTicketQueued IInv
PROPERTIES UnexpiredTicketKept AgedOutHeadRemoved
