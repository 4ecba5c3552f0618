SPECIFICATION Spec
CONSTANTS
  user = user  conA = conA  conB = conB
  pre = pre  fresh = fresh  fees = fees
  Addr = {user, conA, conB, pre, fresh, fees}
  MaxUint = 6
  MaxKey = 2
  Ticket <- MCTicket
  Callers = {user}
  Targets = {conA, pre, fresh}
  NewAddr = {fresh}
  Precompile = pre
  NetFee = fees
  ReserveFund = fees
  Values = {0, 1}
  Holds = {1, 3}
  Mutability = {TRUE, FALSE}
  MaxTx = 1
  MaxOps = 4
  MaxDepth = 3
  InitStore <- MCInitStore
INVARIANTS
  TypeOK
  Conservation
  StorageDeltaExact
  OneReceiptEach
  GasHeldOnlyWhileRunning
  TicketsFunded
CHECK_DEADLOCK FALSE
