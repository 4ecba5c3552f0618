SPECIFICATION FairSpec
CONSTANTS
  alice = alice
  Caller <- MCCaller
  Content <- MCContent
  Load <- MCLoad
  SideLoad <- MCSideLoad
  Moment <- MCMoment
  Effects <- MCEffects
  Spacings <- MCSpacings
  MaxL1 = 4
  MaxHandled = 2
  MaxSideload = 1
INVARIANTS
  TypeOK
  BlocksInOrder
  CountsExact
  SendsInBatches
  HandledOnce
  NoReplay
PROPERTIES
  ReturnsToL1
\* The loop blocks on the L1 inbox when there are no more messages.
CHECK_DEADLOCK FALSE
