SPECIFICATION Spec
CONSTANTS
  alice = alice
  Caller <- MCCaller
  Content <- MCContent
  Load <- MCLoad
  SideLoad <- MCSideLoad
  Moment <- MCMoment
  Effects <- MCEffects
  Spacings <- MCSpacings
  MaxL1 = 2
  MaxHandled = 2
  MaxSideload = 0
INVARIANT NoEmptySummary
\* The loop blocks on the L1 inbox when there are no more messages.
CHECK_DEADLOCK FALSE
