SPECIFICATION FairSpec
CONSTANT N = 3
INVARIANT TypeOK
INVARIANT FailuresAreIsolated
INVARIANT ErrorFlagIsExact
INVARIANT ReadOnlyHolds
INVARIANT QuietAfterAnswer
PROPERTY CallReturns
CHECK_DEADLOCK FALSE
