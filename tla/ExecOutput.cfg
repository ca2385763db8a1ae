SPECIFICATION FairSpec
CONSTANTS
  Chunks = 3
  MaxOutput = 2
CHECK_DEADLOCK FALSE
INVARIANT TypeOK
INVARIANT NoSilentTruncation
INVARIANT CutOnlyAboveCap
INVARIANT FileLivesWithCommand
PROPERTY CallReturns
