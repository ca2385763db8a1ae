SPECIFICATION FairSpec
CONSTANTS
  Calls = {c1, c2, c3}
  Keys = {k1}
  c1 = c1
  c2 = c2
  c3 = c3
  k1 = k1
  None = None
INVARIANT TypeOK
INVARIANT OkMeansUp
INVARIANT NoStartRace
PROPERTY CallsReturn
CHECK_DEADLOCK FALSE
