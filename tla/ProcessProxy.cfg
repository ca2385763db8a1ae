SPECIFICATION FairSpec
CONSTANTS
  Calls = {c1, c2, c3}
  Keys = {k1}
  c1 = c1
  c2 = c2
  c3 = c3
  k1 = k1
  Main = Main
  None = None
  TTLPositive = TRUE
INVARIANT IInv
INVARIANT NoOrphan
INVARIANT OneTunnelPerTarget
INVARIANT TunnelExpires
INVARIANT DrainedExitTearsDown
PROPERTY Implements
PROPERTY CallsReturn
PROPERTY TunnelsEnd
CHECK_DEADLOCK FALSE
