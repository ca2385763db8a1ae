SPECIFICATION Spec
CONSTANTS
  Calls = {c1, c2, c3}
  c1 = c1
  c2 = c2
  c3 = c3
  Clusters = {k1}
  k1 = k1
  None = None
  Always = Always
  TTL = 1
  CallTime = 1
  MaxTime = 4
  MaxRotations = 1
SYMMETRY Symmetry
CHECK_DEADLOCK FALSE
INVARIANT TypeOK
PROPERTY KubeconfigsAreFresh
PROPERTY AnswersAreTunneled
