SPECIFICATION Spec
CONSTANTS
  Callers = {c1, c2, c3}
  c1 = c1
  c2 = c2
  c3 = c3
SYMMETRY Symmetry
INVARIANT RBACInv
INVARIANT TokenIsReadOnly
INVARIANT LossIsReported
CHECK_DEADLOCK FALSE
