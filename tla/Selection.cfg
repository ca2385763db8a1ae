SPECIFICATION Spec
CONSTANTS
  a = a
  b = b
  Empty = Empty
  Segments = {a, b, Empty}
  Omitted = Omitted
  Known <- AllKnown
  Arguments <- AllArguments
CHECK_DEADLOCK FALSE
INVARIANT TypeOK
INVARIANT SelectsWhatMatches
INVARIANT StrictNeverWidens
INVARIANT FirstSeenOrder
INVARIANT ListsOnlyWhenNeeded
 
