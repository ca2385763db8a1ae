SPECIFICATION Spec
CONSTANTS
  Calls = {c1, c2}
  c1 = c1
  c2 = c2
  Sources <- MCSources
  RawContexts <- MCRawContexts
  Files <- MCFiles
  Lists <- MCLists
  None = None
  NotString = NotString
  Unreadable = Unreadable
  EmptyName <- MCEmpty
  Objects = 1
  TTL = 1
  CallTime = 1
  MaxTime = 4
  MaxChanges = 1
  MaxEdits = 1
SYMMETRY Symmetry
INVARIANT TypeOK
INVARIANT AllOrNothing
INVARIANT OwnLists
PROPERTY ListsAreFresh
CHECK_DEADLOCK FALSE
