SPECIFICATION Spec
CONSTANTS
  Calls = {c1}
  c1 = c1
  Sources <- MCSources
  RawContexts <- MCScalarContexts
  Files <- MCFiles
  Lists <- MCLists
  None = None
  NotString = NotString
  Unreadable = Unreadable
  EmptyName <- MCEmpty
  Objects = 0
  TTL = 1
  CallTime = 1
  MaxTime = 2
  MaxChanges = 1
  MaxEdits = 0
INVARIANT OneMapPerItem
CHECK_DEADLOCK FALSE
