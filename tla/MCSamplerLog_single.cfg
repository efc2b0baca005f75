SPECIFICATION Spec
CONSTANTS
  timer = timer
  manual = manual
  i1 = i1
  i2 = i2
  i3 = i3
  i4 = i4
  Writers = {timer}
  MaxLines = 3
  Limit = 2
  LineBytes = 3
  MinLineBytes = 2
  Inodes = {i1, i2, i3, i4}
  MaxSamples = 8
  MaxKills = 3
  Torn = Torn
  Junk = Junk
  None = None
INVARIANTS
  TypeOK
  LogIsNewest
  LogIsCapped
  ReaderSeesTheLog
CHECK_DEADLOCK FALSE
