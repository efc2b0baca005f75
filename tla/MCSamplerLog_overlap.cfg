SPECIFICATION Spec
CONSTANTS
  timer = timer
  manual = manual
  i1 = i1
  i2 = i2
  i3 = i3
  i4 = i4
  Writers = {timer, manual}
  MaxLines = 2
  Limit = 2
  LineBytes = 3
  MinLineBytes = 2
  Inodes = {i1, i2, i3, i4}
  MaxSamples = 5
  MaxKills = 0
  Torn = Torn
  Junk = Junk
  None = None
INVARIANTS
  OneRunOneLine
CHECK_DEADLOCK FALSE
