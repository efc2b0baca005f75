SPECIFICATION Spec
CONSTANTS
  Numbers = {0, 1, 2}
  FanName = "oxpec"
  Installed = TRUE
  Absent = Absent
INVARIANTS
  DetectionFindsTheFan
  FanWritesReachTheFan
