SPECIFICATION Spec
CONSTANTS
  Numbers = {0, 1, 2}
  Internal = {0}
  Callers = {"sample", "snapshot", "inventory"}
  NamespacesAppear = {"controller", "block"}
  MaxMoves = 3
  None = None
INVARIANTS
  TypeOK
  PresenceWasTrue
  GapsMeanTrouble
  LostMountIsVisible
  RaisesOnlyIfLeft
  RowsTellDrives
PROPERTIES
  EveryCallEnds
