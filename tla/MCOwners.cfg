SPECIFICATION Spec
CONSTANTS
  saver = saver
  performance = performance
  Profiles = {saver, performance}
  Levels = {60}
  Drift <- MCDrift
  MaxReads = 11
  Gone = Gone
  None = None
  Arguments <- MCArguments
INVARIANTS
  TypeOK
  SuccessWasHeld
  PanelStaysVisible
PROPERTIES
  EverySetReturns
