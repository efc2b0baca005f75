SPECIFICATION Spec
CONSTANTS
  display = display
  performance = performance
  power = power
  dashboard = dashboard
  saver = saver
  balanced = balanced
  Order <- MCOrder
  Rows = {display, performance, power, dashboard}
  Shows <- MCShows
  Sliders = {display}
  Wired = {display, performance, power}
  Values <- MCValues
  Positions <- MCPositions
  Clamped <- MCClamped
  Drift <- MCDrift
  MaxGestures = 3
  MaxRaises = 1
  Gone = Gone
  None = None
INVARIANTS
  TypeOK
  WritesAreTheUsers
  WindowAgrees
PROPERTIES
  Settles
