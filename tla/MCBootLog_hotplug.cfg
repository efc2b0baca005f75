SPECIFICATION Spec
CONSTANTS
  mini = mini
  internal = internal
  external = external
  Mini = mini
  Others = {internal, external}
  Hotplug = {external}
  MaxProbes = 2
  MaxMessages = 2
  MaxSuspends = 1
  None = None
INVARIANTS
  NoMisattribution
