SPECIFICATION HistorySpec
CONSTANTS
  mini = mini
  internal = internal
  Mini = mini
  Others = {internal}
  Hotplug = {}
  MaxProbes = 2
  MaxMessages = 3
  MaxSuspends = 1
  MaxBoots = 2
  MaxVacuums = 1
  None = None
INVARIANTS
  TypeOK
  NoMisattribution
  NothingMissed
  EpisodesMatch
  LossesAreCounted
