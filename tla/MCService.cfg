SPECIFICATION Spec
CONSTANTS
  saver = saver
  performance = performance
  Validated <- MCValidated
  Profiles = {saver, performance}
  Levels = {60}
  Drift <- MCDrift
  MaxReads = 2
  BacklightMax = 9
  Preferences = {saver}
  Clean <- MCClean
  Foreign <- MCForeign
  InitialFiles <- MCFiles
  Gone = Gone
  None = None
  Requests <- MCRequests
INVARIANTS
  TypeOK
  NoSysfsFallback
  UnvalidatedReachesNobody
PROPERTIES
  ImplementsVerifiedWrite
  EveryRequestAnswered
