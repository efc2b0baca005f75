SPECIFICATION Spec
CONSTANTS
  low = low
  quiet = quiet
  Shouted = Shouted
  Granted = {"cooling.internal_fan", "performance.epp", "display.brightness"}
  Preferences <- MCPreferences
  Clean <- MCClean
  BacklightMax = 9
  Foreign <- MCForeign
  InitialFiles <- MCFiles
  Gone = Gone
  None = None
  Requests <- MCRequests
INVARIANTS
  TypeOK
  AuthorizationRestored
  NothingWithoutGrant
  DutyUnderManualMode
  SuccessVerified
  WritesStayInside
PROPERTIES
  EveryCallReturns
