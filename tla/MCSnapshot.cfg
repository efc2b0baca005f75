SPECIFICATION SnapshotSpec
CONSTANTS
  saver = saver
  balanced = balanced
  Validated = {"performance.epp", "display.brightness"}
  CapabilityIds <- MCIds
  Profiles = {saver, balanced}
  Present = {"power.battery"}
  Contents <- MCContents
  Gone = Gone
  None = None
INVARIANTS
  OffersAreServable
  ObservedWasReal
