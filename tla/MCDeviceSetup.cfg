SPECIFICATION FairSpec
CONSTANTS
  Ssids = {"office", "lab"}
  Long = {"office"}
  Formats = {"lab"}
  MaxPollers = 3
  MaxBoots = 1
INVARIANTS MeshWaits StationIsSaved RouterIsSaved  OneAnswer
PROPERTIES SettingApplied TouchEnds
CHECK_DEADLOCK FALSE
