SPECIFICATION MeshSpec
CONSTANTS
  m1 = m1
  m2 = m2
  m3 = m3
  m4 = m4
  m5 = m5
  m6 = m6
  Mac <- MCMac
  None = None
  Step = 2
  Packets <- MCPackets
INVARIANT ListsEachOnce
PROPERTIES NamesTheMesh GrowsEnough
CHECK_DEADLOCK FALSE
