SPECIFICATION Spec
CONSTANTS
  BufSize = 30
  IdSpan = 3
  Digit = 16
  TxFifo = 6
  TxBuf = 6
  Info <- MCInfo
  statusTopic <- MCstatusTopic
  cmdTopic <- MCcmdTopic
  fbTopic <- MCfbTopic
  lwtData <- MClwtData
  lwtDataLive <- MClwtDataLive
  Wording = 11
  Segments <- MCSegments
  Reports <- MCReports
INVARIANTS Understood ReadsPackets WholePackets
PROPERTIES WholePayloads SendsOut
