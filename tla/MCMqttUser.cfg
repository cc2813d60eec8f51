SPECIFICATION Spec
CONSTANTS
  KeepAlive = 1
  ReconnectTimeout = 1
  SendTimeout = 1
  AppReconnects = {TRUE, FALSE}
  HostIsName = TRUE
  QMax = 1
  MaxLookups = 2
  MaxUnacked = 2
  MaxChanges = 1
INVARIANTS TypeOK SessionOpen ProtocolOrder AttemptUnderWay Attended HandshakePending
