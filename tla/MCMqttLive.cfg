SPECIFICATION LiveSpec
CONSTANTS
  KeepAlive = 2
  ReconnectTimeout = 1
  SendTimeout = 1
  AppReconnects = {TRUE, FALSE}
  HostIsName = TRUE
  QMax = 1
  MaxLookups = 2
  MaxUnacked = 1
  MaxChanges = 0
  QuietMax = 4
INVARIANT PingsInTime
PROPERTIES Reconnects Flows
