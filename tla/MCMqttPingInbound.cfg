SPECIFICATION InboundSpec
CONSTANTS
  KeepAlive = 4
  ReconnectTimeout = 1
  SendTimeout = 2
  AppReconnects = {FALSE}
  HostIsName = FALSE
  QMax = 1
  MaxLookups = 1
  MaxUnacked = 1
  MaxChanges = 0
  QuietMax = 7
INVARIANT PingsInTime
