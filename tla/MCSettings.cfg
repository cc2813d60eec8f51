SPECIFICATION SettingsSpec
CONSTANTS
  Config <- MCConfig
  Default <- MCDefault
  Requests <- MCRequests
  Networks <- MCNetworks
  Passwords <- MCPasswords
  At <- MCAt
  Size <- MCSize
  End <- MCEnd
  Limit = 8
  Shown = 5
  ChipId <- MCChipId
  None = none
  NoHolder = noHolder
  Mixed = mixed
  NoClient = noClient
  NoPeer = noPeer
  Unknown = unknown
  FlagByte = {0, 1, 254, 255}
INVARIANTS SelectedIntact ClientAgrees Survives ReadsBack
PROPERTY AtomicStore
