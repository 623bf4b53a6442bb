SPECIFICATION FairSpec
CONSTANTS
  MaxDrops <- ThreeDrops
  MaxFails <- TwoFails
INVARIANTS
  ConnectionTypeOK
  ConnectionInv
  NoDoubleClose
  OnlyCurrentClientLive
  LoopWatchesCurrentClient
  NoLostWakeup
PROPERTIES
  ImplementsUplink
  Reconnects
  ShutdownCompletes
CHECK_DEADLOCK FALSE
