SPECIFICATION DeliverySpec
CONSTANTS
  k1 = k1
  k2 = k2
  Keys      <- MCKeys
  WarnTexts <- MCWarnTexts
  CritTexts <- MCCritTexts
  MinCap = 1
  CapN = 1
  ClearN = 1
  QueueLen = 2
  MaxTicks = 3
INVARIANTS
  OutsideAgrees
  FileAgrees
PROPERTIES
  Settles
CHECK_DEADLOCK FALSE
