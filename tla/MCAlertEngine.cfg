SPECIFICATION Spec
CONSTANTS
  k1 = k1
  k2 = k2
  Keys      <- MCKeys
  WarnTexts <- MCWarnTexts
  CritTexts <- MCCritTexts
  MinCap = 2
  CapN = 1
  ClearN = 3
SYMMETRY MCSymmetry
INVARIANTS
  ShownAsAnnounced
  LogTellsActive
  BannerIsListHead
PROPERTIES
  KeepsPromise
