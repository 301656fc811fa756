SPECIFICATION Spec
CONSTANTS
  Pids = {1}
  MaxStart = 3
  f1 = f1
  f2 = f2
  Fetches <- MCFetches
SYMMETRY MCSymmetry
INVARIANTS
  SignalNeverStrays
  StandingNeverHit
  VouchedDataIsOurs
  OwnGoneIsTrue
