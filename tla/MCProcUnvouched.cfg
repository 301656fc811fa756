SPECIFICATION Spec
CONSTANTS
  Pids = {1}
  MaxStart = 2
  f1 = f1
  f2 = f2
  Fetches <- MCFetches
SYMMETRY MCSymmetry
INVARIANT ShowsOnlyItsProcess
