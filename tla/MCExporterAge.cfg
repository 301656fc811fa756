SPECIFICATION Spec
CONSTANTS
  s1 = s1
  s2 = s2
  c1 = c1
  c2 = c2
  c3 = c3
  None = None
  Scrapes    <- MCScrapes
  Collectors <- MCCollectors
  MinInterval = 1
  Wait = 2
  MaxAge = 3
INVARIANT AgeIsOfReadings
