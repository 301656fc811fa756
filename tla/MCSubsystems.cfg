CONSTANTS
  Parts = {"oom", "kernel_log", "mounts", "samplers", "trends", "procs", "history",
           "backlight", "governor", "config"}
  Slots = {s1, s2}
  Window = 1
  Keep = 2
  Match = 2
  Before = 1
  MaxKills = 3
  MaxTime = 1
  Lines <- MCLines
  DiskOf <- MCDiskOf
  OnHost <- MCOnHost
  Virtual = {}
  EventWindow = 2
  RingSize = 2
  MaxPerRead = 2
  MaxErrors = 2
  MaxLinesWritten = 3
  MaxNow = 3
  Points = {p1, p2}
  Devices = {d1, d2, d3}
  ByDesign = {d3}
  FstabRW = {p2}
  MaxMounts = 3
  Callers = {c1, c2}
  Items = {i1, i2}
  Wrap = 3
  MaxCarried = 3
  Spans <- MCSpans
  DrainLimit <- MCDrain
  RiseLimit <- MCRise
  Sleeps = {2, 12}
  StepEvery = 3
  Parents <- MCParents
  CPUs = {0, 1}
  Matching = {1, 3}
  ProcsCap = 2
  Heights = {1, 2}
  Instances = {u1, u2}
  Inodes = {f1, f2}
  NoFile = NoFile
  MaxAge = 1
  LastHour = 1
  MaxRaw = 9
  StepPct = 10
  Policies = 3
  Available <- MCAvailable
  ConfigLines <- MCConfigLines
  Junk = Junk
  Trips <- MCTrips
  MaxLines = 3
SPECIFICATION SubsystemsSpec
INVARIANTS
  SubsystemsTypeOK
  KillsAccounted NamedOnce
  GroupsTellEvents
  FlagHasEvidence
  NothingCountedTwice
  BaselineIsRecent SteadyIsQuiet
  ViewListsAll TargetOnScreen
  PathIsWhole SavedSurvives
  PoliciesTogether
  ThresholdsBite SanitizeSettles TempsAgree
PROPERTIES
  NewKillsRing LockIsFlagged CursorFollows KeysAdvance
SYMMETRY Symmetry
CHECK_DEADLOCK FALSE
