SPECIFICATION HungSpec
CONSTANTS
  Fast      <- MCFast
  ProcRate  <- MCProcRate
  Slow      <- MCSlow
  Cpu  = "cpu"
  Mem  = "memory"
  Kmsg = "kernel log"
  Detail = "process detail"
  UserKinds <- MCUser
  Disabled  <- MCDisabled
  ErrKinds  <- MCErrKinds
  procEvery = 1
  slowEvery = 2
  KmsgMaxErrors = 2
  MaxDetail = 1
INVARIANTS
  GuardIsAnswered
  NoRoundTooMany
PROPERTIES
  EventsFlow
  OthersKeepSampling
  ErrorClears
