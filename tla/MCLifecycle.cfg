SPECIFICATION Spec

CONSTANTS
  Connections = {c1, c2}
  Scheduler = scheduler
  Nobody = nobody
  Unset = unset
  Files <- MCFiles
  Requests <- MCRequests
  Busy = {443}
  DefaultPort = 80
  DefaultInterval = 30
  Second = 12
  IntMax = 511

INVARIANTS
  TypeOK
  StopDrains
  OnlyTheLateAreCutOff
  OnlyABadIntervalPanics

PROPERTIES
  NothingBeginsAfterTheStop
  SignalEndsTheProcess
  TicksGoOn

CHECK_DEADLOCK FALSE
