\* One page, one Run with up to two attempts, two connection losses.
CONSTANTS
  Session = {s1}
  Worker = {w1}
  MaxRuns = 1
  MaxAttempts = 2
  LeaseTicks = 1
  RetryTicks = 0
  MaxStall = 0
  SweepLimit = 1
  MaxEvents = 3
  ProgressEvent = {"TOOL_STARTED"}
  Client = {c1}
  MaxBreaks = 2
  NoSession = NoSession
  NoWorker = NoWorker
  NoLease = NoLease
  NoError = NoError
SPECIFICATION StreamSpec
INVARIANTS
  ExactlyOnce
  EndsComplete
PROPERTIES
  EndReachesPage
