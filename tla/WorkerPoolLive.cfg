\* Progress with a crash and any number of lost leases.
CONSTANTS
  Session = {s1}
  Worker = {w1, w2}
  MaxRuns = 1
  MaxAttempts = 2
  LeaseTicks = 1
  RetryTicks = 1
  MaxStall = 0
  SweepLimit = 1
  MaxEvents = 1
  ProgressEvent = {}
  MaxLlmCalls = 1
  MaxToolCalls = 1
  MaxCrashes = 1
  NoSession = NoSession
  NoWorker = NoWorker
  NoLease = NoLease
  NoError = NoError
  NoRenewal = NoRenewal
SPECIFICATION Spec
PROPERTIES
  EveryRunEnds
  CancellationTakesEffect
