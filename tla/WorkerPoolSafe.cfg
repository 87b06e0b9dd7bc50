\* Two workers, one Run, a lease that can be lost and taken back while a call
\* or a renewal is in flight.
CONSTANTS
  Session = {s1}
  Worker = {w1, w2}
  MaxRuns = 1
  MaxAttempts = 2
  LeaseTicks = 2
  RetryTicks = 0
  MaxStall = 1
  SweepLimit = 1
  MaxEvents = 4
  ProgressEvent = {"TOOL_STARTED"}
  MaxLlmCalls = 2
  MaxToolCalls = 1
  MaxCrashes = 1
  NoSession = NoSession
  NoWorker = NoWorker
  NoLease = NoLease
  NoError = NoError
  NoRenewal = NoRenewal
SYMMETRY WorkerSymmetry
SPECIFICATION SafeSpec
INVARIANTS
  FencedByAttempt
  CancellationStopsWork
  ToolCallsPerAttempt
  CancelledAsAsked
