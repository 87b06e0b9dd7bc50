\* Three versions of the plan of one session, one of them in trouble.
CONSTANTS
  Session = {s1}
  Worker = {w1}
  MaxRuns = 3
  MaxAttempts = 2
  LeaseTicks = 1
  RetryTicks = 0
  MaxStall = 0
  SweepLimit = 1
  MaxEvents = 0
  ProgressEvent = {}
  MaxOpen = 1
  NoSession = NoSession
  NoWorker = NoWorker
  NoLease = NoLease
  NoError = NoError
SPECIFICATION ResultSpec
INVARIANTS
  ShownIffContent
  ProvenanceTrue
  OutcomeTold
CONSTRAINT OneTroubled
