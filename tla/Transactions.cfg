CONSTANTS
  Session = {s1}
  Worker = {w1, w2}
  Conn = {c1, c2}
  MaxRuns = 2
  MaxAttempts = 2
  LeaseTicks = 1
  RetryTicks = 1
  MaxStall = 1
  SweepLimit = 1
  MaxEvents = 0
  ProgressEvent = {"TOOL_STARTED"}
  NoSession = NoSession
  NoWorker = NoWorker
  NoLease = NoLease
  NoError = NoError
  NoTarget = NoTarget
SYMMETRY TransactionSymmetry
SPECIFICATION SafeSpec
INVARIANTS
  TypeOK
  NoStrandedRun
  LogClosesWithRun
  AnswerIffSucceeded
  CancellationWins
  AttemptLedger
  RevisionChain
  OnlyDeletionsDeadlock
PROPERTIES
  TakeoverAfterExpiry
  KeepsContract
  ImplementsStore
