\* A page with one known session and up to three calls at a time.
CONSTANTS
  Thread = {t1, t2, t3}
  MaxSessions = 2
  MaxRuns = 2
  Known = 1
  MayFail = FALSE
SPECIFICATION Spec
SYMMETRY ThreadSymmetry
CHECK_DEADLOCK FALSE
INVARIANTS
  FinalAnswerShown
CONSTRAINT Apart
