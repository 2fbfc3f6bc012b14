SPECIFICATION Spec

CONSTANTS
  MaxSubmissions = 1
  IdemKeys = {}
  NoKey = nokey
  Threads = {t1, t2}
  Posted = {"process", "retry"}
  MaxAttempts = 2
  JobAttempts = 2
  MaxOps = 2
  MaxFaults = 1
INVARIANTS
  TypeOK
  SendsWereAsked
  AttemptsCoverSends
  DeadLetterIsListed
SYMMETRY Symmetry
CHECK_DEADLOCK FALSE
