SPECIFICATION FairSpec

CONSTANTS
  MaxSubmissions = 2
  IdemKeys = {k1}
  NoKey = nokey
  Threads = {t1, t2}
  Posted = {}
  MaxAttempts = 2
  JobAttempts = 2
  MaxOps = 2
  MaxFaults = 1

  
PROPERTIES
  EverySubmissionSettles
CHECK_DEADLOCK FALSE
