SPECIFICATION FairSpec

CONSTANTS
  Workers = {w1, w2}
  Clients = {c1}
  MaxJobs = 1
  Names = {"known", "unknown"}
  Registered = {"known"}
  Keys = {}
  NoKey = "nokey"
  MaxAttempts = 2
  Lease = 2
  Limit = 20
  Punctual = {w1, w2}
  MaxRequeues = 2
  MaxCrashes = 2
  MaxLosses = 1
INVARIANTS
  HeartbeatExcludesOthers
PROPERTIES
  EveryJobSettles
