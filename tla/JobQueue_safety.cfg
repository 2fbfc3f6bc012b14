SPECIFICATION Spec
SYMMETRY Symmetry
CONSTANTS
  Workers = {w1, w2}
  Clients = {c1, c2}
  MaxJobs = 2
  Names = {"known", "unknown"}
  Registered = {"known"}
  Keys = {"k"}
  NoKey = "nokey"
  MaxAttempts = 2
  Lease = 2
  Limit = 1
  Punctual = {}
  MaxRequeues = 1
  MaxCrashes = 0
  MaxLosses = 1
INVARIANTS
  TypeOK
  RepositoriesAgree
  DeadLetterIsDeserved
  AttemptNumbersAreUnique
PROPERTIES
  ImplementsContract
