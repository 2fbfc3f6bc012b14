SPECIFICATION Spec
CHECK_DEADLOCK FALSE
CONSTANTS
  Requests = {q1, q2}
  NoRequest = NoRequest
  Users = {u1, u2}
  Handlers = {h1, h2}
  Days = {1}
  NewDays = {2}
  Dates = {3}
  Today = 1
  Opening = 2
  Stages = 1
  Required <- MCRequired
  Candidates <- MCCandidates
  Runs = {"first", "second"}
  RunMode <- MCRunMode
  RunDate <- MCRunDate
  RunExpiry <- MCRunExpiry
  Grant = 1
  CarryCap = 1
  PageSize = 100
  MaxOps = 4
  MaxUpsets = 1
INVARIANTS
  TypeOK
  RequestsNameTheirEntries
  AccountMatchesRequests
  NotOverdrawn
  
SYMMETRY MCSymmetry
