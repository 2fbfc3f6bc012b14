SPECIFICATION Spec
SYMMETRY MCSymmetry
CHECK_DEADLOCK FALSE
CONSTANTS
  Requests = {r1, r2}
  Users = {u1, u2, u3}
  NoUser = NoUser
  Payloads = {a}
  NoPayload = NoPayload
  Parts = {base, m1}
  Base = base
  Stages = 2
  Required <- MCRequired
  Distinct = {2}
  Strict <- MCStrict
  MaxHead = 2
  MaxVersion = 5
  MaxFaults = 0
INVARIANTS
  TypeOK
  PendingIffSubmitted
  
  RequesterDoesNotApprove
  TrailIsComplete
PROPERTIES
  ApprovalIsResolvedOnce
  PayloadIsNotOverwritten
