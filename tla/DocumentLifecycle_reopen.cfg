SPECIFICATION Spec
SYMMETRY MCSymmetry
CHECK_DEADLOCK FALSE
CONSTANTS
  Requests = {r1, r2}
  Users = {u1}
  NoUser = NoUser
  Payloads = {a}
  NoPayload = NoPayload
  Parts = {base}
  Base = base
  Stages = 0
  Required <- MCSingle
  Distinct = {}
  Strict = {}
  MaxHead = 1
  MaxVersion = 5
  MaxFaults = 0
INVARIANTS
  CurrentRequestCanBeStored
