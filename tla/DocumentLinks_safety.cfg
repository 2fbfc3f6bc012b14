SPECIFICATION LinksSpec
SYMMETRY MCSymmetry
CHECK_DEADLOCK FALSE
CONSTANTS
  Requests = {r1}
  Users = {u1}
  NoUser = NoUser
  Payloads = {a}
  NoPayload = NoPayload
  Parts = {base}
  Base = base
  Stages = 1
  Required <- MCSingle
  Distinct = {}
  Strict = {}
  MaxHead = 1
  MaxVersion = 2
  MaxFaults = 1
  Linkers = {c1, c2}
  Links = {l1, l2}
  NoLink = NoLink
INVARIANTS
  LinksTypeOK
  AddedLinkIsKept
