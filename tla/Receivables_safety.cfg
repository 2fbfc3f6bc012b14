SPECIFICATION Spec
CHECK_DEADLOCK FALSE
CONSTANTS
  p1 = p1
  p2 = p2
  Inv = inv
  Payments = {p1, p2}
  Notes = {c1}
  Refunds = {r1}
  NoNote = NoNote
  Handlers = {h1, h2}
  Total = 2
  Receipts <- MCReceipts
  Generated = {p2}
  Credits = {1, 2}
  MaxUpsets = 1
  MaxEffects = 5
INVARIANTS
  TypeOK
  LimitsHold
  PostedOnce
  
  
SYMMETRY MCSymmetry
