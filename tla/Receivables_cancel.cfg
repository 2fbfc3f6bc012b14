SPECIFICATION Spec
CHECK_DEADLOCK FALSE
CONSTANTS
  p1 = p1
  p2 = p2
  Inv = inv
  Payments = {p1, p2}
  Notes = {}
  Refunds = {}
  NoNote = NoNote
  Handlers = {h1}
  Total = 2
  Receipts <- MCNoReceipts
  Generated = {p1, p2}
  Credits = {1}
  MaxUpsets = 0
  MaxEffects = 5
PROPERTIES CancelledWithoutPayments
SYMMETRY MCSymmetry
