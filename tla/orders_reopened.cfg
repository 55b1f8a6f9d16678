CONSTANTS
  l1 = l1
  l2 = l2
  l3 = l3
  Lines = {l1, l2}
  VariantLines = {l2}
  Requests = {r1, r2}
  Value <- MCValue
  Charges = 1
  PayMethod = "COD"
  MaxPayments = 2
  MaxRestocks = 1
SPECIFICATION Spec
PROPERTIES ClosedStaysClosedAlways
CHECK_DEADLOCK FALSE
