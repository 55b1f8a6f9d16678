CONSTANTS
  l1 = l1
  l2 = l2
  l3 = l3
  Lines = {l1, l2, l3}
  VariantLines = {l2}
  Requests = {r1}
  Value <- MCValue
  Charges = 1
  PayMethod = "COD"
  MaxPayments = 3
  MaxRestocks = 1
SPECIFICATION FairSpec
PROPERTIES KeepsContract HoldHoldsEverything CancelledIsRestocked
CHECK_DEADLOCK FALSE
