CONSTANTS
  Total = 2
  Amounts = {1, 2}
  Requests = {r1}
  NamesDate = {FALSE}
  Statuses = {"OUT_FOR_DELIVERY", "DELIVERED"}
  MaxRefunds = 2
SPECIFICATION Spec
INVARIANTS RefundsWithinTotal
CHECK_DEADLOCK FALSE
