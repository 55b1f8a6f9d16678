CONSTANTS
  Total = 2
  Amounts = {1, 2}
  Requests = {r1, r2}
  NamesDate = {FALSE}
  Statuses = {"OUT_FOR_DELIVERY", "DELIVERED"}
  MaxRefunds = 2
SPECIFICATION Spec
INVARIANTS TypeOK CeilingHolds  CompletedIsDated
 
CHECK_DEADLOCK FALSE
SYMMETRY Admins
