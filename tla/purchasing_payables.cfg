CONSTANTS
  flour = flour
  sugar = sugar
  mill = mill
  depot = depot
  r1 = r1
  r2 = r2
  Vendors = {mill, depot}
  Materials = {flour, sugar}
  Opening <- Entered
  Papers <- Keyed
  BillEdits <- Rewritten
  MaterialEdits <- Recounted
  Payments <- Sums
  PaymentEdits <- Corrected
  Today = 75
  Requests = {r1}
  Known = {mill, flour}
  MaxBills = 1
  MaxPayments = 1
  MaxEdits = 1
SPECIFICATION Spec
CONSTRAINT Few
INVARIANT PayablesAgree
CHECK_DEADLOCK FALSE
