CONSTANTS
  flour = flour
  sugar = sugar
  mill = mill
  depot = depot
  r1 = r1
  r2 = r2
  Vendors = {mill, depot}
  Materials = {flour, sugar}
  Opening <- Entered
  Papers <- Keyed
  BillEdits <- Rewritten
  MaterialEdits <- Recounted
  Payments <- Sums
  PaymentEdits <- Corrected
  Today = 75
  Requests = {r1, r2}
  Known = {mill, flour}
  MaxBills = 2
  MaxPayments = 2
  MaxEdits = 2
SPECIFICATION Spec
CONSTRAINT Few
INVARIANTS TypeOK StockIsCountPlusBills CostIsHistory
  SpendAddsUp NoOverpayment StatementAgrees
PROPERTIES PaidBillStays UnitKeepsStock
SYMMETRY Swaps
CHECK_DEADLOCK FALSE
