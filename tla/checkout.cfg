CONSTANTS
  p = p
  v = v
  ann = ann
  bob = bob
  r1 = r1
  r2 = r2
  Products = {p}
  Variants = {v}
  ProductOf <- MCProductOf
  Customers = {ann, bob}
  Requests = {r1, r2}
  Owner <- EachTheirOwn
  Opening = 2
  MaxRows = 3
  MaxQuantity = 2
  MaxOrders = 2
  MaxEdits = 1
  Recounts = {1}
SPECIFICATION Spec
INVARIANTS TypeOK  OversoldOnlyWhenStale RowOrderedOnce
PROPERTIES OrderIsTheCart
CHECK_DEADLOCK FALSE
SYMMETRY Swaps
