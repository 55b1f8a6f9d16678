CONSTANTS
  p = p
  v = v
  ann = ann
  bob = bob
  r1 = r1
  r2 = r2
  Products = {p}
  Variants = {v}
  ProductOf <- MCProductOf
  Customers = {ann}
  Requests = {r1}
  Owner <- EachTheirOwn
  Opening = 2
  MaxRows = 2
  MaxQuantity = 2
  MaxOrders = 2
  MaxEdits = 0
  Recounts = {1}
SPECIFICATION Spec
INVARIANTS NoOversell
CHECK_DEADLOCK FALSE
