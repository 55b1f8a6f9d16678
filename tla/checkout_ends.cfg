CONSTANTS
  p = p
  v = v
  ann = ann
  bob = bob
  r1 = r1
  r2 = r2
  Products = {p}
  Variants = {v}
  ProductOf <- MCProductOf
  Customers = {ann, bob}
  Requests = {r1, r2}
  Owner <- EachTheirOwn
  Opening = 1
  MaxRows = 4
  MaxQuantity = 1
  MaxOrders = 2
  MaxEdits = 0
  Recounts = {1}
SPECIFICATION FairSpec
PROPERTIES CheckoutEnds
CHECK_DEADLOCK FALSE
