SPECIFICATION MCSpec
CONSTANTS
  c1 = c1
  c2 = c2
  Sku = {1, 2}
  Product = {"tote"}
  ProductOf <- mcProductOf
  Requests <- mcRequests
  Quantities = {1, 2}
  Deltas = {}
  MaxInt = 2
  MaxReservations = 3
  Client = {c1, c2}
  Keys = {"k"}
  NoKey = NoKey
  Inputs <- mcInputs
  Prices = {0, 15, 20}
  ShippingFee = 3
  SurchargeBps = 1000
  MaxOrders = 2
  MaxChanges = 1
  Faults = {"died", "reserve lost", "insert failed", "release failed"}
  MaxFaults = 1
SYMMETRY Interchangeable
INVARIANTS OneOrderPerKey PlacedIsSound
CHECK_DEADLOCK FALSE
