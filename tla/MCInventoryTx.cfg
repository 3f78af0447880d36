SPECIFICATION TxSpec
CONSTANTS
  Sku <- mcSku
  Product <- mcProduct
  ProductOf <- mcProductOf
  Requests <- mcRequests
  Quantities <- mcQuantities
  Deltas <- mcDeltas
  MaxInt = 2
  MaxReservations = 2
  Tx = {t1, t2}
INVARIANTS StockSafe NoLockCycle
PROPERTIES ImplementsInventory TxFinishes
CHECK_DEADLOCK FALSE
