SPECIFICATION Spec
CONSTANTS
  Codes = {"spring"}
  Orders <- mcOrders
  CustomerOf <- mcCustomerOf
  Limit = 1
  Caps <- mcCaps
  NoCode = NoCode
  Tx = {t1, t2}
  MaxCreates = 1
INVARIANTS CountMatchesUses OnlyReserveMeetsRelease
PROPERTIES LedgerRequestsEnd ImplementsUseLedger
CHECK_DEADLOCK FALSE
