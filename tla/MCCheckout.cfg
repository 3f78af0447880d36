SPECIFICATION CheckoutSpec
CONSTANTS
  Codes = {"spring"}
  Orders <- mcOrders
  CustomerOf <- mcCustomerOf
  Limit = 1
  Caps <- mcCaps
  NoCode = NoCode
  Sessions = {"cs"}
  SessionOf <- mcSessionOf
  Rules <- mcRules
  Tiers <- mcTiers
  Carts <- mcCarts
  Opening <- mcOpening
  Books <- mcBooks
  Fee = 1
  Handlers = {h1, h2}
  MaxReopens = 1
  MaxChanges = 2
  CatalogFails = FALSE
  MaxFaults = 1
SYMMETRY Symmetry
INVARIANTS SessionHasItsOrder UseOfLiveOrder
PROPERTY DiscountsEarned
CHECK_DEADLOCK FALSE
