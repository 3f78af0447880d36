SPECIFICATION AccountsSpec
CONSTANTS
  Topics = {"ann", "bob"}
  Drains = {"worker", "request"}
  BatchSize = 2
  MaxEvents = 2
  Handlers = {"h1", "h2"}
  Duties <- mcDuties
  MaxTries = 2
  MaxAddresses = 1
  MaxLogins = 1
  MaxTokens = 3
  MaxAddressIds = 3
  MaxRequests = 3
  OldUsers = {"ann"}
INVARIANTS AccountsSafe
PROPERTIES LoginHoldsOneToken EventsDelivered
CHECK_DEADLOCK FALSE
