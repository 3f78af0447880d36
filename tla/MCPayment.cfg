SPECIFICATION Spec
CONSTANTS
  NumPayments = 2
  Orders = {"o1"}
  OrderMethod <- mcOrderMethod
  Amount = 2
  CreateKeys = {"c1"}
  CancelKeys = {"k1"}
  Handlers = {h1, h2}
  None = None
  MaxCallbacks = 2
  MaxFaults = 1
  MaxEvents = 2
INVARIANTS CapturesAccounted RefundsAccounted
PROPERTIES ApprovalIsNotSilent
CHECK_DEADLOCK FALSE
