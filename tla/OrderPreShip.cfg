SPECIFICATION FairSagaSpec
CONSTANTS
  p1 = p1
  p2 = p2
  p3 = p3
  q1 = q1
  q2 = q2
  Sku <- mcSku
  Product = {"tote"}
  ProductOf <- mcProductOf
  Requests <- mcRequests
  Quantities = {2}
  Deltas = {}
  MaxInt = 2
  MaxReservations = 3
  NumOrders = 1
  ItemsOf <- mcItemsOf
  Payment = {q1}
  PaymentOrder <- mcPaymentOrder
  NoPayment = NoPayment
  Proc = {p1, p2, p3}
  Serves <- mcPreShip
  CallsMayFail = FALSE
INVARIANT NoOrphanHold
PROPERTIES CapturedMoneySettles UnpaidOrderCloses
CHECK_DEADLOCK FALSE
