SPECIFICATION MCSpec
CONSTANTS
  bag = bag
  bagBlack = bagBlack
  l1 = l1
  server = server
  tool = tool
  ann = ann
  welcome = welcome
  vip = vip
  Service <- mcService
  Casts <- mcCasts
  OrderTables <- mcTables
  CartTable = "cart_items"
  Product = {bag}
  Name = {bag, bagBlack}
  Line = {l1}
  MaxIds = 2
  MaxCrashes = 1
  MaxDeploys = 1
  Server = server
  Tool = tool
  Manager = {"m1"}
  Customer = {ann}
  Code = {welcome, vip}
  SignUpCode = welcome
  InitDefs <- mcInitDefs
  ToolCodes = {welcome}
  HandKeys = {"manager", "user.registered"}
  NewDefs <- mcNewDefs
  Patches <- mcPatches
  Never = Never
  None = None
  MaxClock = 1
  MaxRequests = 2
  MaxDeliveries = 2
  MaxFaults = 1
INVARIANTS RolloutSafe SignUpServed
PROPERTIES LinesKept WithdrawnStays
CHECK_DEADLOCK FALSE
