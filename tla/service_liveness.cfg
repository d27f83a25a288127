SPECIFICATION FairSpec
CONSTANTS
  p1 = p1
  Texts <- MCTexts
  Trim <- MCTrim
  Blank = ""
  Orders <- MCOrders
  GatewayNames = {"", "mock", "stripe", "paypal"}
  Lower <- MCLower
  BlankName = ""
  DefaultName = "mock"
  UnitsPerCent = 2
  Word = 8
  Enabled = {"mock"}
  Oversized = {}
  MaxAmount = 4
  None = None
  Purchases = {p1, p2}
  Returns = {r1, r2}
  MaxConns = 2
  PurchaseInputs <- MCSamePurchase
  ReturnInputs <- MCReturns
  Updates = {}
  NewStatuses = {}
  Clients = {}
  MaxInFlight = 2
  Faults = TRUE
INVARIANTS
  AuditTellsAccount
PROPERTIES
  PurchaseAnswered
  ReturnAnswered
