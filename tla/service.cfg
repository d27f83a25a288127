SPECIFICATION Spec
CONSTANTS
  p1 = p1
  Texts <- MCTexts
  Trim <- MCTrim
  Blank = ""
  Orders <- MCOrders
  GatewayNames = {"", "mock", "stripe", "paypal"}
  Lower <- MCLower
  BlankName = ""
  DefaultName = "mock"
  UnitsPerCent = 2
  Word = 8
  Enabled = {"mock"}
  Oversized = {}
  MaxAmount = 4
  None = None
  Purchases = {p1, p2}
  Returns = {r1, r2}
  MaxConns = 2
  PurchaseInputs <- MCPurchases
  ReturnInputs <- MCReturns
  Updates = {p1}
  NewStatuses = {"COMPLETED"}
  Clients = {c1}
  MaxInFlight = 1
  Faults = FALSE
INVARIANTS
  NoOverRefund
  RetryAfterRefundNeverCharges
  PaidOrderChargedOnlyAfterRefund
  ReportsAgree
PROPERTIES
  LedgerKept
SYMMETRY MCSymmetry
