SPECIFICATION Spec
CONSTANTS
  Texts <- MCTexts
  Trim <- MCTrim
  Blank = ""
  Orders <- MCOrders
  GatewayNames = {"", "mock", "stripe", "paypal"}
  Lower <- MCLower
  BlankName = ""
  DefaultName = "mock"
  UnitsPerCent = 2
  Word = 8
  Enabled = {"mock", "stripe"}
  None = None
  InitialPayments <- MCTwoMock
  Inputs <- MCTwoPayments
  Payments = {"p1", "p2"}
  Requests = {r1, r2}
  MaxConns = 2
  Faults = FALSE
INVARIANTS
  RefundIsOfThePayment
