SPECIFICATION Spec
CONSTANTS
  Texts <- MCTexts
  Trim <- MCTrim
  Blank = ""
  Orders <- MCOrders
  GatewayNames <- MCNames
  Lower <- MCLower
  BlankName = ""
  DefaultName = "MOCK"
  UnitsPerCent = 2
  Word = 8
  MaxAmount = 4
  Enabled = {"mock", "stripe", "paypal"}
  Oversized <- MCOversized
  None = None
  Inputs <- MCDuplicates
  Requests = {r1, r2, r3}
  MaxInFlight = 1
  MaxConns = 1
  Faults = TRUE
INVARIANTS
  RechargeOnlyAfterError
  PaidOrderNeverCharged
  SameKeySameReply
SYMMETRY MCSymmetry
