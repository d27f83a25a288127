SPECIFICATION Spec
CONSTANTS
  Texts <- MCTexts
  Trim <- MCTrim
  Blank = ""
  Orders <- MCOrders
  GatewayNames <- MCNames
  Lower <- MCLower
  BlankName = ""
  DefaultName = "MOCK"
  UnitsPerCent = 2
  Word = 8
  MaxAmount = 4
  Enabled = {"mock", "stripe", "paypal"}
  Oversized <- MCOversized
  None = None
  Inputs <- MCSameKey
  Requests = {r1, r2}
  MaxInFlight = 2
  MaxConns = 2
  Faults = FALSE
INVARIANTS
  NeverDoubleCharge
SYMMETRY MCSymmetry
