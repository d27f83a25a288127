SPECIFICATION FairSpec
CONSTANTS
  Unset = ""
  Atoi <- MCAtoi
  Payments = {p1}
  Refunds = {r1}
  Probes = {h1}
  None = None
  Names = {"", "Stripe"}
  GatewayNames <- MCGatewayNames
  Lower <- MCLower
  Environments <- MCEnvironments
  UsablePorts = {8084}
INVARIANTS
  TypeOK
  LossExplained
  DropExplained
  ServesWhileDraining
  MoneyNeedsOperator
PROPERTIES
  ShutdownEnds
