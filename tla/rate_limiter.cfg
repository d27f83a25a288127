SPECIFICATION Spec
CONSTANTS
  Clients = {c1, c2}
  Requests = {r1, r2, r3, r4}
  None = None
  Enabled = TRUE
  Burst = 2
  TTL = 3
  SweepEvery = 2
  MaxStall = 1
  MaxTime = 7
INVARIANTS
  TypeOK
  BudgetKept
  RefusedOverBudget
  MapBounded
SYMMETRY MCSymmetry
