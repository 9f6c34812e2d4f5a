SPECIFICATION Spec
CONSTANTS
  Cycles = {c1}
  MaxAttempts = 2
  Codes = {"INSUFFICIENT_FUNDS"}
  MaxFence = 2
INVARIANTS
  TypeOK
  BudgetAgrees
  RefundNeverRefused
PROPERTY BudgetSpec
CHECK_DEADLOCK FALSE
