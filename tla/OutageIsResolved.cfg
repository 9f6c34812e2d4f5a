SPECIFICATION Spec
CONSTANTS
  Last = 2
  Batches = {1}
  Workers = {w1}
  MaxLosses = 1
  MaxCrashes = 0
  Unnoticed = {}
PROPERTY OutageIsResolved
CHECK_DEADLOCK FALSE
