SPECIFICATION QSpec
CONSTANTS
  Cycles = {c1}
  MaxAttempts = 2
  Codes = {"INSUFFICIENT_FUNDS"}
  MaxFence = 2
  Workers = {w1}
  Reconcilers = {r1}
  Relays = {l1, l2}
  Schedulers = {s1, s2}
  Crashes = TRUE
INVARIANT OneOpenAttempt
PROPERTY AskedFirst
SYMMETRY Symmetric
CHECK_DEADLOCK FALSE
