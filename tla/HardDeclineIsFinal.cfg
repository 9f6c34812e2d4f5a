SPECIFICATION QSpec
CONSTANTS
  Cycles = {c1}
  MaxAttempts = 2
  Codes = {"MANDATE_REVOKED"}
  MaxFence = 3
  Workers = {w1}
  Reconcilers = {r1}
  Relays = {l1}
  Schedulers = {s1}
  Crashes = FALSE
INVARIANT HardDeclineIsFinal
CHECK_DEADLOCK FALSE
