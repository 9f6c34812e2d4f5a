SPECIFICATION QSpec
CONSTANTS
  Cycles = {c1}
  MaxAttempts = 2
  Codes = {"TECHNICAL_DECLINE"}
  MaxFence = 3
  Workers = {w1, w2}
  Reconcilers = {r1}
  Relays = {l1}
  Schedulers = {s1}
  Crashes = FALSE
INVARIANT NeverDebitsTwice
CHECK_DEADLOCK FALSE
