SPECIFICATION QSpec
CONSTANTS
  Cycles = {c1}
  MaxAttempts = 1
  Codes = {"TECHNICAL_DECLINE"}
  MaxFence = 2
  Workers = {w1}
  Reconcilers = {r1}
  Relays = {l1}
  Schedulers = {s1}
  Crashes = TRUE
INVARIANT InFlightIsTracked
CHECK_DEADLOCK FALSE
