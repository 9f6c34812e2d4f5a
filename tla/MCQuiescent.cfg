SPECIFICATION QSpec
CONSTANTS
  Cycles = {c1}
  MaxAttempts = 2
  Codes = {"MANDATE_REVOKED", "TECHNICAL_DECLINE", "UNMAPPED"}
  MaxFence = 3
  Workers = {w1, w2}
  Reconcilers = {r1}
  Relays = {l1}
  Schedulers = {s1}
  Crashes = TRUE
INVARIANTS
  QTypeOK
  VerifyPasses
  PendingIsSettled
  WriteAhead
  NoticeGate
  RecordsAgreeWithBank
  RecoveredWasPaid
  SuccessIsLast
  EarlierDebitsWereAbandoned
  UnknownIsReconcilable
  ScheduledIsClaimable
  TerminalFailureIsLast
SYMMETRY Symmetric
CHECK_DEADLOCK FALSE
