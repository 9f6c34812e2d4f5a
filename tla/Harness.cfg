SPECIFICATION HSpec
CONSTANTS
  DrawValues = {0, 7600, 9999}
  Amounts = {20, 440}
  Dues = {5, 26}
  Months = {28}
  Paydays = {7, 12, 27}
  Lows = {10, 30}
  Highs = {500}
  Length = 3
INVARIANTS
  TypeOK
  OracleIsUpperBound
  DaysAreTheBaselines
  BaselineIsNotBeaten
  TruthfulOracle
CHECK_DEADLOCK FALSE
