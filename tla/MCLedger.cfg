SPECIFICATION Spec
CONSTANTS
  Cycles = {c1}
  Seqs = {1}
  Hashes = {h1, h2}
  MaxFence = 2
  Requests = {r1, r2}
  MaxLines = 5
INVARIANTS
  TypeOK
  RestartForgetsNothing
  StaleFenceStaysOut
  RevocationHolds
PROPERTY AnswersSpec
SYMMETRY Symmetric
CHECK_DEADLOCK FALSE
