SPECIFICATION Spec
CONSTANTS
  Last = 3
  Batches = {1, 2}
  Workers = {w1}
  MaxLosses = 2
  MaxCrashes = 2
  Unnoticed = {3}
INVARIANT TypeOK
PROPERTIES
  EveryAttemptIsTaken
  FiredIsAnswered
  AnswerIsRecorded
CHECK_DEADLOCK FALSE
