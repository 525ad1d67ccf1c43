SPECIFICATION Spec
CONSTANTS
  Prompts <- MCPrompts
  Figures = {0, 4, 5, 6}
  Retry = 2
  MaxRunes = 2
  MaxLines = 3
INVARIANTS
  TypeOK
  EstimateIsByPosition
  ModesCountAlike
  UsageSpansAttempts
CHECK_DEADLOCK FALSE
